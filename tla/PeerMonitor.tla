----------------------------- MODULE PeerMonitor -----------------------------
(***************************************************************************)
(* StdPeerMonitor (peer_monitor.go): for every metric name and peer a      *)
(* circular queue of the last windowCap metrics.  LogMetric runs under the *)
(* write lock and LastMetrics under the read lock, so each is one step.    *)
(*                                                                         *)
(* The two maps that LogMetric fills on demand are total here: a peer it   *)
(* has not heard of has an empty queue, which LastMetrics skips as it      *)
(* skips a missing one.  Slices are sequences; last stays 0-based as in    *)
(* the code.  Which metrics Discard() rejects depends on the time of the   *)
(* query: any set of them may.                                             *)
(***************************************************************************)
EXTENDS Integers, Sequences

CONSTANTS
    Names,      \* metric names
    Peers,      \* peers that send metrics
    Metrics,    \* metrics
    windowCap   \* capacity of a queue

ASSUME CapAssumption == windowCap \in Nat \ {0}

VARIABLES
    metrics,   \* metrics[n][p]: StdPeerMonitor.metrics
    answer     \* what LastMetrics returned last: a metric for some peers

vars == <<metrics, answer>>

-----------------------------------------------------------------------------
(* peerMetrics.                                                            *)

newPeerMetrics == [last |-> 0, window |-> << >>]

(* Where add puts a metric in a full window: after the newest one, and     *)
(* around its end.                                                         *)
nextSlot_Stuck(last) == last
nextSlot(last) == (last + 1) % windowCap

(* Where the newest metric is after an append. *)
lastOf_Len(window) == Len(window)
lastOf(window) == Len(window) - 1

add(pm, m) ==
    IF Len(pm.window) < windowCap
    THEN [last |-> lastOf(Append(pm.window, m)), window |-> Append(pm.window, m)]
    ELSE [last |-> nextSlot(pm.last),
          window |-> [pm.window EXCEPT ![nextSlot(pm.last) + 1] = m]]

(* latest, for a queue that is not empty. *)
latest(pm) == pm.window[pm.last + 1]

-----------------------------------------------------------------------------
(* The monitor.                                                            *)

LogMetric(n, p, m) ==
    /\ metrics' = [metrics EXCEPT ![n][p] = add(@, m)]
    /\ UNCHANGED answer

(* LastMetrics, at a time when Discard() holds of the metrics in D. *)
LastMetrics(n, D) ==
    /\ answer' = [p \in {q \in Peers : /\ Len(metrics[n][q].window) # 0
                                      /\ latest(metrics[n][q]) \notin D}
                     |-> latest(metrics[n][p])]
    /\ UNCHANGED metrics

Init == /\ metrics = [n \in Names |-> [p \in Peers |-> newPeerMetrics]]
        /\ answer = [p \in {} |-> p]

Next == \/ \E n \in Names, p \in Peers, m \in Metrics : LogMetric(n, p, m)
        \/ \E n \in Names, D \in SUBSET Metrics : LastMetrics(n, D)

Spec == Init /\ [][Next]_vars

-----------------------------------------------------------------------------
(* Properties.                                                             *)

(* The queues newPeerMetrics and add can build: never longer than the      *)
(* capacity, last the index of one of the metrics (0 when there is none),  *)
(* and until the queue is full the index of the final one.                 *)
IsQueue(pm) ==
    /\ pm = [last |-> pm.last, window |-> pm.window]
    /\ pm.last \in 0 .. windowCap - 1
    /\ pm.window \in Seq(Metrics)
    /\ Len(pm.window) <= windowCap
    /\ Len(pm.window) = 0 => pm.last = 0
    /\ Len(pm.window) \in 1 .. windowCap - 1 => pm.last = Len(pm.window) - 1

(* Every variable has its type; what latest reads in a queue that is not   *)
(* empty always exists.                                                    *)
TypeOK ==
    /\ metrics = [n \in Names |-> [p \in Peers |-> metrics[n][p]]]
    /\ \A n \in Names, p \in Peers : IsQueue(metrics[n][p])
    /\ \E P \in SUBSET Peers : answer \in [P -> Metrics]

(* A queue read from its oldest to its newest metric: the slot after last, *)
(* around the end of the slots in use, holds the oldest one.               *)
Unrolled(pm) ==
    [i \in 1 .. Len(pm.window) |->
        pm.window[1 + ((pm.last + i) % Len(pm.window))]]

Recent == INSTANCE RecentMetrics WITH
              recent <- [n \in Names |-> [p \in Peers |-> Unrolled(metrics[n][p])]]

(* The circular queues remember exactly the last windowCap metrics in the  *)
(* order they were logged, and LastMetrics answers with the newest: add    *)
(* overwrites the oldest metric, whatever the number of turns around the   *)
(* window.                                                                 *)
RemembersRecent == Recent!Spec
=============================================================================
