---------------------------- MODULE RecentMetrics ----------------------------
(***************************************************************************)
(* What a peer monitor promises: of every peer it remembers the most       *)
(* recent metrics of each name, at most windowCap of them, in the order in *)
(* which they were logged, and answers a query with the newest of each     *)
(* peer.  PeerMonitor implements it with circular queues.                  *)
(***************************************************************************)
EXTENDS Naturals, Sequences

CONSTANTS
    Names,      \* metric names
    Peers,      \* peers that send metrics
    Metrics,    \* metrics
    windowCap   \* how many of them are remembered

VARIABLES
    recent,   \* recent[n][p]: remembered metrics, oldest first
    answer    \* the last answer given: a metric for some peers

rvars == <<recent, answer>>

(* The oldest metric makes room for a new one once there are windowCap. *)
Remember(s, m) == IF Len(s) < windowCap THEN Append(s, m) ELSE Append(Tail(s), m)

Newest(s) == s[Len(s)]

Log(n, p, m) ==
    /\ recent' = [recent EXCEPT ![n][p] = Remember(@, m)]
    /\ UNCHANGED answer

(* A query at a time when the metrics in D are invalid or have expired. *)
Query(n, D) ==
    /\ answer' = [p \in {q \in Peers : /\ recent[n][q] # << >>
                                      /\ Newest(recent[n][q]) \notin D}
                     |-> Newest(recent[n][p])]
    /\ UNCHANGED recent

Init == /\ recent = [n \in Names |-> [p \in Peers |-> << >>]]
        /\ answer = [p \in {} |-> p]

Next == \/ \E n \in Names, p \in Peers, m \in Metrics : Log(n, p, m)
        \/ \E n \in Names, D \in SUBSET Metrics : Query(n, D)

Spec == Init /\ [][Next]_rvars
=============================================================================
