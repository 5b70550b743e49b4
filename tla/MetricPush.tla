----------------------------- MODULE MetricPush -----------------------------
(***************************************************************************)
(* How a peer's metric stays fresh at the leader: the loop of              *)
(* Cluster.pushInformerMetrics in every peer, the numpin informer, the     *)
(* expiry of a metric, and the leader's StdPeerMonitor, which this module  *)
(* extends.                                                                *)
(*                                                                         *)
(* Time passes in ticks, Res of them to a second.  Only remaining times    *)
(* are kept, so the state stays finite.  Expire is written with a          *)
(* resolution of one second: a metric made at phase f of a second lives    *)
(* MetricTTL seconds less f ticks.  The next push is due after half of     *)
(* what is left when the call returns.  In good times the informer's and   *)
(* the leader's answers take Lat ticks at most; in bad times they may take *)
(* longer, be lost or be errors, another peer may lead, or none.           *)
(***************************************************************************)
EXTENDS PeerMonitor

CONSTANTS
    MetricName,  \* the informer's metric
    MetricTTL,   \* seconds
    Res,         \* ticks in a second
    Lat          \* ticks that an answer takes at most in good times

ASSUME NameAssumption == MetricName \in Names
ASSUME MetricAssumption == Metrics = [peer : Peers, valid : BOOLEAN]
ASSUME TimeAssumption ==
    /\ {MetricTTL, Res} \subseteq Nat \ {0}
    /\ Lat \in Nat
    (* What the half of the shortest life must leave for half of a call,   *)
    (* the next answer of the informer and the next call.                  *)
    /\ 5 * Lat <= (MetricTTL - 1) * Res

VARIABLES
    phase,   \* ticks since the last full second
    loop,    \* loop[p]: where the loop of p is
    timer,   \* timer[p]: ticks until its timer fires
    slack,   \* slack[p]: ticks in which the pending answer is still in time
    sent,    \* sent[p]: the metric of the current round
    rem,     \* rem[p]: ticks until it expires; -1 when it has
    life,    \* life[p]: the same for the newest metric of p at this monitor
    calm,    \* good times have come, for good
    \* The rest is history, for the properties.
    late,    \* late[p]: an answer of the current round was late
    ok       \* ok[p]: since p's newest metric came in, nothing went wrong for p

pushVars == <<phase, loop, timer, slack, sent, rem, life, calm, late, ok>>
allVars == <<vars, pushVars>>

-----------------------------------------------------------------------------
(* Metric.                                                                 *)

(* SetTTL, now: formatted to whole seconds.                                *)
SetTTL == MetricTTL * Res - phase

(* Discard, now, for the newest metrics in this monitor.                   *)
Discarded == {m \in Metrics : ~m.valid \/ life[m.peer] < 0}

(* The delay after a push: GetTTL() / 2.  A timer reset to a negative      *)
(* delay fires at once.                                                    *)
Delay_Whole(ttl) == IF ttl > 0 THEN ttl ELSE 0
Delay_Signed(ttl) == ttl \div 2
Delay(ttl) == IF ttl > 0 THEN ttl \div 2 ELSE 0

-----------------------------------------------------------------------------
(* pushInformerMetrics.                                                    *)

(* The timer fires, and Consensus.Leader() answers at once.                *)
FireTo(p, next) ==
    /\ loop[p] = "wait" /\ timer[p] = 0
    /\ loop' = [loop EXCEPT ![p] = next]
    /\ slack' = [slack EXCEPT ![p] = Lat]
    /\ late' = [late EXCEPT ![p] = FALSE]
    /\ UNCHANGED <<vars, phase, timer, sent, rem, life, calm>>

(* This peer leads, or (in bad times) another one does.                    *)
Fire(p) == \/ FireTo(p, "get") /\ UNCHANGED ok
           \/ ~calm /\ FireTo(p, "get other") /\ ok' = [ok EXCEPT ![p] = FALSE]

(* No leader: retry in one second.                                         *)
NoLeader_AskedOnce(p) ==
    /\ loop[p] = "wait" /\ timer[p] = 0
    /\ timer' = [timer EXCEPT ![p] = Res]
    /\ ok' = [ok EXCEPT ![p] = FALSE]
    /\ UNCHANGED <<vars, phase, loop, slack, sent, rem, life, calm, late>>
NoLeader(p) ==
    /\ ~calm
    /\ loop[p] = "wait" /\ timer[p] = 0
    /\ timer' = [timer EXCEPT ![p] = Res]
    /\ ok' = [ok EXCEPT ![p] = FALSE]
    /\ UNCHANGED <<vars, phase, loop, slack, sent, rem, life, calm, late>>

(* Informer.GetMetric: the number of pins, or an invalid metric.           *)
GetMetric(p) ==
    /\ loop[p] \in {"get", "get other"}
    /\ \E valid \in {TRUE} \cup (IF calm THEN {} ELSE {FALSE}) :
          sent' = [sent EXCEPT ![p] = [peer |-> p, valid |-> valid]]
    /\ rem' = [rem EXCEPT ![p] = SetTTL]
    /\ slack' = [slack EXCEPT ![p] = Lat]
    /\ loop' = [loop EXCEPT ![p] = IF @ = "get" THEN "call" ELSE "called"]
    /\ UNCHANGED <<vars, phase, timer, life, calm, late, ok>>

(* PeerMonitorLogMetric reaches this monitor.                              *)
Push(p) ==
    /\ loop[p] = "call"
    /\ LogMetric(MetricName, p, sent[p])
    /\ life' = [life EXCEPT ![p] = rem[p]]
    /\ ok' = [ok EXCEPT ![p] = sent[p].valid /\ ~late[p]]
    /\ loop' = [loop EXCEPT ![p] = "called"]
    /\ UNCHANGED <<phase, timer, slack, sent, rem, calm, late>>

(* The call fails before it got here; an error is only logged.             *)
PushLost(p) ==
    /\ loop[p] = "call" /\ ~calm
    /\ ok' = [ok EXCEPT ![p] = FALSE]
    /\ loop' = [loop EXCEPT ![p] = "called"]
    /\ UNCHANGED <<vars, phase, timer, slack, sent, rem, life, calm, late>>

(* The call returns; the next round is due.                                *)
Reset(p) ==
    /\ loop[p] = "called"
    /\ loop' = [loop EXCEPT ![p] = "wait"]
    /\ timer' = [timer EXCEPT ![p] = Delay(rem[p])]
    /\ UNCHANGED <<vars, phase, slack, sent, rem, life, calm, late, ok>>

-----------------------------------------------------------------------------
(* Time.                                                                   *)

Less1(t) == IF t < 0 THEN t ELSE t - 1

(* A tick: not while a timer is due, nor in good times while an answer     *)
(* is overdue.                                                             *)
Tick ==
    /\ \A p \in Peers : IF loop[p] = "wait" THEN timer[p] > 0 ELSE slack[p] > 0 \/ ~calm
    /\ phase' = (phase + 1) % Res
    /\ timer' = [p \in Peers |-> IF loop[p] = "wait" THEN timer[p] - 1 ELSE timer[p]]
    /\ slack' = [p \in Peers |-> IF loop[p] # "wait" /\ slack[p] > 0 THEN slack[p] - 1 ELSE slack[p]]
    /\ late' = [p \in Peers |-> late[p] \/ (loop[p] # "wait" /\ slack[p] = 0)]
    /\ ok' = [p \in Peers |-> ok[p] /\ ~late'[p]]
    /\ rem' = [p \in Peers |-> Less1(rem[p])]
    /\ life' = [p \in Peers |-> Less1(life[p])]
    /\ UNCHANGED <<vars, loop, sent, calm>>

(* Good times begin, once this peer leads, the daemons answer and no round *)
(* is in trouble.                                                          *)
Calm ==
    /\ ~calm
    /\ \A p \in Peers : loop[p] # "get other" /\ (loop[p] # "wait" => slack[p] > 0)
    /\ calm' = TRUE
    /\ UNCHANGED <<vars, phase, loop, timer, slack, sent, rem, life, late, ok>>

(* Cluster.allocate asks for the metrics.                                  *)
Query == LastMetrics(MetricName, Discarded) /\ UNCHANGED pushVars

-----------------------------------------------------------------------------
PushInit ==
    /\ Init
    /\ phase \in 0 .. Res - 1
    /\ loop = [p \in Peers |-> "wait"]
    /\ timer = [p \in Peers |-> 0]
    /\ slack = [p \in Peers |-> Lat]
    /\ sent = [p \in Peers |-> [peer |-> p, valid |-> FALSE]]
    /\ rem = [p \in Peers |-> -1]
    /\ life = [p \in Peers |-> -1]
    /\ calm = FALSE
    /\ late = [p \in Peers |-> FALSE]
    /\ ok = [p \in Peers |-> FALSE]

LoopStep(p) == Fire(p) \/ GetMetric(p) \/ Push(p) \/ Reset(p)

PushNext ==
    \/ \E p \in Peers : LoopStep(p) \/ NoLeader(p) \/ PushLost(p)
    \/ Tick
    \/ Calm
    \/ Query

(* The loops run, and time passes.                                         *)
PushSpec ==
    /\ PushInit /\ [][PushNext]_allVars
    /\ \A p \in Peers : WF_allVars(LoopStep(p))
    /\ WF_allVars(Tick)

-----------------------------------------------------------------------------
(* Properties.                                                             *)

(* Every variable of the loops has its type.                               *)
PushTypeOK ==
    /\ phase \in 0 .. Res - 1
    /\ \A p \in Peers :
          /\ loop[p] \in {"wait", "get", "get other", "call", "called"}
          /\ timer[p] \in 0 .. MetricTTL * Res
          /\ slack[p] \in 0 .. Lat
          /\ sent[p] \in Metrics
          /\ {rem[p], life[p]} \subseteq -1 .. MetricTTL * Res
    /\ calm \in BOOLEAN

(* Once a valid metric of a peer has reached the leader, the leader never  *)
(* takes that peer for dead as long as nothing goes wrong: every metric is *)
(* replaced before it expires, although Expire is cut to whole seconds and *)
(* the delay is computed after the call.                                   *)
StaysFresh ==
    \A p \in Peers : ok[p] => latest(metrics[MetricName][p]) \notin Discarded

(* After any trouble the leader has a fresh metric of every peer again, if *)
(* good times come: no error, lost push, change of leader or late answer   *)
(* stops a loop or leaves it waiting for ever.                             *)
Recovers == \A p \in Peers : calm ~> ok[p]
=============================================================================
