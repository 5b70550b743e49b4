-------------------------- MODULE MetricPushProofs --------------------------
(***************************************************************************)
(* TLAPS proofs about the monitor and about the loops that feed it.        *)
(*                                                                         *)
(* PeerMonitor, for every window capacity: the queues keep their shape,    *)
(* and the monitor implements RecentMetrics.  MetricPush, for any peers    *)
(* and every TTL, resolution of the clock and latency that TimeAssumption  *)
(* allows: the loops keep their shape, the composition implements          *)
(* PeerMonitor alone, and a metric never expires before it is replaced.    *)
(***************************************************************************)
EXTENDS MetricPush, SequenceTheorems, TLAPS

-----------------------------------------------------------------------------
(* The monitor.                                                            *)

(* Remainder of a number below twice the divisor: the only remainders the  *)
(* circular queue takes.                                                   *)
LEMMA SmallMod ==
    ASSUME NEW n \in Nat, n > 0, NEW a \in Nat, a < 2 * n
    PROVE  a % n = IF a < n THEN a ELSE a - n
  BY Z3

(* Where add writes in a full window. *)
LEMMA NextSlot ==
    ASSUME NEW k \in 0 .. windowCap - 1
    PROVE  /\ nextSlot(k) = IF k + 1 < windowCap THEN k + 1 ELSE 0
           /\ nextSlot(k) \in 0 .. windowCap - 1
  <1>1. /\ k + 1 \in Nat /\ windowCap \in Nat /\ windowCap > 0
        /\ k + 1 < 2 * windowCap
    BY CapAssumption
  <1>2. (k + 1) % windowCap = IF k + 1 < windowCap THEN k + 1 ELSE (k + 1) - windowCap
    BY <1>1, SmallMod
  <1> QED
    BY <1>1, <1>2, CapAssumption DEF nextSlot

(* The slot that holds metric i, counted from the oldest, when the newest  *)
(* of len metrics is at index k: Unrolled without the remainder.           *)
SlotOf(k, len, i) == IF k + i < len THEN k + i + 1 ELSE (k + i + 1) - len
Slot(pm, i) == SlotOf(pm.last, Len(pm.window), i)

(* SlotOf is the slot that Unrolled reads, and it is one of the window. *)
LEMMA SlotInWindow ==
    ASSUME NEW len \in Nat, len > 0, NEW k \in 0 .. len - 1, NEW i \in 1 .. len
    PROVE  /\ 1 + ((k + i) % len) = SlotOf(k, len, i)
           /\ SlotOf(k, len, i) \in 1 .. len
  <1>1. k + i \in Nat /\ k + i < 2 * len
    OBVIOUS
  <1>2. PICK r \in Int : r = (k + i) % len
    BY <1>1
  <1>3. r = IF k + i < len THEN k + i ELSE (k + i) - len
    BY <1>1, <1>2, SmallMod
  <1>4. 1 + r = SlotOf(k, len, i) /\ SlotOf(k, len, i) \in 1 .. len
    BY <1>3 DEF SlotOf
  <1> QED
    BY <1>2, <1>4

(* When the newest metric moves on by one slot, around the end, every      *)
(* metric but the overwritten one gets one place older.                    *)
LEMMA SlotShift ==
    ASSUME NEW len \in Nat, len > 0, NEW k \in 0 .. len - 1,
           NEW i \in 1 .. len - 1,
           NEW j, j = IF k + 1 < len THEN k + 1 ELSE 0
    PROVE  /\ SlotOf(j, len, i) = SlotOf(k, len, i + 1)
           /\ SlotOf(j, len, i) # j + 1
           /\ SlotOf(j, len, i) \in 1 .. len
  <1>1. CASE k + 1 < len
    BY <1>1 DEF SlotOf
  <1>2. CASE k + 1 = len
    BY <1>2 DEF SlotOf
  <1> QED
    BY <1>1, <1>2

(* A queue read from the oldest to the newest metric is a sequence as long *)
(* as the window, and its last element is what latest returns.             *)
LEMMA UnrolledQueue ==
    ASSUME NEW pm, IsQueue(pm)
    PROVE  /\ Unrolled(pm) \in Seq(Metrics)
           /\ Len(Unrolled(pm)) = Len(pm.window)
           /\ \A i \in 1 .. Len(pm.window) : Unrolled(pm)[i] = pm.window[Slot(pm, i)]
           /\ Len(pm.window) # 0 => Unrolled(pm)[Len(pm.window)] = latest(pm)
  <1> DEFINE len == Len(pm.window)
  <1>1. /\ pm.window \in Seq(Metrics) /\ len \in Nat
        /\ pm.last \in Nat /\ (len # 0 => pm.last < len)
    BY CapAssumption DEF IsQueue
  <1>2. ASSUME NEW i \in 1 .. len
        PROVE  /\ 1 + ((pm.last + i) % len) = Slot(pm, i)
               /\ Slot(pm, i) \in 1 .. len
    <2>1. len \in Nat /\ len > 0 /\ pm.last \in 0 .. len - 1
      BY <1>1, <1>2
    <2>2. /\ 1 + ((pm.last + i) % len) = SlotOf(pm.last, len, i)
          /\ SlotOf(pm.last, len, i) \in 1 .. len
      BY ONLY <2>1, <1>2, SlotInWindow
    <2> QED
      BY <2>2 DEF Slot
  <1>3. Unrolled(pm) = [i \in 1 .. len |-> pm.window[Slot(pm, i)]]
    BY <1>2 DEF Unrolled
  <1>4. \A i \in 1 .. len : pm.window[Slot(pm, i)] \in Metrics
    BY <1>1, <1>2
  <1>5. Unrolled(pm) \in Seq(Metrics) /\ Len(Unrolled(pm)) = len
    BY <1>1, <1>3, <1>4
  <1>6. len # 0 => Slot(pm, len) = pm.last + 1
    BY <1>1 DEF Slot, SlotOf
  <1> QED
    BY <1>1, <1>3, <1>5, <1>6 DEF latest

(* add keeps a queue a queue, with room to spare and when it is full. *)
LEMMA AddQueue ==
    ASSUME NEW pm, IsQueue(pm), NEW m \in Metrics
    PROVE  IsQueue(add(pm, m))
  <1>1. /\ pm.window \in Seq(Metrics) /\ Len(pm.window) \in Nat
        /\ Len(pm.window) <= windowCap /\ pm.last \in 0 .. windowCap - 1
    BY DEF IsQueue
  <1>2. CASE Len(pm.window) < windowCap
    BY <1>1, <1>2, CapAssumption DEF IsQueue, add, lastOf
  <1>3. CASE Len(pm.window) = windowCap
    <2>1. nextSlot(pm.last) \in 0 .. windowCap - 1
      BY <1>1, NextSlot
    <2> DEFINE k == nextSlot(pm.last)
               w == [pm.window EXCEPT ![k + 1] = m]
    <2>2. add(pm, m) = [last |-> k, window |-> w]
      BY <1>1, <1>3, CapAssumption DEF add
    <2> HIDE DEF k
    <2>3. w \in Seq(Metrics) /\ Len(w) = windowCap
      <3>1. k + 1 \in 1 .. Len(pm.window)
        BY <1>1, <1>3, <2>1, CapAssumption DEF k
      <3> QED
        BY <1>1, <1>3, <3>1, ExceptSeq
    <2> HIDE DEF w
    <2> QED
      BY <1>1, <1>3, <2>1, <2>2, <2>3, CapAssumption DEF IsQueue, k
  <1> QED
    BY <1>1, <1>2, <1>3, CapAssumption

(* add on a queue is Remember on the sequence it stands for: the metric    *)
(* that is overwritten in a full window is the oldest.                     *)
LEMMA AddRemembers ==
    ASSUME NEW pm, IsQueue(pm), NEW m \in Metrics
    PROVE  Unrolled(add(pm, m)) = Recent!Remember(Unrolled(pm), m)
  <1> DEFINE new == add(pm, m)
             u == Unrolled(pm)
             len == Len(pm.window)
  <1>1. /\ pm.window \in Seq(Metrics) /\ len \in Nat
        /\ len <= windowCap /\ pm.last \in 0 .. windowCap - 1
        /\ (len # 0 => pm.last < len) /\ windowCap \in Nat \ {0}
    BY CapAssumption DEF IsQueue
  <1>2. /\ u \in Seq(Metrics) /\ Len(u) = len
        /\ \A i \in 1 .. len : u[i] = pm.window[Slot(pm, i)]
    BY UnrolledQueue
  <1>3. IsQueue(new)
    BY AddQueue
  <1>4. /\ Unrolled(new) \in Seq(Metrics)
        /\ Len(Unrolled(new)) = Len(new.window)
        /\ \A i \in 1 .. Len(new.window) : Unrolled(new)[i] = new.window[Slot(new, i)]
    BY <1>3, UnrolledQueue
  <1>5. CASE len < windowCap
    <2>1. /\ new.window = Append(pm.window, m) /\ new.last = len
          /\ Len(new.window) = len + 1
      BY <1>1, <1>5 DEF add, lastOf
    <2>2. len # 0 => pm.last = len - 1
      BY <1>1, <1>5 DEF IsQueue
    <2>3. Recent!Remember(u, m) = Append(u, m)
      BY <1>2, <1>5 DEF Recent!Remember
    <2>4. ASSUME NEW i \in 1 .. len + 1
          PROVE  Unrolled(new)[i] = Append(u, m)[i]
      <3>1. Slot(new, i) = i
        BY <1>1, <2>1 DEF Slot, SlotOf
      <3>2. Unrolled(new)[i] = Append(pm.window, m)[i]
        BY <1>4, <2>1, <3>1
      <3>3. CASE i = len + 1
        BY <1>1, <1>2, <3>2, <3>3
      <3>4. CASE i \in 1 .. len
        <4>1. Slot(pm, i) = i
          BY <1>1, <2>2, <3>4 DEF Slot, SlotOf
        <4> QED
          BY <1>1, <1>2, <3>2, <3>4, <4>1
      <3>5. i = len + 1 \/ i \in 1 .. len
        BY <1>1
      <3> QED
        BY <3>3, <3>4, <3>5
    <2>5. Append(u, m) \in Seq(Metrics) /\ Len(Append(u, m)) = len + 1
      BY <1>2
    <2> QED
      BY <1>1, <1>4, <2>1, <2>3, <2>4, <2>5
  <1>6. CASE len = windowCap
    <2>1. nextSlot(pm.last) = IF pm.last + 1 < windowCap THEN pm.last + 1 ELSE 0
      BY <1>1, NextSlot
    <2>2. /\ new.last = nextSlot(pm.last)
          /\ new.window = [pm.window EXCEPT ![nextSlot(pm.last) + 1] = m]
          /\ Len(new.window) = len
      BY <1>1, <1>6, <2>1 DEF add
    <2>3. Recent!Remember(u, m) = Append(Tail(u), m)
      BY <1>2, <1>6 DEF Recent!Remember
    <2>4. /\ Append(Tail(u), m) \in Seq(Metrics)
          /\ Len(Append(Tail(u), m)) = len
      BY <1>1, <1>2, <1>6
    <2>5. ASSUME NEW i \in 1 .. len
          PROVE  Unrolled(new)[i] = Append(Tail(u), m)[i]
      <3>1. CASE i = len
        <4>1. Slot(new, i) = new.last + 1
          BY <1>1, <1>6, <2>1, <2>2, <3>1 DEF Slot, SlotOf
        <4>2. Unrolled(new)[i] = m
          BY <1>1, <1>4, <1>6, <2>1, <2>2, <4>1
        <4> QED
          BY <1>1, <1>2, <1>6, <3>1, <4>2
      <3>2. CASE i < len
        <4>1. /\ Slot(new, i) = Slot(pm, i + 1)
              /\ Slot(new, i) # new.last + 1
              /\ Slot(new, i) \in 1 .. len
          <5>1. /\ len \in Nat /\ len > 0 /\ pm.last \in 0 .. len - 1
                /\ i \in 1 .. len - 1
                /\ new.last = IF pm.last + 1 < len THEN pm.last + 1 ELSE 0
            BY <1>1, <1>6, <2>1, <2>2, <3>2
          <5>2. /\ SlotOf(new.last, len, i) = SlotOf(pm.last, len, i + 1)
                /\ SlotOf(new.last, len, i) # new.last + 1
                /\ SlotOf(new.last, len, i) \in 1 .. len
            BY ONLY <5>1, SlotShift
          <5> QED
            BY <2>2, <5>2 DEF Slot
        <4>2. Unrolled(new)[i] = pm.window[Slot(pm, i + 1)]
          BY <1>1, <1>4, <2>1, <2>2, <4>1
        <4>3. Append(Tail(u), m)[i] = u[i + 1]
          BY <1>1, <1>2, <3>2
        <4> QED
          BY <1>1, <1>2, <3>2, <4>2, <4>3
      <3>3. i = len \/ i < len
        BY <1>1
      <3> QED
        BY <3>1, <3>2, <3>3
    <2> QED
      BY <1>1, <1>4, <2>2, <2>3, <2>4, <2>5
  <1> QED
    BY <1>1, <1>5, <1>6

-----------------------------------------------------------------------------
(* The queues keep their shape.                                            *)

(* A step of the monitor keeps TypeOK. *)
LEMMA TypeStep == TypeOK /\ [Next]_vars => TypeOK'
  <1> SUFFICES ASSUME TypeOK, [Next]_vars PROVE TypeOK'
    OBVIOUS
  <1>1. ASSUME NEW n \in Names, NEW p \in Peers, NEW m \in Metrics,
               LogMetric(n, p, m)
        PROVE  TypeOK'
    <2>1. IsQueue(add(metrics[n][p], m))
      BY AddQueue DEF TypeOK
    <2>2. metrics' = [metrics EXCEPT ![n] = [metrics[n] EXCEPT ![p] = add(metrics[n][p], m)]]
      BY <1>1 DEF LogMetric
    <2> DEFINE q == add(metrics[n][p], m)
    <2> HIDE DEF q
    <2>3. metrics' = [a \in Names |-> [b \in Peers |->
                        IF a = n /\ b = p THEN q ELSE metrics[a][b]]]
      BY <2>2 DEF TypeOK, q
    <2>4. ASSUME NEW a \in Names, NEW b \in Peers
          PROVE  IsQueue(metrics[a][b])'
      <3>1. metrics'[a][b] = IF a = n /\ b = p THEN q ELSE metrics[a][b]
        BY <2>3
      <3>2. IsQueue(metrics'[a][b])
        BY <2>1, <3>1 DEF TypeOK, q
      <3> QED
        BY <3>2 DEF IsQueue
    <2>5. metrics' = [a \in Names |-> [b \in Peers |-> metrics'[a][b]]]
      BY <2>3
    <2> QED
      BY <1>1, <2>4, <2>5 DEF TypeOK, LogMetric
  <1>2. ASSUME NEW n \in Names, NEW D \in SUBSET Metrics, LastMetrics(n, D)
        PROVE  TypeOK'
    <2> DEFINE P == {q \in Peers : /\ Len(metrics[n][q].window) # 0
                                   /\ latest(metrics[n][q]) \notin D}
    <2>1. ASSUME NEW q \in P
          PROVE  latest(metrics[n][q]) \in Metrics
      <3>1. IsQueue(metrics[n][q]) /\ Len(metrics[n][q].window) # 0
        BY DEF TypeOK
      <3>2. ASSUME NEW pm, IsQueue(pm), Len(pm.window) # 0
            PROVE  latest(pm) \in Metrics
        <4>1. pm.window \in Seq(Metrics) /\ pm.last + 1 \in 1 .. Len(pm.window)
          BY <3>2, CapAssumption DEF IsQueue
        <4> QED
          BY <4>1 DEF latest
      <3> QED
        BY <3>1, <3>2
    <2>2. answer' = [q \in P |-> latest(metrics[n][q])]
      BY <1>2 DEF LastMetrics
    <2>3. answer' \in [P -> Metrics] /\ P \in SUBSET Peers
      BY <2>1, <2>2
    <2> QED
      BY <1>2, <2>3 DEF TypeOK, LastMetrics, IsQueue
  <1>3. CASE UNCHANGED vars
    BY <1>3 DEF TypeOK, vars, IsQueue
  <1> QED
    BY <1>1, <1>2, <1>3 DEF Next

(* For every window capacity, the queues of peer_monitor.go never outgrow  *)
(* it and last always points at a metric of a queue that has one.          *)
THEOREM TypeCorrect == Spec => []TypeOK
  <1>1. Init => TypeOK
    <2> SUFFICES ASSUME Init PROVE TypeOK
      OBVIOUS
    <2>1. IsQueue(newPeerMetrics)
      BY CapAssumption DEF IsQueue, newPeerMetrics
    <2>2. \A n \in Names, p \in Peers : metrics[n][p] = newPeerMetrics
      BY DEF Init
    <2>3. answer \in [{} -> Metrics]
      BY DEF Init
    <2>4. metrics = [n \in Names |-> [p \in Peers |-> metrics[n][p]]]
      BY DEF Init
    <2> QED
      BY <2>1, <2>2, <2>3, <2>4 DEF TypeOK
  <1> QED
    BY <1>1, TypeStep, PTL DEF Spec

-----------------------------------------------------------------------------
(* Refinement.                                                             *)

(* A step of the monitor is a step of RecentMetrics. *)
LEMMA RefinedStep == TypeOK /\ [Next]_vars => [Recent!Next]_(Recent!rvars)
  <1> SUFFICES ASSUME TypeOK, [Next]_vars PROVE [Recent!Next]_(Recent!rvars)
    OBVIOUS
  <1> DEFINE rec == [a \in Names |-> [b \in Peers |-> Unrolled(metrics[a][b])]]
  <1>1. ASSUME NEW n \in Names, NEW p \in Peers, NEW m \in Metrics,
               LogMetric(n, p, m)
        PROVE  Recent!Log(n, p, m)
    <2> DEFINE q == add(metrics[n][p], m)
    <2>1. Unrolled(q) = Recent!Remember(Unrolled(metrics[n][p]), m)
      BY AddRemembers DEF TypeOK
    <2>2. metrics' = [metrics EXCEPT ![n] = [metrics[n] EXCEPT ![p] = q]]
      BY <1>1 DEF LogMetric
    <2> HIDE DEF q
    <2>3. ASSUME NEW a \in Names, NEW b \in Peers
          PROVE  metrics'[a][b] = IF a = n /\ b = p THEN q ELSE metrics[a][b]
      BY <2>2 DEF TypeOK
    <2>4. ASSUME NEW a \in Names, NEW b \in Peers
          PROVE  Unrolled(metrics[a][b])' =
                     IF a = n /\ b = p THEN Unrolled(q) ELSE Unrolled(metrics[a][b])
      BY <2>3 DEF Unrolled
    <2>5. rec' = [rec EXCEPT ![n] = [rec[n] EXCEPT ![p] = Unrolled(q)]]
      <3>1. rec' = [a \in Names |-> [b \in Peers |->
                       IF a = n /\ b = p THEN Unrolled(q) ELSE Unrolled(metrics[a][b])]]
        BY <2>4
      <3> QED
        BY <3>1
    <2>6. rec' = [rec EXCEPT ![n] = [rec[n] EXCEPT ![p] = Recent!Remember(rec[n][p], m)]]
      BY <2>1, <2>5
    <2> QED
      BY <1>1, <2>6 DEF LogMetric, Recent!Log
  <1>2. ASSUME NEW n \in Names, NEW D \in SUBSET Metrics, LastMetrics(n, D)
        PROVE  Recent!Query(n, D)
    <2>1. ASSUME NEW q \in Peers
          PROVE  /\ Len(metrics[n][q].window) # 0 <=> rec[n][q] # << >>
                 /\ Len(metrics[n][q].window) # 0 =>
                       latest(metrics[n][q]) = Recent!Newest(rec[n][q])
      <3>1. IsQueue(metrics[n][q]) /\ rec[n][q] = Unrolled(metrics[n][q])
        BY DEF TypeOK
      <3>2. /\ Unrolled(metrics[n][q]) \in Seq(Metrics)
            /\ Len(Unrolled(metrics[n][q])) = Len(metrics[n][q].window)
            /\ Len(metrics[n][q].window) # 0 =>
                  Unrolled(metrics[n][q])[Len(metrics[n][q].window)] = latest(metrics[n][q])
        BY <3>1, UnrolledQueue
      <3> QED
        BY <3>1, <3>2 DEF Recent!Newest
    <2>2. answer' = [q \in {q \in Peers : /\ rec[n][q] # << >>
                                          /\ Recent!Newest(rec[n][q]) \notin D}
                        |-> Recent!Newest(rec[n][q])]
      BY <1>2, <2>1 DEF LastMetrics
    <2>3. rec' = rec
      BY <1>2 DEF LastMetrics, Unrolled
    <2> QED
      BY <2>2, <2>3 DEF Recent!Query
  <1>3. CASE UNCHANGED vars
    BY <1>3 DEF vars, Recent!rvars, Unrolled
  <1> QED
    BY <1>1, <1>2, <1>3 DEF Next, Recent!Next

(* For every window capacity, set of peers and set of metrics, the         *)
(* circular queues of peer_monitor.go remember the last windowCap metrics  *)
(* in order and LastMetrics answers with the newest: PeerMonitor           *)
(* implements RecentMetrics.                                               *)
THEOREM ImplementsRecent == Spec => RemembersRecent
  <1>1. Init => Recent!Init
    BY DEF Init, Recent!Init, newPeerMetrics, Unrolled
  <1> QED
    BY <1>1, TypeCorrect, RefinedStep, PTL DEF Spec, RemembersRecent, Recent!Spec

-----------------------------------------------------------------------------
(* The shape of the loops' variables.                                      *)

(* The longest life of a metric, and the shortest one less a tick. *)
Longest == MetricTTL * Res
Shortest == (MetricTTL - 1) * Res

PushShape ==
    /\ phase \in 0 .. Res - 1
    /\ loop \in [Peers -> {"wait", "get", "get other", "call", "called"}]
    /\ timer \in [Peers -> 0 .. Longest]
    /\ slack \in [Peers -> 0 .. Lat]
    /\ sent \in [Peers -> Metrics]
    /\ \A p \in Peers : sent[p].peer = p
    /\ rem \in [Peers -> -1 .. Longest]
    /\ life \in [Peers -> -1 .. Longest]
    /\ calm \in BOOLEAN
    /\ late \in [Peers -> BOOLEAN]
    /\ ok \in [Peers -> BOOLEAN]

(* The products of constants, once and for all. *)
LEMMA Times ==
    /\ Longest \in Nat /\ Shortest \in Nat /\ Longest = Shortest + Res
    /\ Res \in Nat /\ Res > 0 /\ Lat \in Nat /\ 5 * Lat <= Shortest
  <1>1. MetricTTL \in Nat /\ MetricTTL - 1 \in Nat /\ Res \in Nat /\ Res > 0 /\ Lat \in Nat
    BY TimeAssumption
  <1>2. (MetricTTL - 1) * Res = MetricTTL * Res - Res
    BY <1>1
  <1>3. (MetricTTL - 1) * Res \in Nat /\ MetricTTL * Res \in Nat
    BY <1>1
  <1> QED
    BY <1>1, <1>2, <1>3, TimeAssumption DEF Longest, Shortest

(* Half of what is left is a delay, and a tick takes one from what is      *)
(* left, at most.                                                          *)
LEMMA Spans ==
    ASSUME NEW t \in -1 .. Longest
    PROVE  /\ Delay(t) \in 0 .. Longest /\ (t >= 0 => 2 * Delay(t) <= t)
           /\ Less1(t) \in -1 .. Longest /\ Less1(t) >= t - 1
  BY Times DEF Delay, Less1

(* A metric made now lives longer than Shortest. *)
LEMMA MadeNow ==
    ASSUME phase \in 0 .. Res - 1
    PROVE  SetTTL \in 0 .. Longest /\ SetTTL >= Shortest + 1
  BY Times DEF SetTTL, Longest

(* A function changed at one point keeps its range. *)
LEMMA ExceptIn ==
    ASSUME NEW S, NEW T, NEW f \in [S -> T], NEW x \in S, NEW v \in T
    PROVE  [f EXCEPT ![x] = v] \in [S -> T]
  OBVIOUS

(* Every step of the loops, and time, keeps the shape. *)
LEMMA ShapeStep == PushShape /\ [PushNext]_allVars => PushShape'
  <1> SUFFICES ASSUME PushShape, [PushNext]_allVars PROVE PushShape'
    OBVIOUS
  <1> DEFINE LoopOK == loop \in [Peers -> {"wait", "get", "get other", "call", "called"}]
             TimerOK == timer \in [Peers -> 0 .. Longest]
             SlackOK == slack \in [Peers -> 0 .. Lat]
             PeerOK == sent \in [Peers -> Metrics] /\ \A p \in Peers : sent[p].peer = p
             RemOK == rem \in [Peers -> -1 .. Longest]
             LifeOK == life \in [Peers -> -1 .. Longest]
             LateOK == late \in [Peers -> BOOLEAN]
             OkOK == ok \in [Peers -> BOOLEAN]
  <1>n. LoopOK /\ RemOK
    BY DEF PushShape
  <1>p. phase \in 0 .. Res - 1
    BY DEF PushShape
  <1>q. \A p \in Peers : timer[p] \in 0 .. Longest /\ slack[p] \in 0 .. Lat
    BY DEF PushShape
  <1>a. /\ LoopOK /\ TimerOK /\ SlackOK /\ RemOK /\ LifeOK
        /\ phase \in 0 .. Res - 1
        /\ PeerOK /\ LateOK /\ OkOK /\ calm \in BOOLEAN
    BY DEF PushShape
  <1>b. /\ LoopOK' /\ TimerOK' /\ SlackOK' /\ PeerOK' /\ RemOK' /\ LifeOK' /\ LateOK' /\ OkOK'
        /\ phase' \in 0 .. Res - 1 /\ calm' \in BOOLEAN
        => PushShape'
    BY DEF PushShape
  <1>c. Lat \in 0 .. Lat /\ Res \in 0 .. Longest
    BY Times
  <1>1. ASSUME NEW p \in Peers, Fire(p) PROVE PushShape'
    <2>1. LoopOK'
      <3>1. \E next \in {"get", "get other"} : loop' = [loop EXCEPT ![p] = next]
        BY <1>1 DEF Fire, FireTo
      <3> QED
        BY <1>n, <3>1
    <2>2. SlackOK'
      BY <1>1, <1>a, <1>c, ExceptIn DEF Fire, FireTo
    <2>3. LateOK' /\ OkOK'
      BY <1>1, <1>a, ExceptIn DEF Fire, FireTo
    <2>4. UNCHANGED <<phase, timer, sent, rem, life, calm>>
      BY <1>1 DEF Fire, FireTo
    <2> QED
      BY <1>a, <1>b, <2>1, <2>2, <2>3, <2>4
  <1>2. ASSUME NEW p \in Peers, GetMetric(p) PROVE PushShape'
    <2>4. RemOK'
      <3>1. SetTTL \in -1 .. Longest
        BY <1>p, Times, MadeNow
      <3> QED
        BY <1>2, <1>n, <3>1, ExceptIn DEF GetMetric
    <2>1. PICK valid \in BOOLEAN :
             sent' = [sent EXCEPT ![p] = [peer |-> p, valid |-> valid]]
      BY <1>2 DEF GetMetric
    <2>2. [peer |-> p, valid |-> valid] \in Metrics
      BY MetricAssumption
    <2>3. PeerOK'
      BY <1>a, <2>1, <2>2
    <2>5. SlackOK'
      BY <1>2, <1>a, <1>c, ExceptIn DEF GetMetric
    <2>6. LoopOK'
      BY <1>2, <1>a DEF GetMetric
    <2>7. UNCHANGED <<phase, timer, life, calm, late, ok>>
      BY <1>2 DEF GetMetric
    <2> QED
      BY <1>a, <1>b, <2>3, <2>4, <2>5, <2>6, <2>7
  <1>3. ASSUME NEW p \in Peers, Push(p) PROVE PushShape'
    <2>1. (sent[p].valid /\ ~late[p]) \in BOOLEAN
      OBVIOUS
    <2>2. OkOK'
      BY <1>3, <1>a, <2>1, ExceptIn DEF Push
    <2>3. LoopOK' /\ LifeOK'
      BY <1>3, <1>a DEF Push
    <2>4. UNCHANGED <<phase, timer, slack, sent, rem, calm, late>>
      BY <1>3 DEF Push
    <2> QED
      BY <1>a, <1>b, <2>2, <2>3, <2>4
  <1>4. ASSUME NEW p \in Peers, Reset(p) PROVE PushShape'
    <2>1. Delay(rem[p]) \in 0 .. Longest
      BY <1>a, Spans
    <2>2. LoopOK' /\ TimerOK'
      BY <1>4, <1>a, <2>1 DEF Reset
    <2>3. UNCHANGED <<phase, slack, sent, rem, life, calm, late, ok>>
      BY <1>4 DEF Reset
    <2> QED
      BY <1>a, <1>b, <2>2, <2>3
  <1>5. ASSUME NEW p \in Peers, NoLeader(p) PROVE PushShape'
    <2>1. TimerOK'
      BY <1>5, <1>a, <1>c, ExceptIn DEF NoLeader
    <2>2. OkOK'
      BY <1>5, <1>a, ExceptIn DEF NoLeader
    <2>3. UNCHANGED <<phase, loop, slack, sent, rem, life, calm, late>>
      BY <1>5 DEF NoLeader
    <2> QED
      BY <1>a, <1>b, <2>1, <2>2, <2>3
  <1>6. ASSUME NEW p \in Peers, PushLost(p) PROVE PushShape'
    <2>1. LoopOK'
      BY <1>6, <1>a DEF PushLost
    <2>2. OkOK'
      BY <1>6, <1>a, ExceptIn DEF PushLost
    <2>3. UNCHANGED <<phase, timer, slack, sent, rem, life, calm, late>>
      BY <1>6 DEF PushLost
    <2> QED
      BY <1>a, <1>b, <2>1, <2>2, <2>3
  <1>7. ASSUME Tick PROVE PushShape'
    <2>1. phase' \in 0 .. Res - 1
      <3>1. phase' = (phase + 1) % Res
        BY <1>7 DEF Tick
      <3>2. phase + 1 \in Nat /\ phase + 1 < 2 * Res
        BY <1>p, Times
      <3> QED
        BY <3>1, <3>2, Times, SmallMod
    <2>2. TimerOK'
      <3>1. \A p \in Peers : loop[p] = "wait" => timer[p] > 0
        BY <1>7 DEF Tick
      <3>2. \A p \in Peers :
               (IF loop[p] = "wait" THEN timer[p] - 1 ELSE timer[p]) \in 0 .. Longest
        BY <1>q, <3>1, Times
      <3> QED
        BY <1>7, <3>2 DEF Tick
    <2>3. SlackOK'
      <3>1. \A p \in Peers :
               (IF loop[p] # "wait" /\ slack[p] > 0 THEN slack[p] - 1 ELSE slack[p]) \in 0 .. Lat
        BY <1>q, Times
      <3> QED
        BY <1>7, <3>1 DEF Tick
    <2>4. RemOK' /\ LifeOK'
      BY <1>7, <1>a, Spans DEF Tick
    <2>5. LateOK' /\ OkOK'
      BY <1>7 DEF Tick
    <2>6. UNCHANGED <<loop, sent, calm>>
      BY <1>7 DEF Tick
    <2> QED
      BY <1>a, <1>b, <2>1, <2>2, <2>3, <2>4, <2>5, <2>6
  <1>8. ASSUME Calm PROVE PushShape'
    <2>1. UNCHANGED <<phase, loop, timer, slack, sent, rem, life, late, ok>> /\ calm' = TRUE
      BY <1>8 DEF Calm
    <2> QED
      BY <1>a, <1>b, <2>1
  <1>9. Query \/ UNCHANGED allVars => PushShape'
    BY DEF PushShape, Query, allVars, pushVars
  <1> QED
    BY <1>1, <1>2, <1>3, <1>4, <1>5, <1>6, <1>7, <1>8, <1>9 DEF PushNext, LoopStep

(* The shape at the start. *)
LEMMA ShapeInit == PushInit => PushShape
  <1> SUFFICES ASSUME PushInit PROVE PushShape
    OBVIOUS
  <1>1. \A p \in Peers : [peer |-> p, valid |-> FALSE] \in Metrics
    BY MetricAssumption
  <1>2. Lat \in 0 .. Lat /\ 0 \in 0 .. Longest /\ -1 \in -1 .. Longest
    BY Times
  <1>3. phase \in 0 .. Res - 1 /\ calm \in BOOLEAN
    BY DEF PushInit
  <1>4. /\ loop \in [Peers -> {"wait", "get", "get other", "call", "called"}]
        /\ late \in [Peers -> BOOLEAN] /\ ok \in [Peers -> BOOLEAN]
    BY DEF PushInit
  <1>5. /\ timer \in [Peers -> 0 .. Longest] /\ slack \in [Peers -> 0 .. Lat]
        /\ rem \in [Peers -> -1 .. Longest] /\ life \in [Peers -> -1 .. Longest]
    BY <1>2 DEF PushInit
  <1>6. sent \in [Peers -> Metrics] /\ \A p \in Peers : sent[p].peer = p
    BY <1>1 DEF PushInit
  <1> QED
    BY <1>3, <1>4, <1>5, <1>6 DEF PushShape

(* Every timer, delay and remaining life stays within the TTL, for every   *)
(* TTL, resolution and latency: SetTTL and GetTTL() / 2 never leave it.    *)
THEOREM LoopsTypeCorrect == PushSpec => []PushTypeOK
  <1>1. PushShape => PushTypeOK
    <2> SUFFICES ASSUME PushShape, NEW p \in Peers
                 PROVE  /\ phase \in 0 .. Res - 1 /\ calm \in BOOLEAN
                        /\ loop[p] \in {"wait", "get", "get other", "call", "called"}
                        /\ timer[p] \in 0 .. Longest /\ slack[p] \in 0 .. Lat
                        /\ sent[p] \in Metrics
                        /\ rem[p] \in -1 .. Longest /\ life[p] \in -1 .. Longest
      BY DEF PushTypeOK, Longest, PushShape
    <2> QED
      BY DEF PushShape
  <1> QED
    BY <1>1, ShapeInit, ShapeStep, PTL DEF PushSpec

-----------------------------------------------------------------------------
(* The monitor under the loops.                                            *)

(* Push is a LogMetric, Query a LastMetrics, and every other step leaves   *)
(* the monitor alone.                                                      *)
LEMMA MonitorStep == PushShape /\ [PushNext]_allVars => [Next]_vars
  <1> SUFFICES ASSUME PushShape, [PushNext]_allVars PROVE [Next]_vars
    OBVIOUS
  <1>1. ASSUME NEW p \in Peers, Push(p) PROVE Next
    <2>1. sent[p] \in Metrics
      BY DEF PushShape
    <2>2. LogMetric(MetricName, p, sent[p])
      BY <1>1 DEF Push
    <2> QED
      BY <2>1, <2>2, NameAssumption DEF Next
  <1>2. ASSUME Query PROVE Next
    <2>1. Discarded \in SUBSET Metrics
      BY DEF Discarded
    <2>2. LastMetrics(MetricName, Discarded)
      BY <1>2 DEF Query
    <2> QED
      BY <2>1, <2>2, NameAssumption DEF Next
  <1>3. ASSUME NEW p \in Peers,
               Fire(p) \/ GetMetric(p) \/ Reset(p) \/ NoLeader(p) \/ PushLost(p)
        PROVE  UNCHANGED vars
    BY <1>3 DEF Fire, FireTo, GetMetric, Reset, NoLeader, PushLost
  <1>4. Tick \/ Calm \/ UNCHANGED allVars => UNCHANGED vars
    BY DEF Tick, Calm, allVars
  <1> QED
    BY <1>1, <1>2, <1>3, <1>4 DEF PushNext, LoopStep

(* The composition of the push loops of all peers with the leader's        *)
(* monitor is a behaviour of the monitor: pushInformerMetrics logs only    *)
(* whole metrics of its informer, one call at a time.                      *)
THEOREM PushImplementsMonitor == PushSpec => Spec
  <1>1. PushInit => Init
    BY DEF PushInit
  <1> QED
    BY <1>1, ShapeInit, ShapeStep, MonitorStep, PTL DEF PushSpec, Spec

(* So with the loops running, for every TTL, latency and window, the       *)
(* queues keep their shape.                                                *)
THEOREM PushTypeCorrect == PushSpec => []TypeOK
  BY PushImplementsMonitor, TypeCorrect, PTL

(* And LastMetrics answers the allocator with the newest of the last       *)
(* windowCap metrics that the loops pushed.                                *)
THEOREM PushRemembersRecent == PushSpec => RemembersRecent
  BY PushImplementsMonitor, ImplementsRecent, PTL

-----------------------------------------------------------------------------
(* Freshness.                                                              *)

(* What an answered add is read back as. *)
LEMMA LatestAdded ==
    ASSUME NEW pm, IsQueue(pm), NEW m \in Metrics
    PROVE  latest(add(pm, m)) = m
  <1>1. /\ pm.window \in Seq(Metrics) /\ Len(pm.window) \in Nat
        /\ Len(pm.window) <= windowCap /\ pm.last \in 0 .. windowCap - 1
    BY DEF IsQueue
  <1>2. CASE Len(pm.window) < windowCap
    BY <1>1, <1>2, CapAssumption DEF add, lastOf, latest
  <1>3. CASE Len(pm.window) = windowCap
    <2>1. nextSlot(pm.last) + 1 \in 1 .. Len(pm.window)
      BY <1>1, <1>3, NextSlot, CapAssumption
    <2>2. add(pm, m) = [last |-> nextSlot(pm.last),
                        window |-> [pm.window EXCEPT ![nextSlot(pm.last) + 1] = m]]
      BY <1>1, <1>3, CapAssumption DEF add
    <2> QED
      BY <1>1, <2>1, <2>2 DEF latest
  <1> QED
    BY <1>1, <1>2, <1>3, CapAssumption

(* A metric that reaches the monitor in time has at least this long to     *)
(* live when its call returns.                                             *)
Left(p) == Shortest + 1 - (Lat - slack[p])

(* How long the newest metric of p lives at least, by the place of its     *)
(* loop: half of what was left is not waited for, and the two answers of   *)
(* the next round take Lat ticks each.                                     *)
LastsUntilReplaced(p) ==
    /\ loop[p] = "wait" => 2 * (life[p] - timer[p]) >= Shortest + 1 - Lat
    /\ loop[p] = "get" => 2 * (life[p] + Lat - slack[p]) >= Shortest + 1 - Lat
    /\ loop[p] = "call" => 2 * (life[p] + 2 * Lat - slack[p]) >= Shortest + 1 - Lat
    /\ loop[p] = "called" => life[p] = rem[p] /\ rem[p] >= Left(p)
    /\ loop[p] # "get other"

NewestIsValid(p) == latest(metrics[MetricName][p]) = [peer |-> p, valid |-> TRUE]

InTime(p) ==
    /\ loop[p] = "call" /\ ~late[p] => rem[p] >= Left(p)
    /\ ok[p] => NewestIsValid(p)
    /\ ok[p] => LastsUntilReplaced(p)

(* The bounds leave something to live everywhere. *)
LEMMA LastsIsFresh ==
    ASSUME PushShape, NEW p \in Peers, LastsUntilReplaced(p)
    PROVE  life[p] >= 0
  <1>1. /\ timer[p] \in 0 .. Longest /\ slack[p] \in 0 .. Lat
        /\ rem[p] \in -1 .. Longest /\ life[p] \in -1 .. Longest
    BY DEF PushShape
  <1>2. loop[p] \in {"wait", "get", "get other", "call", "called"}
    BY DEF PushShape
  <1>3. CASE loop[p] = "wait"
    BY <1>1, <1>3, Times DEF LastsUntilReplaced
  <1>4. CASE loop[p] = "get"
    BY <1>1, <1>4, Times DEF LastsUntilReplaced
  <1>5. CASE loop[p] = "call"
    BY <1>1, <1>5, Times DEF LastsUntilReplaced
  <1>6. CASE loop[p] = "called"
    BY <1>1, <1>6, Times DEF LastsUntilReplaced, Left
  <1> QED
    BY <1>2, <1>3, <1>4, <1>5, <1>6 DEF LastsUntilReplaced

(* A step that leaves p's loop and p's newest metric alone. *)
LEMMA InTimeKept ==
    ASSUME NEW p \in Peers, InTime(p),
           loop'[p] = loop[p], timer'[p] = timer[p], slack'[p] = slack[p],
           rem'[p] = rem[p], life'[p] = life[p],
           late'[p] = late[p], ok'[p] = ok[p],
           metrics'[MetricName][p] = metrics[MetricName][p]
    PROVE  InTime(p)'
  <1>1. LastsUntilReplaced(p) => LastsUntilReplaced(p)'
    BY DEF LastsUntilReplaced, Left
  <1>2. NewestIsValid(p) => NewestIsValid(p)'
    BY DEF NewestIsValid, latest
  <1>3. Left(p)' = Left(p)
    BY DEF Left
  <1> QED
    BY <1>1, <1>2, <1>3 DEF InTime

(* A step after which p is in trouble, and no call of p is on its way. *)
LEMMA InTimeTrouble ==
    ASSUME NEW p \in Peers, ~ok'[p], loop'[p] # "call"
    PROVE  InTime(p)'
  BY DEF InTime

(* The next round is due: what was waited is half of what was left. *)
LEMMA FireInTime ==
    ASSUME PushShape, NEW p \in Peers, InTime(p), Fire(p)
    PROVE  InTime(p)'
  <1>1. CASE ok'[p] = FALSE
    <2>1. loop'[p] # "call"
      <3>1. loop \in [Peers -> {"wait", "get", "get other", "call", "called"}]
        BY DEF PushShape
      <3> QED
        BY <3>1 DEF Fire, FireTo
    <2> QED
      BY <1>1, <2>1, InTimeTrouble
  <1>2. CASE FireTo(p, "get") /\ UNCHANGED ok
    <2>1. loop'[p] = "get" /\ loop[p] = "wait" /\ timer[p] = 0 /\ life' = life
      BY <1>2 DEF FireTo, PushShape
    <2>2. slack'[p] = Lat
      BY <1>2 DEF FireTo, PushShape
    <2>3. life[p] \in -1 .. Longest
      BY DEF PushShape
    <2>4. LastsUntilReplaced(p) => LastsUntilReplaced(p)'
      BY <2>1, <2>2, <2>3, Times DEF LastsUntilReplaced
    <2>5. metrics' = metrics
      BY <1>2 DEF FireTo, vars
    <2>6. NewestIsValid(p) => NewestIsValid(p)'
      BY <2>5 DEF NewestIsValid, latest
    <2> QED
      BY <1>2, <2>1, <2>4, <2>6 DEF InTime
  <1>3. ok \in [Peers -> BOOLEAN]
    BY DEF PushShape
  <1>4. ~calm /\ FireTo(p, "get other") /\ ok' = [ok EXCEPT ![p] = FALSE] => ok'[p] = FALSE
    BY <1>3
  <1> QED
    BY <1>1, <1>2, <1>4 DEF Fire

(* The informer answers: the metric is new, the old one still lives. *)
LEMMA GetMetricInTime ==
    ASSUME PushShape, NEW p \in Peers, InTime(p), GetMetric(p)
    PROVE  InTime(p)'
  <1>1. /\ slack'[p] = Lat /\ rem'[p] = SetTTL /\ life' = life
    BY DEF GetMetric, PushShape
  <1>2. /\ life[p] \in -1 .. Longest /\ slack[p] \in 0 .. Lat
        /\ phase \in 0 .. Res - 1
    BY DEF PushShape
  <1>3. rem'[p] >= Left(p)'
    BY <1>1, <1>2, MadeNow, Times DEF Left
  <1>4. /\ ok' = ok
        /\ metrics' = metrics
        /\ loop[p] = "get" \/ loop[p] = "get other"
        /\ loop[p] = "get" => loop'[p] = "call"
    BY DEF GetMetric, PushShape, vars
  <1>5. NewestIsValid(p) => NewestIsValid(p)'
    BY <1>4 DEF NewestIsValid, latest
  <1>6. LastsUntilReplaced(p) => LastsUntilReplaced(p)'
    <2> SUFFICES ASSUME LastsUntilReplaced(p) PROVE LastsUntilReplaced(p)'
      OBVIOUS
    <2>1. loop[p] = "get" /\ loop'[p] = "call"
      BY <1>4 DEF LastsUntilReplaced
    <2>2. 2 * (life[p] + Lat - slack[p]) >= Shortest + 1 - Lat
      BY <2>1 DEF LastsUntilReplaced
    <2>3. 2 * (life'[p] + 2 * Lat - slack'[p]) >= Shortest + 1 - Lat
      BY <1>1, <1>2, <2>2, Times
    <2> QED
      BY <2>1, <2>3 DEF LastsUntilReplaced
  <1> QED
    BY <1>3, <1>4, <1>5, <1>6 DEF InTime

(* The metric replaces the old one, with all of its own life ahead. *)
LEMMA PushInTime ==
    ASSUME PushShape, TypeOK, NEW p \in Peers, InTime(p), Push(p)
    PROVE  InTime(p)'
  <1>1. loop[p] = "call" /\ loop'[p] = "called"
    BY DEF Push, PushShape
  <1>2. life'[p] = rem[p] /\ rem' = rem /\ slack' = slack
    BY DEF Push, PushShape
  <1>3. ok'[p] <=> sent[p].valid /\ ~late[p]
    BY DEF Push, PushShape
  <1> SUFFICES ASSUME ok'[p] PROVE NewestIsValid(p)' /\ LastsUntilReplaced(p)'
    BY <1>1 DEF InTime
  <1>4. LastsUntilReplaced(p)'
    <2>1. rem[p] >= Left(p)
      BY <1>1, <1>3 DEF InTime
    <2>2. Left(p)' = Left(p)
      BY <1>2 DEF Left
    <2> QED
      BY <1>1, <1>2, <2>1, <2>2 DEF LastsUntilReplaced
  <1>5. sent[p] = [peer |-> p, valid |-> TRUE]
    <2>1. sent[p] \in [peer : Peers, valid : BOOLEAN] /\ sent[p].peer = p
      BY MetricAssumption DEF PushShape
    <2> QED
      BY <1>3, <2>1
  <1>6. metrics'[MetricName][p] = add(metrics[MetricName][p], sent[p])
    <2>1. metrics' = [metrics EXCEPT ![MetricName][p] = add(@, sent[p])]
      BY DEF Push, LogMetric
    <2>2. metrics = [n \in Names |-> [b \in Peers |-> metrics[n][b]]]
      BY DEF TypeOK
    <2> QED
      BY <2>1, <2>2, NameAssumption
  <1>7. latest(metrics'[MetricName][p]) = sent[p]
    <2>1. IsQueue(metrics[MetricName][p]) /\ sent[p] \in Metrics
      BY NameAssumption DEF TypeOK, PushShape
    <2> QED
      BY <1>6, <2>1, LatestAdded
  <1> QED
    BY <1>4, <1>5, <1>7 DEF NewestIsValid, latest

(* The call returns: half of what is left remains after the delay. *)
LEMMA ResetInTime ==
    ASSUME PushShape, NEW p \in Peers, InTime(p), Reset(p)
    PROVE  InTime(p)'
  <1>1. loop[p] = "called" /\ loop'[p] = "wait"
    BY DEF Reset, PushShape
  <1>2. timer'[p] = Delay(rem[p]) /\ life' = life
    BY DEF Reset, PushShape
  <1>3. ok' = ok /\ metrics' = metrics
    BY DEF Reset, vars
  <1>4. /\ rem[p] \in -1 .. Longest /\ life[p] \in -1 .. Longest
        /\ slack[p] \in 0 .. Lat
    BY DEF PushShape
  <1>5. NewestIsValid(p) => NewestIsValid(p)'
    BY <1>3 DEF NewestIsValid, latest
  <1>6. LastsUntilReplaced(p) => LastsUntilReplaced(p)'
    <2> SUFFICES ASSUME LastsUntilReplaced(p) PROVE LastsUntilReplaced(p)'
      OBVIOUS
    <2>1. life[p] = rem[p] /\ rem[p] >= Shortest + 1 - (Lat - slack[p])
      BY <1>1 DEF LastsUntilReplaced, Left
    <2>2. rem[p] >= Shortest + 1 - Lat /\ rem[p] >= 0
      BY <1>4, <2>1, Times
    <2>3. Delay(rem[p]) \in 0 .. Longest /\ 2 * Delay(rem[p]) <= rem[p]
      BY <1>4, <2>2, Spans
    <2>4. 2 * (life[p] - Delay(rem[p])) >= Shortest + 1 - Lat
      BY <1>4, <2>1, <2>2, <2>3, Times
    <2> QED
      BY <1>1, <1>2, <2>4 DEF LastsUntilReplaced
  <1> QED
    BY <1>1, <1>3, <1>5, <1>6 DEF InTime

(* A tick takes one from the life and one from the timer or the slack; an  *)
(* answer without slack is late.                                           *)
LEMMA TickInTime ==
    ASSUME PushShape, NEW p \in Peers, InTime(p), Tick
    PROVE  InTime(p)'
  <1>1. /\ timer[p] \in 0 .. Longest /\ slack[p] \in 0 .. Lat
        /\ rem[p] \in -1 .. Longest /\ life[p] \in -1 .. Longest
    BY DEF PushShape
  <1>2. loop' = loop /\ metrics' = metrics
    BY DEF Tick, vars
  <1>3. /\ loop[p] = "wait" => timer'[p] = timer[p] - 1
        /\ rem'[p] = Less1(rem[p]) /\ life'[p] = Less1(life[p])
    BY DEF Tick
  <1>4. /\ Less1(rem[p]) \in -1 .. Longest /\ Less1(rem[p]) >= rem[p] - 1
        /\ Less1(life[p]) \in -1 .. Longest /\ Less1(life[p]) >= life[p] - 1
    BY <1>1, Spans
  <1>5. loop[p] # "wait" /\ ~late'[p] => slack[p] # 0
    BY DEF Tick
  <1>6. loop[p] # "wait" /\ slack[p] # 0 => slack'[p] = slack[p] - 1
    <2>1. slack'[p] = IF loop[p] # "wait" /\ slack[p] > 0 THEN slack[p] - 1 ELSE slack[p]
      BY DEF Tick
    <2>2. slack[p] # 0 => slack[p] > 0
      BY <1>1, Times
    <2> QED
      BY <2>1, <2>2
  <1>7. /\ ok'[p] => ok[p] /\ ~late'[p]
        /\ ~late'[p] => ~late[p]
    BY DEF Tick
  <1>8. ASSUME loop[p] = "call", ~late'[p] PROVE rem'[p] >= Left(p)'
    <2>1. slack'[p] = slack[p] - 1
      BY <1>5, <1>6, <1>8
    <2>2. rem[p] >= Shortest + 1 - (Lat - slack[p])
      BY <1>7, <1>8 DEF InTime, Left
    <2>3. Less1(rem[p]) >= Shortest + 1 - (Lat - (slack[p] - 1))
      BY <1>1, <1>4, <2>2, Times
    <2> QED
      BY <1>3, <2>1, <2>3 DEF Left
  <1>9. ASSUME ok'[p] PROVE LastsUntilReplaced(p)'
    <2>1. LastsUntilReplaced(p)
      BY <1>7, <1>9 DEF InTime
    <2>2. loop[p] # "wait" => slack'[p] = slack[p] - 1
      BY <1>5, <1>6, <1>7, <1>9
    <2>3. CASE loop[p] = "wait"
      <3>1. 2 * (Less1(life[p]) - (timer[p] - 1)) >= Shortest + 1 - Lat
        BY <1>1, <1>4, <2>1, <2>3, Times DEF LastsUntilReplaced
      <3> QED
        BY <1>2, <1>3, <2>3, <3>1 DEF LastsUntilReplaced
    <2>4. CASE loop[p] = "get"
      <3>1. 2 * (Less1(life[p]) + Lat - (slack[p] - 1)) >= Shortest + 1 - Lat
        BY <1>1, <1>4, <2>1, <2>4, Times DEF LastsUntilReplaced
      <3> QED
        BY <1>2, <1>3, <2>2, <2>4, <3>1 DEF LastsUntilReplaced
    <2>5. CASE loop[p] = "call"
      <3>1. 2 * (Less1(life[p]) + 2 * Lat - (slack[p] - 1)) >= Shortest + 1 - Lat
        BY <1>1, <1>4, <2>1, <2>5, Times DEF LastsUntilReplaced
      <3> QED
        BY <1>2, <1>3, <2>2, <2>5, <3>1 DEF LastsUntilReplaced
    <2>6. CASE loop[p] = "called"
      <3>1. life[p] = rem[p] /\ rem[p] >= Shortest + 1 - (Lat - slack[p])
        BY <2>1, <2>6 DEF LastsUntilReplaced, Left
      <3>2. Less1(rem[p]) >= Shortest + 1 - (Lat - (slack[p] - 1))
        BY <1>1, <1>4, <3>1, Times
      <3>3. life'[p] = rem'[p] /\ rem'[p] >= Left(p)'
        BY <1>3, <2>2, <2>6, <3>1, <3>2 DEF Left
      <3> QED
        BY <1>2, <2>6, <3>3 DEF LastsUntilReplaced
    <2>7. loop[p] \in {"wait", "get", "get other", "call", "called"}
      BY DEF PushShape
    <2> QED
      BY <2>1, <2>3, <2>4, <2>5, <2>6, <2>7 DEF LastsUntilReplaced
  <1>10. NewestIsValid(p) => NewestIsValid(p)'
    BY <1>2 DEF NewestIsValid, latest
  <1> QED
    BY <1>2, <1>7, <1>8, <1>9, <1>10 DEF InTime

(* A step of another peer's loop. *)
LEMMA OtherInTime ==
    ASSUME PushShape, TypeOK, NEW p \in Peers, InTime(p),
           NEW q \in Peers, q # p,
           LoopStep(q) \/ NoLeader(q) \/ PushLost(q)
    PROVE  InTime(p)'
  <1>1. metrics'[MetricName][p] = metrics[MetricName][p]
    <2>1. CASE Push(q)
      <3>1. metrics' = [metrics EXCEPT ![MetricName][q] = add(@, sent[q])]
        BY <2>1 DEF Push, LogMetric
      <3>2. metrics = [n \in Names |-> [b \in Peers |-> metrics[n][b]]]
        BY DEF TypeOK
      <3> QED
        BY <3>1, <3>2, NameAssumption
    <2>2. ~Push(q) => metrics' = metrics
      BY DEF LoopStep, Fire, FireTo, GetMetric, Reset, NoLeader, PushLost, vars
    <2> QED
      BY <2>1, <2>2
  <1>2. loop'[p] = loop[p]
    BY DEF PushShape, LoopStep, Fire, FireTo, GetMetric, Push, Reset, NoLeader, PushLost
  <1>3. timer'[p] = timer[p] /\ slack'[p] = slack[p]
    BY DEF PushShape, LoopStep, Fire, FireTo, GetMetric, Push, Reset, NoLeader, PushLost
  <1>4. rem'[p] = rem[p] /\ life'[p] = life[p]
    BY DEF PushShape, LoopStep, Fire, FireTo, GetMetric, Push, Reset, NoLeader, PushLost
  <1>5. late'[p] = late[p] /\ ok'[p] = ok[p]
    BY DEF PushShape, LoopStep, Fire, FireTo, GetMetric, Push, Reset, NoLeader, PushLost
  <1> QED
    BY <1>1, <1>2, <1>3, <1>4, <1>5, InTimeKept

AllInTime == \A p \in Peers : InTime(p)

(* No step leaves a metric less time than its replacement may take. *)
LEMMA InTimeStep ==
    PushShape /\ TypeOK /\ AllInTime /\ [PushNext]_allVars => AllInTime'
  <1> SUFFICES ASSUME PushShape, TypeOK, AllInTime, [PushNext]_allVars,
                      NEW p \in Peers
               PROVE  InTime(p)'
    BY DEF AllInTime
  <1>0. InTime(p)
    BY DEF AllInTime
  <1>1. ASSUME NEW q \in Peers, LoopStep(q) \/ NoLeader(q) \/ PushLost(q)
        PROVE  InTime(p)'
    <2>1. CASE q # p
      BY <1>0, <1>1, <2>1, OtherInTime
    <2>2. CASE q = p /\ LoopStep(p)
      BY <1>0, <2>2, FireInTime, GetMetricInTime, PushInTime, ResetInTime DEF LoopStep
    <2>3. CASE q = p /\ (NoLeader(p) \/ PushLost(p))
      <3>1. ~ok'[p]
        BY <2>3 DEF NoLeader, PushLost, PushShape
      <3>2. loop'[p] # "call"
        BY <2>3 DEF NoLeader, PushLost, PushShape
      <3> QED
        BY <3>1, <3>2, InTimeTrouble
    <2> QED
      BY <1>1, <2>1, <2>2, <2>3
  <1>2. CASE Tick
    BY <1>0, <1>2, TickInTime
  <1>3. CASE Calm \/ Query \/ UNCHANGED allVars
    <2>1. UNCHANGED <<loop, timer, slack, rem, life, late, ok, metrics>>
      BY <1>3 DEF Calm, Query, LastMetrics, allVars, pushVars, vars
    <2> QED
      BY <1>0, <2>1, InTimeKept
  <1> QED
    BY <1>1, <1>2, <1>3 DEF PushNext

(* As long as nothing goes wrong, no metric expires at the leader before   *)
(* pushInformerMetrics has replaced it, for every TTL, resolution of the   *)
(* clock and latency with 5 * Lat <= (MetricTTL - 1) * Res: half of a life *)
(* that is cut to whole seconds leaves time for half of the call, the      *)
(* informer's next answer and the next call.                               *)
THEOREM AlwaysFresh == PushSpec => []StaysFresh
  <1>1. PushInit => AllInTime
    BY DEF PushInit, AllInTime, InTime
  <1>2. PushShape /\ AllInTime => StaysFresh
    <2> SUFFICES ASSUME PushShape, AllInTime, NEW p \in Peers, ok[p]
                 PROVE  latest(metrics[MetricName][p]) \notin Discarded
      BY DEF StaysFresh
    <2>1. LastsUntilReplaced(p) /\ NewestIsValid(p)
      BY DEF AllInTime, InTime
    <2>2. life[p] >= 0 /\ life[p] \in -1 .. Longest
      BY <2>1, LastsIsFresh DEF PushShape
    <2>3. ~(life[p] < 0)
      BY <2>2, Times
    <2> QED
      BY <2>1, <2>3 DEF NewestIsValid, Discarded
  <1> QED
    BY <1>1, <1>2, ShapeInit, ShapeStep, InTimeStep, PushTypeCorrect, PTL DEF PushSpec
=============================================================================
