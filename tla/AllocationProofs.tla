-------------------------- MODULE AllocationProofs --------------------------
(***************************************************************************)
(* TLAPS proofs about Allocation, for any finite set of peers, any number  *)
(* of users, Cids and metric values, and any replication factor: types,    *)
(* pins that somebody is to hold, and what allocate promises of a decision.*)
(***************************************************************************)
EXTENDS Allocation, FiniteSetTheorems, SequenceTheorems, TLAPS

-----------------------------------------------------------------------------
(* The order that the numpin allocator leaves.                             *)

(* A set of natural numbers has a least element. *)
LEMMA LeastNatural ==
    ASSUME NEW T, T \subseteq Nat, T # {}
    PROVE  \E x \in T : \A y \in T : x <= y
  <1> DEFINE R == OpToRel(<, Nat)
  <1>1. PICK x \in T : \A y \in T : ~(<<y, x>> \in R)
    <2>1. IsWellFoundedOn(R, Nat)
      BY NatLessThanWellFounded
    <2> HIDE DEF R
    <2> QED
      BY <2>1, WFMin
  <1>2. \A y \in T : y < x => <<y, x>> \in R
    BY DEF OpToRel
  <1>3. \A y \in T : ~(y < x)
    <2> HIDE DEF R
    <2> QED
      BY <1>1, <1>2, Zenon
  <1>4. \A y \in T : x <= y
    BY <1>3
  <1> QED
    BY <1>4

(* Numbers of which none is smaller than its predecessor are sorted. *)
LEMMA SortedPairs ==
    ASSUME NEW n \in Nat, NEW f \in [1 .. n -> Nat],
           \A i \in 1 .. n - 1 : ~(f[i + 1] < f[i]),
           NEW i \in 1 .. n, NEW j \in 1 .. n, i < j
    PROVE  f[i] <= f[j]
  <1> DEFINE T == {k \in 1 .. n : i < k /\ f[k] < f[i]}
  <1> SUFFICES ASSUME ~(f[i] <= f[j]) PROVE FALSE
    OBVIOUS
  <1>0. f[j] < f[i]
    OBVIOUS
  <1>1. T \subseteq Nat /\ j \in T
    BY <1>0
  <1>2. PICK k \in T : \A m \in T : k <= m
    <2> HIDE DEF T
    <2> QED
      BY <1>1, LeastNatural
  <1>3. k \in 1 .. n /\ i < k /\ f[k] < f[i]
    BY <1>2
  <1>4. PICK m \in 1 .. n - 1 : k = m + 1
    <2>1. k - 1 \in 1 .. n - 1 /\ k = (k - 1) + 1
      BY <1>3
    <2> QED
      BY <2>1
  <1>5. m \in 1 .. n /\ m < k /\ m \notin T
    BY <1>2, <1>3, <1>4
  <1>6. ~(f[k] < f[m]) /\ f[k] \in Nat /\ f[m] \in Nat /\ f[i] \in Nat
    BY <1>3, <1>4, <1>5
  <1>7. CASE m = i
    BY <1>3, <1>6, <1>7
  <1>8. CASE m # i
    <2>1. i < m
      BY <1>3, <1>4, <1>8
    <2>2. ~(f[m] < f[i])
      BY <1>5, <2>1
    <2> QED
      BY <1>3, <1>6, <2>2
  <1> QED
    BY <1>7, <1>8

Usable(candidates) == {p \in candidates : metric[p] \in Values}

(* The first n of the sorted candidates: n peers, all of them usable, and  *)
(* none left out that has fewer pins.                                      *)
LEMMA FirstOfSorted ==
    ASSUME NEW candidates \in SUBSET Peers, metric \in [Peers -> Metrics],
           NEW s \in Allocate(candidates), NEW n \in Nat, n <= Len(s)
    PROVE  LET chosen == ToSet(SubSeq(s, 1, n))
               usable == Usable(candidates)
           IN  /\ chosen \subseteq usable
               /\ Cardinality(chosen) = n
               /\ \A p \in chosen, q \in usable \ chosen : metric[p] <= metric[q]
  <1> DEFINE usable == Usable(candidates)
             c == Cardinality(usable)
             chosen == ToSet(SubSeq(s, 1, n))
  <1>1. IsFiniteSet(usable) /\ c \in Nat
    <2>1. usable \in SUBSET Peers
      BY DEF Usable
    <2> HIDE DEF usable
    <2> QED
      BY <2>1, PeersAssumption, FS_Subset, FS_CardinalityType
  <1>2. /\ s \in [1 .. c -> usable]
        /\ \A i, j \in 1 .. c : i # j => s[i] # s[j]
        /\ \A i \in 1 .. Len(s) - 1 : ~(metric[s[i + 1]] < metric[s[i]])
    BY DEF Allocate, SetToSeqs, Usable, Less
  <1> HIDE DEF c
  <1>3. Len(s) = c /\ s \in Seq(usable)
    BY <1>1, <1>2
  <1>4. \A p \in usable : metric[p] \in Nat
    BY ValuesAssumption DEF Usable
  <1> HIDE DEF usable
  <1>5. /\ SubSeq(s, 1, n) \in [1 .. n -> usable]
        /\ \A i \in 1 .. n : SubSeq(s, 1, n)[i] = s[i]
    <2>1. /\ SubSeq(s, 1, n) \in Seq(usable) /\ Len(SubSeq(s, 1, n)) = n
          /\ \A i \in 1 .. n : SubSeq(s, 1, n)[i] = s[i]
      BY <1>1, <1>3
    <2> QED
      BY <2>1, LenProperties
  <1>6. chosen = {s[i] : i \in 1 .. n}
    BY <1>5 DEF ToSet
  <1> HIDE DEF chosen
  <1>7. chosen \subseteq usable
    BY <1>1, <1>2, <1>3, <1>6
  <1>8. Cardinality(chosen) = n
    <2> DEFINE g == [i \in 1 .. n |-> s[i]]
    <2>1. g \in Bijection(1 .. n, chosen)
      <3>1. g \in [1 .. n -> chosen]
        BY <1>6
      <3>2. \A i, j \in 1 .. n : g[i] = g[j] => i = j
        BY <1>1, <1>2, <1>3
      <3>3. \A p \in chosen : \E i \in 1 .. n : g[i] = p
        BY <1>6
      <3> HIDE DEF g
      <3> QED
        BY <3>1, <3>2, <3>3 DEF Bijection, Injection, Surjection, IsInjective
    <2> HIDE DEF g
    <2>2. ExistsBijection(1 .. n, chosen)
      BY <2>1 DEF ExistsBijection
    <2> QED
      BY <2>2, FS_CountingElements
  <1>9. ASSUME NEW p \in chosen, NEW q \in usable \ chosen PROVE metric[p] <= metric[q]
    <2>1. PICK i \in 1 .. n : p = s[i]
      BY <1>6
    <2>2. s \in Surjection(1 .. c, usable)
      <3>1. s \in Injection(1 .. c, usable)
        BY <1>2 DEF Injection, IsInjective
      <3>2. Cardinality(1 .. c) = c
        BY <1>1, FS_Interval
      <3> QED
        BY <1>1, <3>1, <3>2, FS_Injection DEF c
    <2>3. PICK j \in 1 .. c : q = s[j]
      BY <2>2 DEF Surjection
    <2>4. j \notin 1 .. n
      BY <1>6, <2>3
    <2>5. i \in 1 .. c /\ i < j
      BY <1>1, <1>3, <2>1, <2>3, <2>4
    <2> DEFINE f == [k \in 1 .. c |-> metric[s[k]]]
    <2>6. f \in [1 .. c -> Nat]
      BY <1>2, <1>4
    <2>7. \A k \in 1 .. c - 1 : ~(f[k + 1] < f[k])
      <3>1. \A k \in 1 .. c - 1 : k \in 1 .. c /\ k + 1 \in 1 .. c
        BY <1>1
      <3> QED
        BY <1>2, <1>3, <3>1
    <2>8. f[i] = metric[p] /\ f[j] = metric[q]
      BY <2>1, <2>3, <2>5
    <2> HIDE DEF f
    <2>9. f[i] <= f[j]
      BY <1>1, <2>5, <2>6, <2>7, SortedPairs
    <2> QED
      BY <2>8, <2>9
  <1> QED
    BY <1>7, <1>8, <1>9 DEF usable, chosen

-----------------------------------------------------------------------------
(* The inductive invariant.                                                *)

(* What Pin may log: everywhere, or at least one and at most               *)
(* ReplicationFactor peers.                                                *)
PinArg(a) ==
    /\ a \in CidArgs /\ a.pinned
    /\ \/ a.Everywhere /\ a.Allocations = {}
       \/ a.Allocations # {} /\ Cardinality(a.Allocations) <= factor

Pending(f) == /\ f.pc = "metrics" /\ f.cid \in Cids
              /\ f.current \in SUBSET Peers /\ f.clusterPeers \in SUBSET Peers
Committing(f) == f.pc = "commit" /\ f.cid \in Cids /\ PinArg(f.arg)

(* Users is the domain of req, too. *)
ReqsOK ==
    /\ req = [u \in Users |-> req[u]]
    /\ \A u \in Users : req[u] = Idle \/ Pending(req[u]) \/ Committing(req[u])

PinsOK ==
    /\ pins = [h \in Cids |-> pins[h]]
    /\ \A h \in Cids : pins[h] = Absent \/ PinArg(pins[h])

World ==
    /\ factor \in Factors
    /\ members \in SUBSET Peers
    /\ metric \in [Peers -> Metrics]

Inv == World /\ PinsOK /\ ReqsOK

(* The request of one user changes. *)
LEMMA ReqGoes ==
    ASSUME ReqsOK, UNCHANGED factor, NEW u \in Users, NEW g, req' = [req EXCEPT ![u] = g],
           g = Idle \/ Pending(g) \/ Committing(g)
    PROVE  ReqsOK'
  <1>1. req' = [v \in Users |-> req'[v]]
    BY DEF ReqsOK
  <1>2. ASSUME NEW v \in Users
        PROVE  (req[v] = Idle \/ Pending(req[v]) \/ Committing(req[v]))'
    <2>1. CASE v = u
      <3>1. req'[v] = g
        BY <2>1 DEF ReqsOK
      <3> QED
        BY <3>1 DEF Pending, Committing, PinArg
    <2>2. CASE v # u
      <3>1. req'[v] = req[v] /\ (req[v] = Idle \/ Pending(req[v]) \/ Committing(req[v]))
        BY <2>2 DEF ReqsOK
      <3> QED
        BY <3>1 DEF Pending, Committing, PinArg
    <2> QED
      BY <2>1, <2>2
  <1> QED
    BY <1>1, <1>2 DEF ReqsOK

(* The entry of one Cid changes. *)
LEMMA PinGoes ==
    ASSUME PinsOK, UNCHANGED factor, NEW h \in Cids, NEW g, pins' = [pins EXCEPT ![h] = g],
           g = Absent \/ PinArg(g)
    PROVE  PinsOK'
  <1>1. pins' = [x \in Cids |-> pins'[x]]
    BY DEF PinsOK
  <1>2. ASSUME NEW x \in Cids
        PROVE  (pins[x] = Absent \/ PinArg(pins[x]))'
    <2>1. CASE x = h
      <3>1. pins'[x] = g
        BY <2>1 DEF PinsOK
      <3> QED
        BY <3>1 DEF PinArg
    <2>2. CASE x # h
      <3>1. pins'[x] = pins[x] /\ (pins[x] = Absent \/ PinArg(pins[x]))
        BY <2>2 DEF PinsOK
      <3> QED
        BY <3>1 DEF PinArg
    <2> QED
      BY <2>1, <2>2
  <1> QED
    BY <1>1, <1>2 DEF PinsOK

(* Entries name peers. *)
LEMMA EntryPeers ==
    ASSUME PinsOK, NEW h \in Cids
    PROVE  pins[h].Allocations \in SUBSET Peers
  BY DEF PinsOK, PinArg, CidArgs, Absent

(* What Decide leaves when it chose, with what it chose. *)
LEMMA DecideChoice ==
    ASSUME Inv, NEW u \in Users, Decide(u)
    PROVE  \/ req' = [req EXCEPT ![u] = Idle]
           \/ \E A :
                LET f == req[u]
                    usable == {p \in f.clusterPeers \ f.current : metric[p] \in Values}
                    kept == {p \in f.clusterPeers \cap f.current : metric[p] # None}
                    arg == [pinned |-> TRUE, Everywhere |-> FALSE, Allocations |-> A]
                IN  /\ req' = [req EXCEPT ![u] = [pc |-> "commit", cid |-> f.cid, arg |-> arg]]
                    /\ f.cid \in Cids /\ PinArg(arg)
                    /\ A \subseteq usable
                    /\ Cardinality(A) + Cardinality(kept) = factor
                    /\ \A p \in A, q \in usable \ A : metric[p] <= metric[q]
  <1> DEFINE f == req[u]
             needed == Needed(f.current, f.clusterPeers)
             candidates == Candidates(f.current, f.clusterPeers)
             usable == {p \in f.clusterPeers \ f.current : metric[p] \in Values}
             kept == {p \in f.clusterPeers \cap f.current : metric[p] # None}
  <1>0. World /\ PinsOK /\ ReqsOK
    BY DEF Inv
  <1>1. f.cid \in Cids /\ f.current \in SUBSET Peers /\ f.clusterPeers \in SUBSET Peers
    <2>1. f.pc = "metrics"
      BY DEF Decide
    <2> QED
      BY <1>0, <2>1 DEF ReqsOK, Idle, Pending, Committing
  <1>2. candidates \in SUBSET Peers /\ Usable(candidates) = usable
    BY <1>1, ValuesAssumption DEF Candidates, Usable
  <1>3. Cardinality(kept) \in Nat /\ needed = factor - Cardinality(kept) /\ factor \in Int
    <2>1. kept \in SUBSET Peers
      BY <1>1
    <2>2. kept = {p \in f.current \cap f.clusterPeers : metric[p] # None}
      OBVIOUS
    <2>3. needed = factor - Cardinality(kept)
      BY <2>2 DEF Needed
    <2> HIDE DEF kept
    <2>4. Cardinality(kept) \in Nat
      BY <2>1, PeersAssumption, FS_Subset, FS_CardinalityType
    <2> QED
      BY <1>0, <2>3, <2>4, FactorsAssumption DEF World
  <1> HIDE DEF needed, kept, candidates, usable
  <1>4. CASE req' = [req EXCEPT ![u] = Idle]
    BY <1>4
  <1>5. ASSUME NEW s \in Allocate(candidates), ~(needed <= 0), ~(Len(s) < needed),
               req' = [req EXCEPT ![u] = [pc |-> "commit", cid |-> f.cid,
                         arg |-> [pinned |-> TRUE, Everywhere |-> FALSE,
                                  Allocations |-> ToSet(SubSeq(s, 1, needed))]]]
        PROVE  \E A :
                LET arg == [pinned |-> TRUE, Everywhere |-> FALSE, Allocations |-> A]
                IN  /\ req' = [req EXCEPT ![u] = [pc |-> "commit", cid |-> f.cid, arg |-> arg]]
                    /\ f.cid \in Cids /\ PinArg(arg)
                    /\ A \subseteq usable
                    /\ Cardinality(A) + Cardinality(kept) = factor
                    /\ \A p \in A, q \in usable \ A : metric[p] <= metric[q]
    <2>1. PICK A : A = ToSet(SubSeq(s, 1, needed))
      OBVIOUS
    <2>2. needed \in Nat /\ needed > 0 /\ needed <= factor
      BY <1>3, <1>5
    <2>3. needed <= Len(s)
      <3>1. Len(s) \in Nat
        <4>1. s \in [1 .. Cardinality(usable) -> usable]
          BY <1>2, <1>5 DEF Allocate, SetToSeqs, Usable
        <4>2. Cardinality(usable) \in Nat
          BY <1>1, PeersAssumption, FS_Subset, FS_CardinalityType DEF usable
        <4> QED
          BY <4>1, <4>2
      <3> QED
        BY <1>5, <2>2, <3>1
    <2>4. /\ A \subseteq usable
          /\ Cardinality(A) = needed
          /\ \A p \in A, q \in usable \ A : metric[p] <= metric[q]
      BY <1>0, <1>2, <2>1, <2>2, <2>3, FirstOfSorted DEF World
    <2>5. A # {}
      BY <2>2, <2>4, FS_EmptySet
    <2>6. A \subseteq Peers
      BY <1>1, <2>4 DEF usable
    <2>7. PinArg([pinned |-> TRUE, Everywhere |-> FALSE, Allocations |-> A])
      <3>1. [pinned |-> TRUE, Everywhere |-> FALSE, Allocations |-> A] \in CidArgs
        BY <2>6 DEF CidArgs
      <3>2. Cardinality(A) <= factor
        BY <2>2, <2>4
      <3> QED
        BY <2>5, <3>1, <3>2 DEF PinArg
    <2>8. Cardinality(A) + Cardinality(kept) = factor
      BY <1>3, <2>4
    <2> QED
      BY <1>1, <1>5, <2>1, <2>4, <2>7, <2>8
  <1> QED
    BY <1>4, <1>5 DEF Decide, AlreadyAllocated, needed, candidates, kept, usable

(* Nothing is pinned and no call is under way at first. *)
LEMMA InvInit == Init => Inv
  <1> SUFFICES ASSUME Init PROVE Inv
    OBVIOUS
  <1>1. World
    BY DEF Init, World, Metrics
  <1>2. PinsOK
    BY DEF Init, PinsOK
  <1>3. ReqsOK
    BY DEF Init, ReqsOK
  <1> QED
    BY <1>1, <1>2, <1>3 DEF Inv

(* Every step of a call, a metric or a peer keeps the invariant. *)
LEMMA InvNext == Inv /\ [Next]_vars => Inv'
  <1> SUFFICES ASSUME Inv, [Next]_vars PROVE Inv'
    OBVIOUS
  <1>0. World /\ PinsOK /\ ReqsOK
    BY DEF Inv
  <1>1. ASSUME UNCHANGED <<factor, members, metric>> PROVE World'
    BY <1>0, <1>1 DEF World
  <1>2. ASSUME UNCHANGED <<factor, pins>> PROVE PinsOK'
    BY <1>0, <1>2 DEF PinsOK, PinArg
  <1>3. ASSUME UNCHANGED <<factor, req>> PROVE ReqsOK'
    BY <1>0, <1>3 DEF ReqsOK, Pending, Committing, PinArg
  <1>4. ASSUME NEW u \in Users, NEW g, req' = [req EXCEPT ![u] = g],
               g = Idle \/ Pending(g) \/ Committing(g),
               UNCHANGED <<factor, members, metric, pins>>
        PROVE  Inv'
    BY <1>0, <1>1, <1>2, <1>4, ReqGoes DEF Inv
  <1>5. ASSUME NEW u \in Users, NEW h \in Cids, PinEverywhere(u, h) PROVE Inv'
    <2>1. PICK a : a = [pinned |-> TRUE, Everywhere |-> TRUE, Allocations |-> {}]
      OBVIOUS
    <2>2. PinArg(a)
      BY <2>1 DEF PinArg, CidArgs
    <2>3. PICK g : g = [pc |-> "commit", cid |-> h, arg |-> a]
      OBVIOUS
    <2>4. Committing(g)
      BY <2>2, <2>3 DEF Committing
    <2> QED
      BY <1>4, <1>5, <2>1, <2>3, <2>4 DEF PinEverywhere
  <1>6. ASSUME NEW u \in Users, NEW h \in Cids, ReadState(u, h) PROVE Inv'
    <2>1. PICK current \in {pins[h].Allocations} \cup (IF Faults THEN {{}} ELSE {}) :
             req' = [req EXCEPT ![u] = [pc |-> "metrics", cid |-> h,
                                        current |-> current, clusterPeers |-> members]]
      BY <1>6 DEF ReadState
    <2>2. current \in SUBSET Peers /\ members \in SUBSET Peers
      BY <1>0, <2>1, EntryPeers DEF World
    <2>3. PICK g : g = [pc |-> "metrics", cid |-> h, current |-> current, clusterPeers |-> members]
      OBVIOUS
    <2>4. Pending(g)
      BY <2>2, <2>3 DEF Pending
    <2> QED
      BY <1>4, <1>6, <2>1, <2>3, <2>4 DEF ReadState
  <1>7. ASSUME NEW u \in Users, NoMetrics(u) \/ LogPinFails(u) PROVE Inv'
    BY <1>4, <1>7 DEF NoMetrics, LogPinFails
  <1>8. ASSUME NEW u \in Users, Decide(u) PROVE Inv'
    <2>1. UNCHANGED <<factor, members, metric, pins>>
      BY <1>8 DEF Decide
    <2>2. CASE req' = [req EXCEPT ![u] = Idle]
      BY <1>4, <2>1, <2>2
    <2>3. ASSUME NEW A, req[u].cid \in Cids,
                 PinArg([pinned |-> TRUE, Everywhere |-> FALSE, Allocations |-> A]),
                 req' = [req EXCEPT ![u] = [pc |-> "commit", cid |-> req[u].cid,
                           arg |-> [pinned |-> TRUE, Everywhere |-> FALSE, Allocations |-> A]]]
          PROVE  Inv'
      <3>1. PICK a : a = [pinned |-> TRUE, Everywhere |-> FALSE, Allocations |-> A]
        OBVIOUS
      <3>2. PICK g : g = [pc |-> "commit", cid |-> req[u].cid, arg |-> a]
        OBVIOUS
      <3>3. Committing(g)
        BY <2>3, <3>1, <3>2 DEF Committing
      <3> QED
        BY <1>4, <2>1, <2>3, <3>1, <3>2, <3>3
    <2> QED
      BY <1>8, <2>2, <2>3, DecideChoice
  <1>9. ASSUME NEW u \in Users, LogPin(u) PROVE Inv'
    <2>1. Committing(req[u])
      BY <1>0, <1>9 DEF ReqsOK, LogPin, Idle, Pending
    <2>2. PICK h, a : h \in Cids /\ h = req[u].cid /\ a = req[u].arg /\ PinArg(a)
      BY <2>1 DEF Committing
    <2>3. pins' = [pins EXCEPT ![h] = a] /\ req' = [req EXCEPT ![u] = Idle]
      BY <1>9, <2>2 DEF LogPin, Added
    <2>4. UNCHANGED <<factor, members, metric>>
      BY <1>9 DEF LogPin
    <2> QED
      BY <1>0, <1>1, <2>2, <2>3, <2>4, ReqGoes, PinGoes DEF Inv
  <1>10. ASSUME NEW u \in Users, NEW h \in Cids, LogUnpin(u, h) PROVE Inv'
    BY <1>0, <1>1, <1>3, <1>10, PinGoes DEF LogUnpin, Inv
  <1>11. ASSUME NEW p \in Peers, PeerJoinsOrLeaves(p) PROVE Inv'
    <2>1. World'
      BY <1>0, <1>11 DEF PeerJoinsOrLeaves, World
    <2> QED
      BY <1>2, <1>3, <1>11, <2>1 DEF PeerJoinsOrLeaves, Inv
  <1>12. ASSUME NEW p \in Peers, NEW m \in Metrics, NewMetric(p, m) PROVE Inv'
    <2>1. World'
      BY <1>0, <1>12 DEF NewMetric, World
    <2> QED
      BY <1>2, <1>3, <1>12, <2>1 DEF NewMetric, Inv
  <1>13. CASE UNCHANGED vars
    BY <1>1, <1>2, <1>3, <1>13 DEF vars, Inv
  <1> QED
    BY <1>5, <1>6, <1>7, <1>8, <1>9, <1>10, <1>11, <1>12, <1>13 DEF Next

-----------------------------------------------------------------------------
(* The theorems.                                                           *)

(* Every variable has its type; however many pins of a Cid run at the same *)
(* time, its entry names at most ReplicationFactor peers (Cluster.Pin,     *)
(* MapState.Add).                                                          *)
THEOREM TypeCorrect == Spec => []TypeOK
  <1>1. Inv => TypeOK
    <2> SUFFICES ASSUME Inv PROVE TypeOK
      OBVIOUS
    <2>0. World /\ PinsOK /\ ReqsOK
      BY DEF Inv
    <2> DEFINE E == {a \in CidArgs : a.Allocations = {} \/ Cardinality(a.Allocations) <= factor}
    <2>1. Absent \in E
      BY DEF Absent, CidArgs
    <2>2. \A a : PinArg(a) => a \in E
      BY DEF PinArg
    <2>3. \A h \in Cids : pins[h] \in E
      BY <2>0, <2>1, <2>2 DEF PinsOK
    <2> HIDE DEF E
    <2>4. pins \in [Cids -> E]
      BY <2>0, <2>3 DEF PinsOK
    <2>5. \A u \in Users :
             \/ req[u] = Idle
             \/ /\ req[u].pc = "metrics"
                /\ req[u].cid \in Cids
                /\ {req[u].current, req[u].clusterPeers} \subseteq SUBSET Peers
             \/ req[u].pc = "commit" /\ req[u].cid \in Cids /\ req[u].arg \in CidArgs
      BY <2>0 DEF ReqsOK, Pending, Committing, PinArg
    <2> QED
      BY <2>0, <2>4, <2>5 DEF World, TypeOK, E
  <1> QED
    BY InvInit, InvNext, <1>1, PTL DEF Spec

(* Every pinned Cid is everywhere or allocated to someone, whatever        *)
(* metrics, peers and other requests do between the three steps of a pin   *)
(* (Cluster.allocate never logs an empty list of allocations).             *)
THEOREM PinsAreHeld == Spec => []PinnedSomewhere
  <1>1. Inv => PinnedSomewhere
    BY DEF Inv, PinsOK, PinArg, Absent, PinnedSomewhere
  <1> QED
    BY InvInit, InvNext, <1>1, PTL DEF Spec

(* A decision takes as many new peers as are missing, all of them usable,  *)
(* and leaves out none that has fewer pins (Cluster.allocate and           *)
(* numpinalloc.Allocate).                                                  *)
THEOREM AllocateFewestPins == Spec => FewestPinsFirst
  <1> DEFINE Chosen(u) ==
        req[u].pc = "metrics" /\ req'[u].pc = "commit" =>
            LET chosen == req'[u].arg.Allocations
                usable == {p \in req[u].clusterPeers \ req[u].current :
                              metric[p] \in Values}
                kept == {p \in req[u].clusterPeers \cap req[u].current :
                              metric[p] # None}
            IN /\ chosen \subseteq usable
               /\ Cardinality(chosen) + Cardinality(kept) = factor
               /\ \A p \in chosen, q \in usable \ chosen : metric[p] <= metric[q]
  <1>1. Inv /\ [Next]_vars => [\A u \in Users : Chosen(u)]_vars
    <2> SUFFICES ASSUME Inv, Next, NEW u \in Users, req[u].pc = "metrics", req'[u].pc = "commit"
                 PROVE  Chosen(u)
      OBVIOUS
    <2>0. ReqsOK
      BY DEF Inv
    <2>1. Decide(u)
      <3>1. ASSUME NEW v \in Users, NEW g, req' = [req EXCEPT ![v] = g], v # u PROVE FALSE
        BY <2>0, <3>1 DEF ReqsOK
      <3>2. ASSUME NEW v \in Users, req' = [req EXCEPT ![v] = Idle] PROVE FALSE
        BY <2>0, <3>2 DEF ReqsOK, Idle
      <3>3. ASSUME NEW v \in Users, NEW h \in Cids, PinEverywhere(v, h) PROVE FALSE
        BY <3>1, <3>3 DEF PinEverywhere, Idle
      <3>4. ASSUME NEW v \in Users, NEW h \in Cids, ReadState(v, h) PROVE FALSE
        BY <3>1, <3>4 DEF ReadState, Idle
      <3>5. ASSUME NEW v \in Users, NoMetrics(v) \/ LogPin(v) \/ LogPinFails(v) PROVE FALSE
        BY <3>2, <3>5 DEF NoMetrics, LogPin, LogPinFails
      <3>6. ASSUME UNCHANGED req PROVE FALSE
        BY <3>6
      <3>7. ASSUME NEW v \in Users, Decide(v), v # u PROVE FALSE
        BY <3>1, <3>2, <3>7 DEF Decide
      <3>8. ASSUME NEW p \in Peers, PeerJoinsOrLeaves(p) PROVE FALSE
        BY <3>6, <3>8 DEF PeerJoinsOrLeaves
      <3>9. ASSUME NEW p \in Peers, NEW m \in Metrics, NewMetric(p, m) PROVE FALSE
        BY <3>6, <3>9 DEF NewMetric
      <3>10. ASSUME NEW v \in Users, NEW h \in Cids, LogUnpin(v, h) PROVE FALSE
        BY <3>6, <3>10 DEF LogUnpin
      <3> QED
        BY <3>3, <3>4, <3>5, <3>7, <3>8, <3>9, <3>10 DEF Next
    <2>2. req' # [req EXCEPT ![u] = Idle]
      BY <2>0 DEF ReqsOK, Idle
    <2>3. PICK A :
            LET f == req[u]
                usable == {p \in f.clusterPeers \ f.current : metric[p] \in Values}
                kept == {p \in f.clusterPeers \cap f.current : metric[p] # None}
                arg == [pinned |-> TRUE, Everywhere |-> FALSE, Allocations |-> A]
            IN  /\ req' = [req EXCEPT ![u] = [pc |-> "commit", cid |-> f.cid, arg |-> arg]]
                /\ f.cid \in Cids /\ PinArg(arg)
                /\ A \subseteq usable
                /\ Cardinality(A) + Cardinality(kept) = factor
                /\ \A p \in A, q \in usable \ A : metric[p] <= metric[q]
      BY <2>1, <2>2, DecideChoice
    <2>4. req'[u].arg.Allocations = A
      BY <2>0, <2>3 DEF ReqsOK
    <2> QED
      BY <2>3, <2>4
  <1> QED
    BY InvInit, InvNext, <1>1, PTL DEF Spec, FewestPinsFirst
=============================================================================
