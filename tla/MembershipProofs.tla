-------------------------- MODULE MembershipProofs --------------------------
(***************************************************************************)
(* TLAPS proofs about Membership, for any sets of peers and founders, any  *)
(* number of calls, retries, faults and restarts: types, what an           *)
(* acknowledged PeerAdd or PeerRemove holds to, what a removed peer writes *)
(* to its configuration, and that the members agree once they have settled. *)
(***************************************************************************)
EXTENDS Membership, SequenceTheorems, WellFoundedInduction, TLAPS

-----------------------------------------------------------------------------
(* The inductive invariant.                                                *)

Op == [type : {"LogOpAddPeer", "LogOpRmPeer"}, peer : Peers]

Ops == {"none", "add", "rm", "leave"}
Pcs == {"none", "ping", "commit", "raft", "failed", "list", "send", "tell", "reset", "stop"}
Call == [op : Ops, peer : Peers, pc : Pcs, tries : 0 .. CommitRetries,
         list : SUBSET Peers, alone : BOOLEAN]

Marks == {"in", "out", "open"}

LogOK ==
    /\ log \in Seq(Op)
    /\ raftPeers \subseteq Peers
    /\ reach \in [Peers -> Nat] /\ applied \in [Peers -> Nat] /\ snap \in [Peers -> Nat]
    /\ \A p \in Peers : snap[p] <= applied[p] /\ applied[p] <= Len(log) /\ reach[p] <= Len(log)

PeersOK ==
    /\ node \in [Peers -> Nodes]
    /\ peermap \in [Peers -> SUBSET Peers]
    /\ saved \in [Peers -> SUBSET Peers]
    /\ \A p \in Peers : p \notin saved[p]

HistOK ==
    /\ left \in [{"calls", "faults", "starts"} -> Nat]
    /\ unsaved \subseteq Peers /\ relisted \subseteq Peers
    /\ trouble \in BOOLEAN
    /\ known \in [Peers -> Marks]

(* Where a call can be depends on what it is. *)
CallOK ==
    /\ call \in [Peers -> Call]
    /\ \A c \in Peers :
          /\ call[c].op = "none" <=> call[c].pc = "none"
          /\ call[c].pc \in {"ping", "list", "send"} => call[c].op = "add"
          /\ call[c].pc = "tell" => call[c].op = "rm"
          /\ call[c].pc \in {"reset", "stop"} => call[c].op = "leave"

(* A call that is about the same peer as another does not take itself for  *)
(* the only one.                                                           *)
AloneOK ==
    \A c, d \in Peers :
        /\ c # d /\ call[c].op # "none" /\ call[d].op # "none"
        /\ call[c].peer = call[d].peer
        => ~call[c].alone

(* Nothing is established about a peer while a call about it runs. *)
OpenOK ==
    \A c \in Peers : call[c].pc \notin {"none", "stop"} => known[call[c].peer] = "open"

(* The last operation about x in a log; LastOp is that of the log.         *)
LastOf(l, x) == LET S == {i \in 1 .. Len(l) : l[i].peer = x}
                IN  IF S = {} THEN "none" ELSE l[Max(S)].type

TypeOf(op) == IF op = "add" THEN "LogOpAddPeer" ELSE "LogOpRmPeer"

(* A call that is the only one about its peer finds its operation last in  *)
(* the log, once committed, and Raft's peer set as it left it.             *)
ProgressOK ==
    \A c \in Peers : call[c].alone =>
        /\ call[c].pc \in {"raft", "list", "send", "tell", "reset"} =>
              LastOf(log, call[c].peer) = TypeOf(call[c].op)
        /\ call[c].pc \in {"list", "send"} => call[c].peer \in raftPeers
        /\ call[c].pc \in {"tell", "reset"} => call[c].peer \notin raftPeers

(* A peer that has reset its peermap knows itself, and the peer that it is *)
(* trying to add: it can commit nothing any more.                          *)
Trying(x) == IF call[x].op = "add" /\ call[x].pc \in {"ping", "commit", "failed"}
             THEN {call[x].peer} ELSE {}
ResetOK ==
    \A x \in Peers : node[x] = "reset" /\ x \notin relisted =>
        peermap[x] \subseteq {x} \cup Trying(x)

Acked ==
    \A x \in Peers :
        /\ known[x] = "in" => x \in raftPeers /\ LastOf(log, x) # "LogOpRmPeer"
        /\ known[x] = "out" => x \notin raftPeers /\ LastOf(log, x) = "LogOpRmPeer"

Calls == AloneOK /\ OpenOK /\ ProgressOK /\ Acked

Inv == LogOK /\ PeersOK /\ HistOK /\ CallOK /\ Calls /\ ResetOK

-----------------------------------------------------------------------------
(* The last operation about a peer.                                        *)

(* A set of natural numbers has a least element. *)
LEMMA LeastNatural ==
    ASSUME NEW T, T \subseteq Nat, T # {}
    PROVE  \E x \in T : \A y \in T : x <= y
  <1> DEFINE R == OpToRel(<, Nat)
  <1>1. PICK x \in T : \A y \in T : ~(<<y, x>> \in R)
    <2>1. IsWellFoundedOn(R, Nat)
      BY NatLessThanWellFounded
    <2> HIDE DEF R
    <2> QED
      BY <2>1, WFMin
  <1>2. \A y \in T : y < x => <<y, x>> \in R
    BY DEF OpToRel
  <1>3. \A y \in T : ~(y < x)
    <2> HIDE DEF R
    <2> QED
      BY <1>1, <1>2, Zenon
  <1>4. \A y \in T : x <= y
    BY <1>3
  <1> QED
    BY <1>4

(* Max of a set of positions is one of them. *)
LEMMA MaxOfPositions ==
    ASSUME NEW n \in Nat, NEW S, S \subseteq 1 .. n, S # {}
    PROVE  Max(S) \in S /\ \A i \in S : i <= Max(S)
  <1> DEFINE T == {n - i : i \in S}
  <1>0. \A i \in S : i \in Int /\ n - i \in Nat
    OBVIOUS
  <1>1. T \subseteq Nat /\ T # {}
    BY <1>0
  <1>2. PICK m \in T : \A y \in T : m <= y
    <2> HIDE DEF T
    <2> QED
      BY <1>1, LeastNatural
  <1>3. PICK j \in S : m = n - j
    OBVIOUS
  <1>4. \A i \in S : n - j <= n - i
    BY <1>2, <1>3
  <1>5. \A i \in S : j >= i
    BY <1>0, <1>4
  <1>6. Max(S) \in S /\ \A i \in S : Max(S) >= i
    BY <1>5 DEF Max
  <1> QED
    BY <1>0, <1>6

(* An operation that is appended is the last one about its peer, and       *)
(* leaves the others alone.                                                *)
LEMMA LastOfAppend ==
    ASSUME NEW l \in Seq(Op), NEW o \in Op, NEW x
    PROVE  LastOf(Append(l, o), x) = IF x = o.peer THEN o.type ELSE LastOf(l, x)
  <1> DEFINE n == Len(l)
             k == Append(l, o)
             S == {i \in 1 .. n : l[i].peer = x}
             U == {i \in 1 .. n + 1 : k[i].peer = x}
  <1>1. n \in Nat /\ Len(k) = n + 1 /\ k[n + 1] = o /\ \A i \in 1 .. n : k[i] = l[i]
    OBVIOUS
  <1>2. LastOf(k, x) = IF U = {} THEN "none" ELSE k[Max(U)].type
    BY <1>1 DEF LastOf
  <1>3. LastOf(l, x) = IF S = {} THEN "none" ELSE l[Max(S)].type
    BY DEF LastOf
  <1>4. CASE x = o.peer
    <2>1. n + 1 \in Nat /\ n + 1 \in U /\ U \subseteq 1 .. n + 1
      BY <1>1, <1>4
    <2>2. Max(U) \in 1 .. n + 1 /\ n + 1 <= Max(U)
      <3> HIDE DEF U, n
      <3> QED
        BY <2>1, MaxOfPositions
    <2>3. Max(U) = n + 1 /\ U # {}
      <3> HIDE DEF U
      <3> QED
        BY <1>1, <2>1, <2>2
    <2> QED
      BY <1>1, <1>2, <1>4, <2>3
  <1>5. CASE x # o.peer
    <2>1. U = S
      BY <1>1, <1>5
    <2>2. CASE S = {}
      BY <1>2, <1>3, <1>5, <2>1, <2>2
    <2>3. CASE S # {}
      <3>1. Max(S) \in S
        <4>1. S \subseteq 1 .. n
          OBVIOUS
        <4> HIDE DEF S
        <4> QED
          BY <1>1, <2>3, <4>1, MaxOfPositions
      <3>2. k[Max(S)] = l[Max(S)]
        BY <1>1, <3>1
      <3> HIDE DEF S, U
      <3> QED
        BY <1>2, <1>3, <1>5, <2>1, <2>3, <3>2
    <2> QED
      BY <2>2, <2>3
  <1> QED
    BY <1>4, <1>5

(* The same for the steps of the log. *)
LEMMA LogGrows ==
    ASSUME LogOK, NEW o \in Op, log' = Append(log, o)
    PROVE  /\ log' \in Seq(Op) /\ Len(log') = Len(log) + 1
           /\ \A x : LastOf(log', x) = IF x = o.peer THEN o.type ELSE LastOf(log, x)
  BY LastOfAppend DEF LogOK

-----------------------------------------------------------------------------
(* Changes of a call.                                                      *)

(* Replacing one call by a well-formed one. *)
LEMMA OneCall ==
    ASSUME CallOK, NEW c \in Peers, NEW k \in Call, call' = [call EXCEPT ![c] = k],
           k.op = "none" <=> k.pc = "none",
           k.pc \in {"ping", "list", "send"} => k.op = "add",
           k.pc = "tell" => k.op = "rm",
           k.pc \in {"reset", "stop"} => k.op = "leave"
    PROVE  CallOK' /\ call'[c] = k /\ \A d \in Peers : d # c => call'[d] = call[d]
  <1>1. call' \in [Peers -> Call] /\ call'[c] = k /\ \A d \in Peers : d # c => call'[d] = call[d]
    BY DEF CallOK
  <1> QED
    BY <1>1 DEF CallOK

(* The call at c goes on, or returns. *)
GoesTo(c, pc) ==
    /\ \A d \in Peers : d # c => call'[d] = call[d]
    /\ call'[c].pc = pc
    /\ call'[c].op = call[c].op /\ call'[c].peer = call[c].peer /\ call'[c].alone = call[c].alone

Returns(c) ==
    /\ \A d \in Peers : d # c => call'[d] = call[d]
    /\ call'[c].pc = "none" /\ call'[c].op = "none"

(* A call goes on to another step. *)
LEMMA StepGoes ==
    ASSUME CallOK, NEW c \in Peers, NEW pc \in Pcs \ {"none"}, call[c].pc # "none", Step(c, pc),
           pc \in {"ping", "list", "send"} => call[c].op = "add",
           pc = "tell" => call[c].op = "rm",
           pc \in {"reset", "stop"} => call[c].op = "leave"
    PROVE  CallOK' /\ GoesTo(c, pc)
  <1>1. PICK k : k = [call[c] EXCEPT !.pc = pc]
    OBVIOUS
  <1>2. call[c] \in Call /\ call[c].op # "none"
    BY DEF CallOK
  <1>3. k \in Call /\ k.pc = pc /\ k.op = call[c].op /\ k.peer = call[c].peer /\ k.alone = call[c].alone
    BY <1>1, <1>2 DEF Call
  <1>4. call' = [call EXCEPT ![c] = k]
    BY <1>1, <1>2 DEF Step
  <1>5. CallOK' /\ call'[c] = k /\ \A d \in Peers : d # c => call'[d] = call[d]
    BY <1>2, <1>3, <1>4, OneCall
  <1> QED
    BY <1>3, <1>5 DEF GoesTo

(* A try that failed is repeated, or was the last. *)
LEMMA NextTryGoes ==
    ASSUME CallOK, NEW c \in Peers, call[c].pc # "none", NextTry(c)
    PROVE  CallOK' /\ (GoesTo(c, "commit") \/ GoesTo(c, "failed"))
  <1>1. call[c] \in Call /\ call[c].op # "none" /\ call[c].tries \in 0 .. CommitRetries
    BY DEF CallOK, Call
  <1>2. PICK k : k = [[call[c] EXCEPT !.pc = "commit"] EXCEPT !.tries = call[c].tries - 1]
    OBVIOUS
  <1>3. PICK h : h = [[call[c] EXCEPT !.pc = "failed"] EXCEPT !.tries = 0]
    OBVIOUS
  <1>4. CASE call[c].tries > 1
    <2>1. call[c].tries - 1 \in 0 .. CommitRetries
      BY <1>1, <1>4, BoundsAssumption
    <2>2. k \in Call /\ k.pc = "commit" /\ k.op = call[c].op /\ k.peer = call[c].peer /\ k.alone = call[c].alone
      BY <1>1, <1>2, <2>1 DEF Call, Pcs
    <2>3. call' = [call EXCEPT ![c] = k]
      BY <1>1, <1>2, <1>4 DEF NextTry
    <2>4. CallOK' /\ call'[c] = k /\ \A d \in Peers : d # c => call'[d] = call[d]
      BY <1>1, <2>2, <2>3, OneCall
    <2> QED
      BY <2>2, <2>4 DEF GoesTo
  <1>5. CASE ~(call[c].tries > 1)
    <2>1. 0 \in 0 .. CommitRetries
      BY BoundsAssumption
    <2>2. h \in Call /\ h.pc = "failed" /\ h.op = call[c].op /\ h.peer = call[c].peer /\ h.alone = call[c].alone
      BY <1>1, <1>3, <2>1 DEF Call, Pcs
    <2>3. call' = [call EXCEPT ![c] = h]
      BY <1>1, <1>3, <1>5 DEF NextTry
    <2>4. CallOK' /\ call'[c] = h /\ \A d \in Peers : d # c => call'[d] = call[d]
      BY <1>1, <2>2, <2>3, OneCall
    <2> QED
      BY <2>2, <2>4 DEF GoesTo
  <1> QED
    BY <1>4, <1>5

(* What a peer that serves no call is doing. *)
LEMMA IdleCall ==
    Idle \in Call /\ Idle.op = "none" /\ Idle.pc = "none" /\ Idle.peer = Contact
  <1>1. Contact \in Peers /\ 0 \in 0 .. CommitRetries
    BY PeersAssumption, BoundsAssumption
  <1> QED
    BY <1>1 DEF Idle, Call, Ops, Pcs

(* A call returns. *)
LEMMA ReturnGoes ==
    ASSUME CallOK, NEW c \in Peers, call' = [call EXCEPT ![c] = Idle]
    PROVE  CallOK' /\ Returns(c)
  <1>1. CallOK' /\ call'[c] = Idle /\ \A d \in Peers : d # c => call'[d] = call[d]
    BY IdleCall, OneCall
  <1> QED
    BY <1>1, IdleCall DEF Returns

(* A call starts: the others about the same peer lose their solitude. *)
Starts(c, op, x, pc) ==
    /\ call'[c].op = op /\ call'[c].peer = x /\ call'[c].pc = pc
    /\ call'[c].alone => \A d \in Peers : call[d].op # "none" => call[d].peer # x
    /\ \A d \in Peers : d # c =>
          /\ call'[d].op = call[d].op /\ call'[d].peer = call[d].peer /\ call'[d].pc = call[d].pc
          /\ call'[d].alone => call[d].alone /\ (call[d].op # "none" => call[d].peer # x)

(* A call begins. *)
LEMMA BeginGoes ==
    ASSUME CallOK, NEW c \in Peers, NEW x \in Peers, NEW op \in Ops \ {"none"}, NEW pc \in {"ping", "commit"},
           pc = "ping" => op = "add", Begin(c, op, x, pc)
    PROVE  CallOK' /\ Starts(c, op, x, pc)
  <1> DEFINE lone == \A b \in Busy : call[b].peer # x
             new == [op |-> op, peer |-> x, pc |-> pc, tries |-> CommitRetries, list |-> {}, alone |-> lone]
             old(d) == [call[d] EXCEPT !.alone = call[d].alone /\ (d \in Busy => call[d].peer # x)]
  <1>1. call' = [d \in Peers |-> IF d = c THEN new ELSE old(d)]
    BY DEF Begin
  <1>2. new \in Call /\ new.op = op /\ new.peer = x /\ new.pc = pc /\ new.alone = lone
    <2>1. CommitRetries \in 0 .. CommitRetries /\ pc \in Pcs /\ {} \in SUBSET Peers /\ lone \in BOOLEAN
      BY BoundsAssumption DEF Pcs
    <2> HIDE DEF lone
    <2> QED
      BY <2>1 DEF Call
  <1>3. ASSUME NEW d \in Peers
        PROVE  /\ old(d) \in Call /\ old(d).op = call[d].op /\ old(d).peer = call[d].peer /\ old(d).pc = call[d].pc
               /\ old(d).alone = (call[d].alone /\ (d \in Busy => call[d].peer # x))
    <2>1. call[d] \in Call
      BY DEF CallOK
    <2>2. PICK b \in BOOLEAN : b = (call[d].alone /\ (d \in Busy => call[d].peer # x))
      OBVIOUS
    <2> QED
      BY <2>1, <2>2 DEF Call
  <1> HIDE DEF new, old
  <1>4. call'[c] = new /\ \A d \in Peers : d # c => call'[d] = old(d)
    BY <1>1
  <1>5. call' \in [Peers -> Call]
    BY <1>1, <1>2, <1>3
  <1>6. CallOK'
    <2>1. op # "none" /\ pc # "none"
      OBVIOUS
    <2> QED
      BY <1>2, <1>3, <1>4, <1>5, <2>1 DEF CallOK
  <1>7. lone => \A d \in Peers : call[d].op # "none" => call[d].peer # x
    BY DEF Busy
  <1>8. \A d \in Peers : d # c =>
          /\ call'[d].op = call[d].op /\ call'[d].peer = call[d].peer /\ call'[d].pc = call[d].pc
          /\ call'[d].alone => call[d].alone /\ (call[d].op # "none" => call[d].peer # x)
    BY <1>3, <1>4 DEF Busy
  <1> QED
    BY <1>2, <1>4, <1>6, <1>7, <1>8 DEF Starts

-----------------------------------------------------------------------------
(* What the calls know, step by step.                                      *)

(* A step of no call. *)
LEMMA CallsSame ==
    ASSUME Calls, UNCHANGED <<call, log, raftPeers, known>>
    PROVE  Calls'
  BY DEF Calls, AloneOK, OpenOK, ProgressOK, Acked

(* A step that commits nothing. *)
LEMMA CallsGo ==
    ASSUME CallOK, Calls, NEW c \in Peers, NEW pc, GoesTo(c, pc), UNCHANGED <<log, raftPeers, known>>,
           call[c].pc \notin {"none", "stop"},
           pc \in {"commit", "failed"} \/ (pc = "send" /\ call[c].pc = "list")
    PROVE  Calls'
  <1>1. AloneOK'
    BY DEF Calls, AloneOK, GoesTo
  <1>2. OpenOK'
    BY DEF Calls, OpenOK, GoesTo
  <1>3. ProgressOK'
    BY DEF Calls, ProgressOK, GoesTo
  <1>4. Acked'
    BY DEF Calls, Acked
  <1> QED
    BY <1>1, <1>2, <1>3, <1>4 DEF Calls

(* A call that returns leaves nothing open behind. *)
LEMMA CallsEnd ==
    ASSUME CallOK, Calls, NEW c \in Peers, Returns(c), UNCHANGED <<log, raftPeers, known>>
    PROVE  Calls'
  <1>1. AloneOK'
    BY DEF Calls, AloneOK, Returns
  <1>2. OpenOK'
    BY DEF Calls, OpenOK, Returns
  <1>3. ProgressOK'
    BY DEF Calls, ProgressOK, Returns
  <1>4. Acked'
    BY DEF Calls, Acked
  <1> QED
    BY <1>1, <1>2, <1>3, <1>4 DEF Calls

(* An operation of the call at c enters the log. *)
LEMMA CallsCommit ==
    ASSUME LogOK, CallOK, Calls, NEW c \in Peers, NEW pc \in {"commit", "failed", "raft"}, GoesTo(c, pc),
           call[c].pc = "commit", log' = Append(log, OpOf(c)), UNCHANGED <<raftPeers, known>>
    PROVE  Calls'
  <1>1. PICK o : o = OpOf(c)
    OBVIOUS
  <1>2. o \in Op /\ o.peer = call[c].peer /\ o.type = TypeOf(call[c].op)
    <2>1. call[c].peer \in Peers
      BY DEF CallOK, Call
    <2> QED
      BY <1>1, <2>1 DEF OpOf, Op, TypeOf
  <1>3. \A x : LastOf(log', x) = IF x = o.peer THEN o.type ELSE LastOf(log, x)
    BY <1>1, <1>2, LogGrows
  <1>4. LastOf(log', call[c].peer) = TypeOf(call[c].op)
    BY <1>2, <1>3
  <1>5. \A x : x # call[c].peer => LastOf(log', x) = LastOf(log, x)
    BY <1>2, <1>3
  <1>6. AloneOK' /\ OpenOK'
    BY DEF Calls, AloneOK, OpenOK, GoesTo
  <1>7. call[c].op # "none"
    BY DEF CallOK
  <1>8. ProgressOK'
    <2>1. ASSUME NEW d \in Peers, d # c, call[d].alone
          PROVE  call[d].op = "none" \/ call[d].peer # call[c].peer
      BY <1>7, <2>1 DEF Calls, AloneOK
    <2>2. ASSUME NEW d \in Peers, d # c, call[d].alone, call[d].pc \in {"raft", "list", "send", "tell", "reset"}
          PROVE  LastOf(log', call[d].peer) = TypeOf(call[d].op)
      <3>1. call[d].op # "none"
        BY <2>2 DEF CallOK
      <3>2. call[d].peer # call[c].peer
        BY <2>1, <2>2, <3>1
      <3> QED
        BY <1>5, <2>2, <3>2 DEF Calls, ProgressOK
    <2> QED
      BY <1>4, <2>2 DEF Calls, ProgressOK, GoesTo
  <1>9. Acked'
    <2>1. known[call[c].peer] = "open"
      BY DEF Calls, OpenOK
    <2> QED
      BY <1>5, <2>1 DEF Calls, Acked
  <1> QED
    BY <1>6, <1>8, <1>9 DEF Calls

(* Raft's peer set changes, or not; the call goes on if it is as wanted. *)
LEMMA CallsRaft ==
    ASSUME CallOK, Calls, NEW c \in Peers, NEW pc, GoesTo(c, pc), call[c].pc = "raft",
           UNCHANGED <<log, known>>,
           \A x : x # call[c].peer => (x \in raftPeers' <=> x \in raftPeers),
           \/ pc \in {"commit", "failed"}
           \/ pc = "list" /\ call[c].peer \in raftPeers'
           \/ pc \in {"tell", "reset"} /\ call[c].peer \notin raftPeers'
    PROVE  Calls'
  <1>1. AloneOK' /\ OpenOK'
    BY DEF Calls, AloneOK, OpenOK, GoesTo
  <1>2. call[c].op # "none"
    BY DEF CallOK
  <1>3. ProgressOK'
    <2>1. ASSUME NEW d \in Peers, d # c, call[d].alone, call[d].pc \in {"list", "send", "tell", "reset"}
          PROVE  call[d].peer \in raftPeers' <=> call[d].peer \in raftPeers
      <3>1. call[d].op # "none"
        BY <2>1 DEF CallOK
      <3>2. call[d].peer # call[c].peer
        BY <1>2, <2>1, <3>1 DEF Calls, AloneOK
      <3> QED
        BY <3>2
    <2> QED
      BY <2>1 DEF Calls, ProgressOK, GoesTo
  <1>4. Acked'
    <2>1. known[call[c].peer] = "open"
      BY DEF Calls, OpenOK
    <2> QED
      BY <2>1 DEF Calls, Acked
  <1> QED
    BY <1>1, <1>3, <1>4 DEF Calls

(* The call succeeds. *)
LEMMA CallsEstablish ==
    ASSUME CallOK, HistOK, Calls, NEW c \in Peers, NEW what, Returns(c) \/ GoesTo(c, "stop"), Establish(c, what),
           UNCHANGED <<log, raftPeers>>,
           \/ what = "in" /\ call[c].pc = "send"
           \/ what = "out" /\ call[c].pc \in {"tell", "reset"}
    PROVE  Calls' /\ known' \in [Peers -> Marks]
  <1>0. call[c].peer \in Peers /\ call[c].op # "none"
    BY DEF CallOK, Call
  <1>1. AloneOK'
    BY DEF Calls, AloneOK, GoesTo, Returns
  <1>2. /\ \A x \in Peers : x # call[c].peer => known'[x] = known[x]
        /\ known'[call[c].peer] = IF call[c].alone THEN what ELSE "open"
        /\ known' \in [Peers -> Marks]
    BY <1>0 DEF Establish, HistOK, Marks
  <1>3. OpenOK'
    <2>1. ASSUME NEW d \in Peers, d # c, call[d].pc \notin {"none", "stop"}
          PROVE  known'[call[d].peer] = "open"
      <3>1. call[d].op # "none" /\ call[d].peer \in Peers
        BY <2>1 DEF CallOK, Call
      <3>2. CASE call[d].peer = call[c].peer
        <4>1. ~call[c].alone
          BY <1>0, <2>1, <3>1, <3>2 DEF Calls, AloneOK
        <4> QED
          BY <1>2, <3>2, <4>1
      <3>3. CASE call[d].peer # call[c].peer
        BY <1>2, <2>1, <3>1, <3>3 DEF Calls, OpenOK
      <3> QED
        BY <3>2, <3>3
    <2> QED
      BY <2>1 DEF OpenOK, GoesTo, Returns
  <1>4. ProgressOK'
    BY DEF Calls, ProgressOK, GoesTo, Returns
  <1>5. Acked'
    <2>1. call[c].alone /\ what = "in" => call[c].peer \in raftPeers /\ LastOf(log, call[c].peer) # "LogOpRmPeer"
      BY DEF Calls, ProgressOK, CallOK, TypeOf
    <2>2. call[c].alone /\ what = "out" => call[c].peer \notin raftPeers /\ LastOf(log, call[c].peer) = "LogOpRmPeer"
      BY DEF Calls, ProgressOK, CallOK, TypeOf
    <2> QED
      BY <1>2, <2>1, <2>2 DEF Calls, Acked
  <1> QED
    BY <1>1, <1>2, <1>3, <1>4, <1>5 DEF Calls

(* A call that begins makes what is known of its peer open. *)
LEMMA CallsBegin ==
    ASSUME CallOK, HistOK, Calls, NEW c \in Peers, NEW x \in Peers, NEW op \in Ops \ {"none"},
           NEW pc \in {"ping", "commit"}, Starts(c, op, x, pc), known' = [known EXCEPT ![x] = "open"],
           call[c].op = "none", UNCHANGED <<log, raftPeers>>
    PROVE  Calls' /\ known' \in [Peers -> Marks]
  <1>1. /\ \A y \in Peers : y # x => known'[y] = known[y]
        /\ known'[x] = "open"
        /\ known' \in [Peers -> Marks]
    BY DEF HistOK, Marks
  <1>2. AloneOK'
    BY DEF Calls, AloneOK, Starts
  <1>3. OpenOK'
    <2>1. \A d \in Peers : call[d].peer \in Peers
      BY DEF CallOK, Call
    <2> QED
      BY <1>1, <2>1 DEF Calls, OpenOK, Starts
  <1>4. ProgressOK'
    BY DEF Calls, ProgressOK, Starts
  <1>5. Acked'
    BY <1>1 DEF Calls, Acked
  <1> QED
    BY <1>1, <1>2, <1>3, <1>4, <1>5 DEF Calls

-----------------------------------------------------------------------------
(* What a reset peermap holds.                                             *)

(* A reset peer stays as it is while the calls that try to add it go on. *)
LEMMA ResetSame ==
    ASSUME ResetOK, UNCHANGED peermap, relisted \subseteq relisted',
           \A x \in Peers : node'[x] = "reset" => node[x] = "reset" /\ Trying(x) \subseteq (Trying(x))'
    PROVE  ResetOK'
  BY DEF ResetOK

(* A call that tries to add a peer goes on trying. *)
LEMMA TryingGoes ==
    ASSUME NEW c \in Peers, NEW pc, GoesTo(c, pc),
           \/ pc \in {"commit", "failed"}
           \/ call[c].pc \notin {"ping", "commit", "failed"}
    PROVE  \A x \in Peers : Trying(x) \subseteq (Trying(x))'
  BY DEF Trying, GoesTo

(* Only a call that has failed to add a peer stops trying. *)
LEMMA TryingReturns ==
    ASSUME NEW c \in Peers, Returns(c),
           call[c].op # "add" \/ call[c].pc \notin {"ping", "commit", "failed"}
    PROVE  \A x \in Peers : Trying(x) \subseteq (Trying(x))'
  BY DEF Trying, Returns

(* A new call takes nothing from the others. *)
LEMMA TryingStarts ==
    ASSUME NEW c \in Peers, NEW op, NEW x, NEW pc, Starts(c, op, x, pc), call[c].op = "none"
    PROVE  \A y \in Peers : Trying(y) \subseteq (Trying(y))'
  BY DEF Trying, Starts

-----------------------------------------------------------------------------
(* What most steps leave alone.                                            *)

(* A step that leaves Raft alone. *)
LEMMA LogSame ==
    ASSUME LogOK, UNCHANGED raftVars
    PROVE  LogOK'
  BY DEF LogOK, raftVars

(* A commit, or one that was lost. *)
LEMMA LogAppended ==
    ASSUME LogOK, CallOK, NEW c \in Peers, log' \in {log, Append(log, OpOf(c))},
           UNCHANGED <<raftPeers, reach, applied, snap>>
    PROVE  LogOK'
  <1>1. OpOf(c) \in Op
    BY DEF CallOK, Call, OpOf, Op
  <1>2. log' \in Seq(Op) /\ Len(log') \in Nat /\ Len(log) \in Nat /\ Len(log) <= Len(log')
    <2>1. PICK o \in Op : o = OpOf(c)
      BY <1>1
    <2>2. log \in Seq(Op)
      BY DEF LogOK
    <2>3. CASE log' = log
      BY <2>2, <2>3
    <2>4. CASE log' = Append(log, o)
      <3>1. log' \in Seq(Op) /\ Len(log') = Len(log) + 1
        BY <2>2, <2>4
      <3> QED
        BY <2>2, <3>1
    <2> QED
      BY <2>1, <2>3, <2>4
  <1> QED
    BY <1>2 DEF LogOK

(* A step that changes no peer. *)
LEMMA PeersSame ==
    ASSUME PeersOK, UNCHANGED peerVars
    PROVE  PeersOK'
  BY DEF PeersOK, peerVars

(* A bounded event happens once less. *)
LEMMA Spent ==
    ASSUME HistOK, NEW kind \in {"calls", "faults", "starts"}, Spend(kind)
    PROVE  left' \in [{"calls", "faults", "starts"} -> Nat]
  <1>1. left[kind] \in Nat /\ left[kind] > 0
    BY DEF HistOK, Spend
  <1>2. left[kind] - 1 \in Nat
    BY <1>1
  <1> QED
    BY <1>2 DEF HistOK, Spend

(* A step that leaves the history alone, bounded or not. *)
LEMMA HistSame ==
    ASSUME HistOK, UNCHANGED histVars, left' = left \/ Spend("calls") \/ Spend("faults") \/ Spend("starts")
    PROVE  HistOK'
  <1>1. left' \in [{"calls", "faults", "starts"} -> Nat]
    BY Spent DEF HistOK
  <1> QED
    BY <1>1 DEF HistOK, histVars

-----------------------------------------------------------------------------
(* LogAddPeer and LogRmPeer.                                               *)

(* The operation is committed, and the loop goes on to Raft's peer set. *)
LEMMA CommitOpStep ==
    ASSUME Inv, NEW c \in Peers, CommitOp(c)
    PROVE  Inv'
  <1>0. LogOK /\ PeersOK /\ HistOK /\ CallOK /\ Calls /\ ResetOK
    BY DEF Inv
  <1>1. CallOK' /\ GoesTo(c, "raft")
    BY <1>0, StepGoes DEF CommitOp, Pcs
  <1>2. LogOK' /\ PeersOK' /\ HistOK'
    BY <1>0, LogAppended, PeersSame, HistSame DEF CommitOp
  <1>3. Calls'
    BY <1>0, <1>1, CallsCommit DEF CommitOp, histVars
  <1>4. ResetOK'
    <2>1. node[c] # "reset" /\ UNCHANGED <<node, peermap, relisted>>
      BY DEF CommitOp, CanCommit, RaftRuns, peerVars, histVars
    <2>2. \A x \in Peers : x # c => Trying(x) = (Trying(x))'
      BY <1>1 DEF Trying, GoesTo
    <2> QED
      BY <1>0, <2>1, <2>2, ResetSame
  <1> QED
    BY <1>1, <1>2, <1>3, <1>4 DEF Inv

(* The commit fails, having taken effect or not, and is tried again. *)
LEMMA CommitFailsStep ==
    ASSUME Inv, NEW c \in Peers, CommitFails(c)
    PROVE  Inv'
  <1>0. LogOK /\ PeersOK /\ HistOK /\ CallOK /\ Calls /\ ResetOK
    BY DEF Inv
  <1>1. /\ call[c].pc = "commit" /\ NextTry(c)
        /\ UNCHANGED <<raftPeers, reach, applied, snap, node, peermap, saved, unsaved, trouble, known, relisted>>
        /\ log' \in {log, Append(log, OpOf(c))}
        /\ left' = left \/ Spend("faults")
    BY DEF CommitFails, peerVars, histVars
  <1>2. CallOK' /\ (GoesTo(c, "commit") \/ GoesTo(c, "failed"))
    BY <1>0, <1>1, NextTryGoes
  <1>3. LogOK' /\ PeersOK' /\ HistOK'
    BY <1>0, <1>1, LogAppended, PeersSame, HistSame DEF peerVars, histVars
  <1>4. Calls'
    <2>1. CASE log' = log
      BY <1>0, <1>1, <1>2, <2>1, CallsGo
    <2>2. CASE log' = Append(log, OpOf(c))
      BY <1>0, <1>1, <1>2, <2>2, CallsCommit
    <2> QED
      BY <1>1, <2>1, <2>2
  <1>5. ResetOK'
    BY <1>0, <1>1, <1>2, TryingGoes, ResetSame
  <1> QED
    BY <1>2, <1>3, <1>4, <1>5 DEF Inv

(* What ChangePeers, or its absence, leaves. *)
LEMMA PeerSetGoes ==
    ASSUME LogOK, CallOK, NEW c \in Peers, ChangePeers(c) \/ UNCHANGED <<raftPeers, reach>>,
           UNCHANGED <<log, applied, snap>>
    PROVE  LogOK' /\ \A x : x # call[c].peer => (x \in raftPeers' <=> x \in raftPeers)
  <1>1. call[c].peer \in Peers /\ Len(log) \in Nat
    BY DEF CallOK, Call, LogOK
  <1>2. CASE ChangePeers(c) /\ call[c].op = "add"
    <2>1. raftPeers' = raftPeers \cup {call[c].peer} /\ reach' = reach
      BY <1>2 DEF ChangePeers
    <2> QED
      BY <1>1, <2>1 DEF LogOK
  <1>3. CASE ChangePeers(c) /\ call[c].op # "add"
    <2>1. raftPeers' = raftPeers \ {call[c].peer} /\ reach' = [reach EXCEPT ![call[c].peer] = Len(log)]
      BY <1>3 DEF ChangePeers
    <2>2. reach' \in [Peers -> Nat] /\ \A p \in Peers : reach'[p] <= Len(log)
      BY <1>1, <2>1 DEF LogOK
    <2> QED
      BY <1>1, <2>1, <2>2 DEF LogOK
  <1>4. CASE UNCHANGED <<raftPeers, reach>>
    BY <1>4 DEF LogOK
  <1> QED
    BY <1>2, <1>3, <1>4

(* Raft's peer set changes, and the loop of LogAddPeer or LogRmPeer is over. *)
LEMMA RaftChangeStep ==
    ASSUME Inv, NEW c \in Peers, RaftChange(c)
    PROVE  Inv'
  <1>0. LogOK /\ PeersOK /\ HistOK /\ CallOK /\ Calls /\ ResetOK
    BY DEF Inv
  <1>1. /\ call[c].pc = "raft" /\ Committed(c)
        /\ UNCHANGED <<log, applied, snap, node, peermap, saved, left, unsaved, trouble, known, relisted>>
        /\ \/ NoChange(c) /\ UNCHANGED <<raftPeers, reach>>
           \/ ~NoChange(c) /\ ChangePeers(c)
    BY DEF RaftChange, peerVars, histVars
  <1>2. call[c].op \in {"add", "rm", "leave"}
    BY <1>0, <1>1 DEF CallOK, Call, Ops
  <1>3. PICK pc \in {"list", "tell", "reset"} :
           /\ Step(c, pc)
           /\ pc = "list" <=> call[c].op = "add"
           /\ pc = "tell" <=> call[c].op = "rm"
           /\ pc = "reset" <=> call[c].op = "leave"
    <2>1. CASE call[c].op = "add"
      BY <1>1, <2>1 DEF Committed
    <2>2. CASE call[c].op = "rm"
      BY <1>1, <2>2 DEF Committed
    <2>3. CASE call[c].op = "leave"
      BY <1>1, <2>3 DEF Committed
    <2> QED
      BY <1>2, <2>1, <2>2, <2>3
  <1>4. CallOK' /\ GoesTo(c, pc)
    BY <1>0, <1>1, <1>3, StepGoes DEF Pcs
  <1>5. LogOK' /\ \A x : x # call[c].peer => (x \in raftPeers' <=> x \in raftPeers)
    BY <1>0, <1>1, PeerSetGoes
  <1>6. PeersOK' /\ HistOK'
    BY <1>0, <1>1, PeersSame, HistSame DEF peerVars, histVars
  <1>7. call[c].peer \in raftPeers' <=> call[c].op = "add"
    BY <1>1 DEF NoChange, hasPeer, ChangePeers
  <1>8. Calls'
    BY <1>0, <1>1, <1>3, <1>4, <1>5, <1>7, CallsRaft
  <1>9. ResetOK'
    BY <1>0, <1>1, <1>4, TryingGoes, ResetSame
  <1> QED
    BY <1>4, <1>5, <1>6, <1>8, <1>9 DEF Inv

(* Changing Raft's peer set fails, having taken effect or not. *)
LEMMA RaftChangeFailsStep ==
    ASSUME Inv, NEW c \in Peers, RaftChangeFails(c)
    PROVE  Inv'
  <1>0. LogOK /\ PeersOK /\ HistOK /\ CallOK /\ Calls /\ ResetOK
    BY DEF Inv
  <1>1. /\ call[c].pc = "raft" /\ NextTry(c)
        /\ UNCHANGED <<log, applied, snap, node, peermap, saved, unsaved, trouble, known, relisted>>
        /\ UNCHANGED <<raftPeers, reach>> \/ ChangePeers(c)
        /\ left' = left \/ Spend("faults")
    BY DEF RaftChangeFails, AfterRaftError, peerVars, histVars
  <1>2. CallOK' /\ (GoesTo(c, "commit") \/ GoesTo(c, "failed"))
    BY <1>0, <1>1, NextTryGoes
  <1>3. LogOK' /\ \A x : x # call[c].peer => (x \in raftPeers' <=> x \in raftPeers)
    BY <1>0, <1>1, PeerSetGoes
  <1>4. PeersOK' /\ HistOK'
    BY <1>0, <1>1, PeersSame, HistSame DEF peerVars, histVars
  <1>5. Calls'
    BY <1>0, <1>1, <1>2, <1>3, CallsRaft
  <1>6. ResetOK'
    BY <1>0, <1>1, <1>2, TryingGoes, ResetSame
  <1> QED
    BY <1>2, <1>3, <1>4, <1>5, <1>6 DEF Inv

-----------------------------------------------------------------------------
(* Peer maps and processes.                                                *)

(* One peer's map is replaced. *)
LEMMA MapGoes ==
    ASSUME PeersOK, NEW p \in Peers, NEW S \in SUBSET Peers, peermap' = [peermap EXCEPT ![p] = S]
    PROVE  /\ peermap' \in [Peers -> SUBSET Peers]
           /\ peermap'[p] = S /\ \A q \in Peers : q # p => peermap'[q] = peermap[q]
  BY DEF PeersOK

(* One peer's process moves. *)
LEMMA NodeGoes ==
    ASSUME PeersOK, NEW x \in Peers, NEW v \in Nodes, node' = [node EXCEPT ![x] = v]
    PROVE  /\ node' \in [Peers -> Nodes]
           /\ node'[x] = v /\ \A q \in Peers : q # x => node'[q] = node[q]
  BY DEF PeersOK

(* An answer lets a joining peer go on; it never makes one reset. *)
LEMMA AnsweredGoes ==
    ASSUME PeersOK, CallOK, NEW c \in Peers, NEW ok \in BOOLEAN, Answered(c, ok)
    PROVE  /\ node' \in [Peers -> Nodes]
           /\ \A x \in Peers : node'[x] = "reset" => node[x] = "reset"
  <1>1. PICK x \in Peers : x = call[c].peer
    BY DEF CallOK, Call
  <1>2. PICK v : v = CASE c = Contact /\ node[x] = "join2" -> "boot1"
                       [] c = Contact /\ node[x] = "join1" -> IF ok THEN "up" ELSE "failed"
                       [] OTHER -> node[x]
    OBVIOUS
  <1>3. v \in Nodes /\ (v = "reset" => node[x] = "reset")
    <2>1. node[x] \in Nodes
      BY DEF PeersOK
    <2>2. CASE c = Contact /\ node[x] = "join2"
      BY <1>2, <2>2 DEF Nodes
    <2>3. CASE c = Contact /\ node[x] = "join1"
      BY <1>2, <2>3 DEF Nodes
    <2>4. CASE ~(c = Contact /\ node[x] = "join2") /\ ~(c = Contact /\ node[x] = "join1")
      BY <1>2, <2>1, <2>4
    <2> QED
      BY <2>2, <2>3, <2>4
  <1>4. node' = [node EXCEPT ![x] = v]
    BY <1>1, <1>2 DEF Answered
  <1> QED
    BY <1>3, <1>4, NodeGoes

(* The types of the peers from those of their parts. *)
LEMMA PeersGo ==
    ASSUME PeersOK, node' \in [Peers -> Nodes], peermap' \in [Peers -> SUBSET Peers], UNCHANGED saved
    PROVE  PeersOK'
  BY DEF PeersOK

-----------------------------------------------------------------------------
(* Cluster.PeerAdd.                                                        *)

(* PeerAdd adds the newcomer to the caller's own map. *)
LEMMA PeerAddStep ==
    ASSUME Inv, NEW c \in Peers, NEW x \in Peers, PeerAdd(c, x)
    PROVE  Inv'
  <1>0. LogOK /\ PeersOK /\ HistOK /\ CallOK /\ Calls /\ ResetOK
    BY DEF Inv
  <1>1. /\ call[c].op = "none" /\ Begin(c, "add", x, "ping") /\ addPeer(c, x)
        /\ left' = left \/ Spend("calls")
        /\ UNCHANGED <<log, raftPeers, reach, applied, snap, node, saved, unsaved, relisted>>
    BY DEF PeerAdd, raftVars
  <1>2. CallOK' /\ Starts(c, "add", x, "ping")
    BY <1>0, <1>1, BeginGoes DEF Ops
  <1>3. LogOK'
    BY <1>0, <1>1, LogSame DEF raftVars
  <1>4. Calls' /\ known' \in [Peers -> Marks]
    BY <1>0, <1>1, <1>2, CallsBegin DEF Begin, Ops
  <1>5. PICK S \in SUBSET Peers : S = peermap[c] \cup {x}
    BY <1>0 DEF PeersOK
  <1>6. peermap' = [peermap EXCEPT ![c] = S]
    BY <1>1, <1>5 DEF addPeer, addFromMultiaddrs
  <1>7. /\ peermap' \in [Peers -> SUBSET Peers]
        /\ peermap'[c] = S /\ \A q \in Peers : q # c => peermap'[q] = peermap[q]
    BY <1>0, <1>6, MapGoes
  <1>8. PeersOK'
    BY <1>0, <1>1, <1>7 DEF PeersOK
  <1>9. HistOK'
    <2>1. left' \in [{"calls", "faults", "starts"} -> Nat]
      BY <1>0, <1>1, Spent DEF HistOK
    <2>2. trouble' \in BOOLEAN
      BY <1>1 DEF Begin
    <2> QED
      BY <1>0, <1>1, <1>4, <2>1, <2>2 DEF HistOK
  <1>10. ResetOK'
    <2>1. Trying(c) = {} /\ (Trying(c))' = {x}
      BY <1>1, <1>2 DEF Trying, Starts
    <2>2. \A y \in Peers : Trying(y) \subseteq (Trying(y))'
      BY <1>1, <1>2, TryingStarts
    <2> QED
      BY <1>0, <1>1, <1>5, <1>7, <2>1, <2>2 DEF ResetOK
  <1> QED
    BY <1>2, <1>3, <1>4, <1>8, <1>9, <1>10 DEF Inv

(* The newcomer answers, or does not. *)
LEMMA PingStep ==
    ASSUME Inv, NEW c \in Peers, Ping(c)
    PROVE  Inv'
  <1>0. LogOK /\ PeersOK /\ HistOK /\ CallOK /\ Calls /\ ResetOK
    BY DEF Inv
  <1>1. /\ call[c].pc = "ping" /\ (Step(c, "commit") \/ Step(c, "failed"))
        /\ left' = left \/ Spend("faults")
        /\ UNCHANGED <<raftVars, peerVars, histVars>>
    BY DEF Ping
  <1>2. PICK pc \in {"commit", "failed"} : Step(c, pc)
    BY <1>1
  <1>3. CallOK' /\ GoesTo(c, pc)
    BY <1>0, <1>1, <1>2, StepGoes DEF Pcs
  <1>4. LogOK' /\ PeersOK' /\ HistOK'
    BY <1>0, <1>1, LogSame, PeersSame, HistSame
  <1>5. Calls'
    BY <1>0, <1>1, <1>3, CallsGo DEF raftVars, histVars
  <1>6. ResetOK'
    BY <1>0, <1>1, <1>3, TryingGoes, ResetSame DEF peerVars, histVars
  <1> QED
    BY <1>3, <1>4, <1>5, <1>6 DEF Inv

(* PeerAdd rolls back its own map. *)
LEMMA PeerAddFailsStep ==
    ASSUME Inv, NEW c \in Peers, PeerAddFails(c)
    PROVE  Inv'
  <1>0. LogOK /\ PeersOK /\ HistOK /\ CallOK /\ Calls /\ ResetOK
    BY DEF Inv
  <1>1. /\ call[c].pc = "failed" /\ call[c].op = "add" /\ Return(c) /\ Trouble /\ Answered(c, FALSE)
        /\ rmPeer(c, call[c].peer)
        /\ UNCHANGED <<log, raftPeers, reach, applied, snap, saved, left, unsaved, known, relisted>>
    BY DEF PeerAddFails, raftVars
  <1>2. CallOK' /\ Returns(c)
    BY <1>0, <1>1, ReturnGoes DEF Return
  <1>3. LogOK'
    BY <1>0, <1>1, LogSame DEF raftVars
  <1>4. Calls'
    BY <1>0, <1>1, <1>2, CallsEnd
  <1>5. node' \in [Peers -> Nodes] /\ \A x \in Peers : node'[x] = "reset" => node[x] = "reset"
    BY <1>0, <1>1, AnsweredGoes
  <1>6. PICK S \in SUBSET Peers : S = peermap[c] \ {call[c].peer}
    BY <1>0 DEF PeersOK
  <1>7. peermap' = [peermap EXCEPT ![c] = S]
    BY <1>1, <1>6 DEF rmPeer
  <1>8. /\ peermap' \in [Peers -> SUBSET Peers]
        /\ peermap'[c] = S /\ \A q \in Peers : q # c => peermap'[q] = peermap[q]
    BY <1>0, <1>7, MapGoes
  <1>9. PeersOK' /\ HistOK'
    BY <1>0, <1>1, <1>5, <1>8, PeersGo DEF HistOK, Trouble
  <1>10. ResetOK'
    <2>1. Trying(c) = {call[c].peer} /\ \A y \in Peers : y # c => Trying(y) = (Trying(y))'
      BY <1>1, <1>2 DEF Trying, Returns
    <2>2. ASSUME NEW x \in Peers, node'[x] = "reset", x \notin relisted'
          PROVE  peermap'[x] \subseteq {x} \cup (Trying(x))'
      <3>1. peermap[x] \subseteq {x} \cup Trying(x)
        BY <1>0, <1>1, <1>5, <2>2 DEF ResetOK
      <3>2. CASE x = c
        BY <1>6, <1>8, <2>1, <3>1, <3>2
      <3>3. CASE x # c
        BY <1>8, <2>1, <3>1, <3>3
      <3> QED
        BY <3>2, <3>3
    <2> QED
      BY <2>2 DEF ResetOK
  <1> QED
    BY <1>2, <1>3, <1>4, <1>9, <1>10 DEF Inv

(* The list for the newcomer is read. *)
LEMMA MakeListStep ==
    ASSUME Inv, NEW c \in Peers, MakeList(c)
    PROVE  Inv'
  <1>0. LogOK /\ PeersOK /\ HistOK /\ CallOK /\ Calls /\ ResetOK
    BY DEF Inv
  <1>1. /\ call[c].pc = "list" /\ UNCHANGED <<raftVars, peerVars, left, histVars>>
        /\ call' = [call EXCEPT ![c].pc = "send", ![c].list = ListFor(c)]
    BY DEF MakeList
  <1>2. PICK S \in SUBSET Peers : S = ListFor(c)
    BY <1>0 DEF ListFor, peersAddrs, PeersOK
  <1>3. call[c] \in Call /\ call[c].op = "add"
    BY <1>0, <1>1 DEF CallOK
  <1>4. PICK k : k = [[call[c] EXCEPT !.pc = "send"] EXCEPT !.list = S]
    OBVIOUS
  <1>5. /\ k \in Call /\ k.pc = "send" /\ k.op = call[c].op
        /\ k.peer = call[c].peer /\ k.alone = call[c].alone
    BY <1>3, <1>4 DEF Call, Pcs
  <1>6. call' = [call EXCEPT ![c] = k]
    BY <1>1, <1>2, <1>3, <1>4
  <1>7. CallOK' /\ call'[c] = k /\ \A d \in Peers : d # c => call'[d] = call[d]
    BY <1>0, <1>3, <1>5, <1>6, OneCall
  <1>8. GoesTo(c, "send")
    BY <1>5, <1>7 DEF GoesTo
  <1>9. LogOK' /\ PeersOK' /\ HistOK'
    BY <1>0, <1>1, LogSame, PeersSame, HistSame
  <1>10. Calls'
    BY <1>0, <1>1, <1>8, CallsGo DEF raftVars, histVars
  <1>11. ResetOK'
    BY <1>0, <1>1, <1>8, TryingGoes, ResetSame DEF peerVars, histVars
  <1> QED
    BY <1>7, <1>9, <1>10, <1>11 DEF Inv

(* The list is added to the newcomer's map, and PeerAdd is acknowledged. *)
LEMMA SendListStep ==
    ASSUME Inv, NEW c \in Peers, SendList(c)
    PROVE  Inv'
  <1>0. LogOK /\ PeersOK /\ HistOK /\ CallOK /\ Calls /\ ResetOK
    BY DEF Inv
  <1>1. /\ call[c].pc = "send" /\ Answered(c, TRUE) /\ Establish(c, "in") /\ Return(c)
        /\ UNCHANGED <<log, raftPeers, reach, applied, snap, saved>>
        /\ left' = left \/ Spend("faults")
        /\ trouble' = trouble \/ Trouble
        /\ unsaved' \subseteq unsaved \cup {call[c].peer}
    BY DEF SendList, raftVars
  <1>2. \/ /\ addFromMultiaddrs(call[c].peer, call[c].list)
           /\ relisted' = relisted \cup {call[c].peer}
        \/ UNCHANGED <<peermap, relisted>>
    BY DEF SendList
  <1>3. call[c].peer \in Peers /\ call[c].list \in SUBSET Peers
    BY <1>0 DEF CallOK, Call
  <1>4. CallOK' /\ Returns(c)
    BY <1>0, <1>1, ReturnGoes DEF Return
  <1>5. LogOK'
    BY <1>0, <1>1, LogSame DEF raftVars
  <1>6. Calls' /\ known' \in [Peers -> Marks]
    BY <1>0, <1>1, <1>4, CallsEstablish
  <1>7. node' \in [Peers -> Nodes] /\ \A x \in Peers : node'[x] = "reset" => node[x] = "reset"
    BY <1>0, <1>1, AnsweredGoes
  <1>8. \A x \in Peers : Trying(x) \subseteq (Trying(x))'
    BY <1>1, <1>4, TryingReturns
  <1>9. /\ peermap' \in [Peers -> SUBSET Peers] /\ relisted' \subseteq Peers
        /\ ResetOK'
    <2>1. CASE UNCHANGED <<peermap, relisted>>
      BY <1>0, <1>7, <1>8, <2>1, ResetSame DEF PeersOK, HistOK
    <2>2. CASE /\ addFromMultiaddrs(call[c].peer, call[c].list)
               /\ relisted' = relisted \cup {call[c].peer}
      <3>1. PICK x \in Peers : x = call[c].peer
        BY <1>3
      <3>2. PICK S \in SUBSET Peers : S = peermap[x] \cup call[c].list
        BY <1>0, <1>3 DEF PeersOK
      <3>3. peermap' = [peermap EXCEPT ![x] = S]
        BY <2>2, <3>1, <3>2 DEF addFromMultiaddrs
      <3>4. /\ peermap' \in [Peers -> SUBSET Peers]
            /\ \A q \in Peers : q # x => peermap'[q] = peermap[q]
        BY <1>0, <3>3, MapGoes
      <3>5. relisted' \subseteq Peers /\ x \in relisted' /\ relisted \subseteq relisted'
        BY <1>0, <2>2, <3>1 DEF HistOK
      <3> QED
        BY <1>0, <1>7, <1>8, <3>4, <3>5 DEF ResetOK
    <2> QED
      BY <1>2, <2>1, <2>2
  <1>10. PeersOK'
    BY <1>0, <1>1, <1>7, <1>9, PeersGo
  <1>11. HistOK'
    <2>1. left' \in [{"calls", "faults", "starts"} -> Nat]
      BY <1>0, <1>1, Spent DEF HistOK
    <2> QED
      BY <1>0, <1>1, <1>3, <1>6, <1>9, <2>1 DEF HistOK, Trouble
  <1> QED
    BY <1>4, <1>5, <1>6, <1>9, <1>10, <1>11 DEF Inv

-----------------------------------------------------------------------------
(* Cluster.PeerRemove and leaving.                                         *)

(* PeerRemove and Leave. *)
LEMMA RemovalStarts ==
    ASSUME Inv, NEW c \in Peers, NEW x \in Peers, NEW op \in {"rm", "leave"},
           call[c].op = "none", Begin(c, op, x, "commit"), Spend("calls"),
           UNCHANGED <<raftVars, peerVars, unsaved, relisted>>
    PROVE  Inv'
  <1>0. LogOK /\ PeersOK /\ HistOK /\ CallOK /\ Calls /\ ResetOK
    BY DEF Inv
  <1>1. CallOK' /\ Starts(c, op, x, "commit")
    BY <1>0, BeginGoes DEF Ops
  <1>2. LogOK' /\ PeersOK'
    BY <1>0, LogSame, PeersSame
  <1>3. Calls' /\ known' \in [Peers -> Marks]
    BY <1>0, <1>1, CallsBegin DEF Begin, Ops, raftVars
  <1>4. HistOK'
    <2>1. left' \in [{"calls", "faults", "starts"} -> Nat]
      BY <1>0, Spent
    <2>2. trouble' \in BOOLEAN
      BY DEF Begin
    <2> QED
      BY <1>0, <1>3, <2>1, <2>2 DEF HistOK
  <1>5. ResetOK'
    BY <1>0, <1>1, TryingStarts, ResetSame DEF peerVars
  <1> QED
    BY <1>1, <1>2, <1>3, <1>4, <1>5 DEF Inv

(* The tries of a removal are used up. *)
LEMMA PeerRemoveFailsStep ==
    ASSUME Inv, NEW c \in Peers, PeerRemoveFails(c)
    PROVE  Inv'
  <1>0. LogOK /\ PeersOK /\ HistOK /\ CallOK /\ Calls /\ ResetOK
    BY DEF Inv
  <1>1. /\ call[c].op = "rm" /\ Return(c) /\ Trouble
        /\ UNCHANGED <<raftVars, peerVars, left, unsaved, known, relisted>>
    BY DEF PeerRemoveFails
  <1>2. CallOK' /\ Returns(c)
    BY <1>0, <1>1, ReturnGoes DEF Return
  <1>3. LogOK' /\ PeersOK' /\ HistOK'
    BY <1>0, <1>1, LogSame, PeersSame DEF HistOK, Trouble
  <1>4. Calls'
    BY <1>0, <1>1, <1>2, CallsEnd DEF raftVars
  <1>5. ResetOK'
    BY <1>0, <1>1, <1>2, TryingReturns, ResetSame DEF peerVars
  <1> QED
    BY <1>2, <1>3, <1>4, <1>5 DEF Inv

(* The removed peer is told to stop. *)
LEMMA TellRemovedStep ==
    ASSUME Inv, NEW c \in Peers, TellRemoved(c)
    PROVE  Inv'
  <1>0. LogOK /\ PeersOK /\ HistOK /\ CallOK /\ Calls /\ ResetOK
    BY DEF Inv
  <1>1. PICK x \in Peers : x = call[c].peer
    BY <1>0 DEF CallOK, Call
  <1>2. /\ call[c].pc = "tell" /\ Establish(c, "out") /\ Return(c)
        /\ UNCHANGED <<log, raftPeers, reach, applied, snap, saved, unsaved, trouble, relisted>>
        /\ left' = left \/ Spend("faults")
        /\ \/ /\ rmPeer(x, x)
              /\ node' = [node EXCEPT ![x] = IF RaftRuns(x) THEN "removed" ELSE @]
           \/ UNCHANGED <<peermap, node>>
    BY <1>1 DEF TellRemoved, raftVars
  <1>3. CallOK' /\ Returns(c)
    BY <1>0, <1>2, ReturnGoes DEF Return
  <1>4. LogOK'
    BY <1>0, <1>2, LogSame DEF raftVars
  <1>5. Calls' /\ known' \in [Peers -> Marks]
    BY <1>0, <1>2, <1>3, CallsEstablish
  <1>6. \A y \in Peers : Trying(y) \subseteq (Trying(y))'
    BY <1>2, <1>3, TryingReturns
  <1>7. PeersOK' /\ ResetOK'
    <2>1. CASE UNCHANGED <<peermap, node>>
      BY <1>0, <1>2, <1>6, <2>1, PeersSame, ResetSame DEF peerVars
    <2>2. CASE /\ rmPeer(x, x)
               /\ node' = [node EXCEPT ![x] = IF RaftRuns(x) THEN "removed" ELSE @]
      <3>1. PICK v \in Nodes : v = IF RaftRuns(x) THEN "removed" ELSE node[x]
        BY <1>0 DEF PeersOK, Nodes
      <3>2. node' = [node EXCEPT ![x] = v]
        BY <2>2, <3>1
      <3>3. node' \in [Peers -> Nodes] /\ node'[x] = v /\ \A q \in Peers : q # x => node'[q] = node[q]
        BY <1>0, <3>2, NodeGoes
      <3>4. \A q \in Peers : node'[q] = "reset" => node[q] = "reset"
        BY <3>1, <3>3
      <3>5. PICK S \in SUBSET Peers : S = peermap[x] \ {x}
        BY <1>0 DEF PeersOK
      <3>6. peermap' = [peermap EXCEPT ![x] = S]
        BY <2>2, <3>5 DEF rmPeer
      <3>7. /\ peermap' \in [Peers -> SUBSET Peers]
            /\ peermap'[x] = S /\ \A q \in Peers : q # x => peermap'[q] = peermap[q]
        BY <1>0, <3>6, MapGoes
      <3>8. \A q \in Peers : peermap'[q] \subseteq peermap[q]
        BY <3>5, <3>7
      <3>9. PeersOK'
        BY <1>0, <1>2, <3>3, <3>7, PeersGo
      <3>10. ASSUME NEW q \in Peers, node'[q] = "reset", q \notin relisted'
             PROVE  peermap'[q] \subseteq {q} \cup (Trying(q))'
        <4>1. peermap[q] \subseteq {q} \cup Trying(q)
          BY <1>0, <1>2, <3>4, <3>10 DEF ResetOK
        <4> QED
          BY <1>6, <3>8, <4>1
      <3> QED
        BY <3>9, <3>10 DEF ResetOK
    <2> QED
      BY <1>2, <2>1, <2>2
  <1>8. HistOK'
    <2>1. left' \in [{"calls", "faults", "starts"} -> Nat]
      BY <1>0, <1>2, Spent DEF HistOK
    <2> QED
      BY <1>0, <1>2, <1>5, <2>1 DEF HistOK
  <1> QED
    BY <1>3, <1>4, <1>5, <1>7, <1>8 DEF Inv

(* Consensus of x takes a snapshot and stops. *)
LEMMA SnapshotTaken ==
    ASSUME LogOK, NEW x \in Peers, snap' = [snap EXCEPT ![x] = applied[x]],
           UNCHANGED <<log, raftPeers, reach, applied>>
    PROVE  LogOK'
  <1>1. snap' \in [Peers -> Nat] /\ \A p \in Peers : snap'[p] <= applied[p]
    BY DEF LogOK
  <1> QED
    BY <1>1 DEF LogOK

(* The removed peer stops Raft and resets its map. *)
LEMMA RemovedStopsStep ==
    ASSUME Inv, NEW x \in Peers, RemovedStops(x)
    PROVE  Inv'
  <1>0. LogOK /\ PeersOK /\ HistOK /\ CallOK /\ Calls /\ ResetOK
    BY DEF Inv
  <1>1. LogOK'
    BY <1>0, SnapshotTaken DEF RemovedStops
  <1>2. CallOK' /\ Calls'
    BY <1>0, CallsSame DEF RemovedStops, CallOK
  <1>3. node' = [node EXCEPT ![x] = "reset"] /\ peermap' = [peermap EXCEPT ![x] = {x}]
    BY DEF RemovedStops, resetPeers
  <1>4. node' \in [Peers -> Nodes] /\ \A q \in Peers : q # x => node'[q] = node[q]
    BY <1>0, <1>3, NodeGoes DEF Nodes
  <1>5. /\ peermap' \in [Peers -> SUBSET Peers]
        /\ peermap'[x] = {x} /\ \A q \in Peers : q # x => peermap'[q] = peermap[q]
    BY <1>0, <1>3, MapGoes
  <1>6. PeersOK' /\ HistOK'
    BY <1>0, <1>4, <1>5, PeersGo DEF RemovedStops, HistOK
  <1>7. ResetOK'
    <2>1. \A q \in Peers : (Trying(q))' = Trying(q)
      BY DEF RemovedStops, Trying
    <2>2. \A q \in Peers : q # x /\ q \notin relisted' => q \notin relisted
      BY DEF RemovedStops
    <2> QED
      BY <1>0, <1>4, <1>5, <2>1, <2>2 DEF ResetOK
  <1> QED
    BY <1>1, <1>2, <1>6, <1>7 DEF Inv

(* A peer that leaves resets its own map. *)
LEMMA LeaveResetStep ==
    ASSUME Inv, NEW x \in Peers, LeaveReset(x)
    PROVE  Inv'
  <1>0. LogOK /\ PeersOK /\ HistOK /\ CallOK /\ Calls /\ ResetOK
    BY DEF Inv
  <1>1. /\ call[x].op = "leave" /\ call[x].pc \in {"reset", "failed"} /\ Step(x, "stop")
        /\ peermap' = [peermap EXCEPT ![x] = {x}]
        /\ \/ call[x].pc = "reset" /\ Establish(x, "out") /\ UNCHANGED trouble
           \/ Trouble /\ UNCHANGED known
        /\ UNCHANGED <<log, raftPeers, reach, applied, snap, node, saved, left, unsaved, relisted>>
    BY DEF LeaveReset, resetPeers, raftVars
  <1>2. CallOK' /\ GoesTo(x, "stop")
    BY <1>0, <1>1, StepGoes DEF Pcs
  <1>3. LogOK'
    BY <1>0, <1>1, LogSame DEF raftVars
  <1>4. Calls' /\ known' \in [Peers -> Marks]
    <2>1. CASE call[x].pc = "reset" /\ Establish(x, "out")
      BY <1>0, <1>1, <1>2, <2>1, CallsEstablish
    <2>2. CASE UNCHANGED known
      <3>1. AloneOK' /\ OpenOK' /\ ProgressOK' /\ Acked'
        BY <1>0, <1>1, <1>2, <2>2 DEF Calls, AloneOK, OpenOK, ProgressOK, Acked, GoesTo
      <3> QED
        BY <1>0, <2>2, <3>1 DEF Calls, HistOK
    <2> QED
      BY <1>1, <2>1, <2>2
  <1>5. /\ peermap' \in [Peers -> SUBSET Peers]
        /\ peermap'[x] = {x} /\ \A q \in Peers : q # x => peermap'[q] = peermap[q]
    BY <1>0, <1>1, MapGoes
  <1>6. PeersOK'
    BY <1>0, <1>1, <1>5 DEF PeersOK
  <1>7. HistOK'
    BY <1>0, <1>1, <1>4 DEF HistOK, Trouble
  <1>8. ResetOK'
    <2>1. \A q \in Peers : q # x => Trying(q) = (Trying(q))'
      BY <1>2 DEF Trying, GoesTo
    <2> QED
      BY <1>0, <1>1, <1>5, <2>1 DEF ResetOK
  <1> QED
    BY <1>2, <1>3, <1>4, <1>6, <1>7, <1>8 DEF Inv

(* A peer that shuts down takes a snapshot and stops Raft. *)
LEMMA ConsensusShutdownStep ==
    ASSUME Inv, NEW x \in Peers, ConsensusShutdown(x)
    PROVE  Inv'
  <1>0. LogOK /\ PeersOK /\ HistOK /\ CallOK /\ Calls /\ ResetOK
    BY DEF Inv
  <1>1. /\ (call[x].pc = "stop" /\ Return(x)) \/ UNCHANGED call
        /\ left' = left \/ Spend("calls")
        /\ node' = [node EXCEPT ![x] = "quiet"]
        /\ snap' = [snap EXCEPT ![x] = applied[x]]
        /\ unsaved' = unsaved \cup {x}
        /\ UNCHANGED <<log, raftPeers, reach, applied, peermap, saved, trouble, known, relisted>>
    BY DEF ConsensusShutdown
  <1>2. LogOK'
    BY <1>0, <1>1, SnapshotTaken
  <1>3. node' \in [Peers -> Nodes] /\ node'[x] = "quiet" /\ \A q \in Peers : q # x => node'[q] = node[q]
    BY <1>0, <1>1, NodeGoes DEF Nodes
  <1>4. PeersOK'
    BY <1>0, <1>1, <1>3, PeersGo DEF PeersOK
  <1>5. HistOK'
    <2>1. left' \in [{"calls", "faults", "starts"} -> Nat]
      BY <1>0, <1>1, Spent DEF HistOK
    <2> QED
      BY <1>0, <1>1, <2>1 DEF HistOK
  <1>6. CallOK' /\ Calls' /\ \A q \in Peers : Trying(q) \subseteq (Trying(q))'
    <2>1. CASE UNCHANGED call
      BY <1>0, <1>1, <2>1, CallsSame DEF CallOK, Trying
    <2>2. CASE call[x].pc = "stop" /\ Return(x)
      <3>1. CallOK' /\ Returns(x)
        BY <1>0, <2>2, ReturnGoes DEF Return
      <3> QED
        BY <1>0, <1>1, <2>2, <3>1, CallsEnd, TryingReturns
    <2> QED
      BY <1>1, <2>1, <2>2
  <1>7. ResetOK'
    BY <1>0, <1>1, <1>3, <1>6, ResetSame
  <1> QED
    BY <1>2, <1>4, <1>5, <1>6, <1>7 DEF Inv

-----------------------------------------------------------------------------
(* Processes that stop and start.                                          *)

(* Stop and Crash. *)
LEMMA ProcessEnds ==
    ASSUME Inv, NEW x \in Peers, node' = [node EXCEPT ![x] = "off"], CallsDie(x),
           saved' = saved \/ saved' = [saved EXCEPT ![x] = peersAddrs(x)],
           unsaved' \subseteq unsaved, left' = left \/ Spend("faults"),
           UNCHANGED <<raftVars, peermap, known, relisted>>
    PROVE  Inv'
  <1>0. LogOK /\ PeersOK /\ HistOK /\ CallOK /\ Calls /\ ResetOK
    BY DEF Inv
  <1>1. CallOK' /\ Returns(x)
    BY <1>0, ReturnGoes DEF CallsDie
  <1>2. LogOK'
    BY <1>0, LogSame
  <1>3. Calls'
    BY <1>0, <1>1, CallsEnd DEF raftVars
  <1>4. node' \in [Peers -> Nodes] /\ node'[x] = "off" /\ \A q \in Peers : q # x => node'[q] = node[q]
    BY <1>0, NodeGoes DEF Nodes
  <1>5. PeersOK'
    <2>1. PICK S \in SUBSET Peers : S = peersAddrs(x) /\ x \notin S
      BY <1>0 DEF PeersOK, peersAddrs
    <2>2. saved' \in [Peers -> SUBSET Peers] /\ \A p \in Peers : p \notin saved'[p]
      BY <1>0, <2>1 DEF PeersOK
    <2> QED
      BY <1>0, <1>4, <2>2 DEF PeersOK
  <1>6. HistOK'
    <2>1. left' \in [{"calls", "faults", "starts"} -> Nat]
      BY <1>0, Spent DEF HistOK
    <2>2. trouble' \in BOOLEAN
      BY DEF CallsDie
    <2> QED
      BY <1>0, <2>1, <2>2 DEF HistOK
  <1>7. ResetOK'
    <2>1. \A q \in Peers : q # x => Trying(q) = (Trying(q))'
      BY <1>1 DEF Trying, Returns
    <2> QED
      BY <1>0, <1>4, <2>1, ResetSame
  <1> QED
    BY <1>1, <1>2, <1>3, <1>5, <1>6, <1>7 DEF Inv

(* A peer starts from what it saved. *)
LEMMA StartStep ==
    ASSUME Inv, NEW x \in Peers, Start(x)
    PROVE  Inv'
  <1>0. LogOK /\ PeersOK /\ HistOK /\ CallOK /\ Calls /\ ResetOK
    BY DEF Inv
  <1>1. LogOK'
    <2>1. /\ applied' = [applied EXCEPT ![x] = snap[x]]
          /\ UNCHANGED <<log, raftPeers, reach, snap>>
      BY DEF Start
    <2>2. /\ applied' \in [Peers -> Nat]
          /\ \A p \in Peers : snap[p] <= applied'[p] /\ applied'[p] <= Len(log)
      <3>1. snap[x] \in Nat /\ applied[x] \in Nat /\ Len(log) \in Nat /\ snap[x] <= applied[x] /\ applied[x] <= Len(log)
        BY <1>0 DEF LogOK
      <3> QED
        BY <1>0, <2>1, <3>1 DEF LogOK
    <2> QED
      BY <1>0, <2>1, <2>2 DEF LogOK
  <1>2. CallOK' /\ Calls'
    BY <1>0, CallsSame DEF Start, CallOK, histVars
  <1>3. HistOK'
    BY <1>0, HistSame DEF Start
  <1>4. PICK v \in {"boot2", "up"}, S \in SUBSET Peers :
           node' = [node EXCEPT ![x] = v] /\ peermap' = [peermap EXCEPT ![x] = S]
    <2>1. CASE saved[x] = {}
      <3>1. {x, Contact} \in SUBSET Peers
        BY PeersAssumption
      <3> QED
        BY <2>1, <3>1 DEF Start
    <2>2. CASE saved[x] # {}
      <3>1. {x} \cup saved[x] \in SUBSET Peers
        BY <1>0 DEF PeersOK
      <3> QED
        BY <2>2, <3>1 DEF Start
    <2> QED
      BY <2>1, <2>2
  <1>5. node' \in [Peers -> Nodes] /\ node'[x] = v /\ \A q \in Peers : q # x => node'[q] = node[q]
    BY <1>0, <1>4, NodeGoes DEF Nodes
  <1>6. peermap' \in [Peers -> SUBSET Peers] /\ \A q \in Peers : q # x => peermap'[q] = peermap[q]
    BY <1>0, <1>4, MapGoes
  <1>7. PeersOK'
    BY <1>0, <1>5, <1>6, PeersGo DEF Start
  <1>8. ResetOK'
    <2>1. \A q \in Peers : (Trying(q))' = Trying(q)
      BY DEF Start, Trying
    <2> QED
      BY <1>0, <1>4, <1>5, <1>6, <2>1 DEF ResetOK, Start, histVars
  <1> QED
    BY <1>1, <1>2, <1>3, <1>7, <1>8 DEF Inv

(* A starting peer asks the contact to add it. *)
LEMMA JoinStep ==
    ASSUME Inv, NEW x \in Peers, Join(x)
    PROVE  Inv'
  <1>0. LogOK /\ PeersOK /\ HistOK /\ CallOK /\ Calls /\ ResetOK
    BY DEF Inv
  <1>1. LogOK' /\ HistOK' /\ CallOK' /\ Calls'
    BY <1>0, LogSame, HistSame, CallsSame DEF Join, CallOK, raftVars, histVars
  <1>2. PICK v \in {"join1", "join2"} : node' = [node EXCEPT ![x] = v]
    BY DEF Join
  <1>3. PICK S \in SUBSET Peers : S = peermap[x] \cup {Contact}
    BY <1>0, PeersAssumption DEF PeersOK
  <1>4. peermap' = [peermap EXCEPT ![x] = S]
    BY <1>3 DEF Join, addPeer, addFromMultiaddrs
  <1>5. node' \in [Peers -> Nodes] /\ node'[x] = v /\ \A q \in Peers : q # x => node'[q] = node[q]
    BY <1>0, <1>2, NodeGoes DEF Nodes, Joining
  <1>6. peermap' \in [Peers -> SUBSET Peers] /\ \A q \in Peers : q # x => peermap'[q] = peermap[q]
    BY <1>0, <1>4, MapGoes
  <1>7. PeersOK'
    BY <1>0, <1>5, <1>6, PeersGo DEF Join
  <1>8. ResetOK'
    <2>1. \A q \in Peers : (Trying(q))' = Trying(q)
      BY DEF Join, Trying
    <2> QED
      BY <1>0, <1>2, <1>5, <1>6, <2>1 DEF ResetOK, Join, histVars
  <1> QED
    BY <1>1, <1>7, <1>8 DEF Inv

(* The contact cannot be reached. *)
LEMMA JoinFailsStep ==
    ASSUME Inv, NEW x \in Peers, JoinFails(x)
    PROVE  Inv'
  <1>0. LogOK /\ PeersOK /\ HistOK /\ CallOK /\ Calls /\ ResetOK
    BY DEF Inv
  <1>1. LogOK' /\ HistOK' /\ CallOK' /\ Calls'
    BY <1>0, LogSame, CallsSame DEF JoinFails, HistOK, CallOK, Trouble, raftVars
  <1>2. PICK v \in {"boot1", "failed"} : node' = [node EXCEPT ![x] = v]
    BY DEF JoinFails
  <1>3. node' \in [Peers -> Nodes] /\ node'[x] = v /\ \A q \in Peers : q # x => node'[q] = node[q]
    BY <1>0, <1>2, NodeGoes DEF Nodes
  <1>4. PeersOK'
    BY <1>0, <1>3 DEF PeersOK, JoinFails
  <1>5. ResetOK'
    <2>1. \A q \in Peers : (Trying(q))' = Trying(q)
      BY DEF JoinFails, Trying
    <2> QED
      BY <1>0, <1>2, <1>3, <2>1 DEF ResetOK, JoinFails
  <1> QED
    BY <1>1, <1>4, <1>5 DEF Inv

-----------------------------------------------------------------------------
(* Raft.                                                                   *)

(* A peer applies the next committed operation to its map. *)
LEMMA ApplyStep ==
    ASSUME Inv, NEW p \in Peers, Apply(p)
    PROVE  Inv'
  <1>0. LogOK /\ PeersOK /\ HistOK /\ CallOK /\ Calls /\ ResetOK
    BY DEF Inv
  <1>1. applied[p] \in Nat /\ Len(log) \in Nat /\ applied[p] < Len(log)
    BY <1>0 DEF Apply, Reach, LogOK
  <1>2. PICK i \in 1 .. Len(log) : i = applied[p] + 1
    BY <1>1
  <1>3. PICK o \in Op : o = log[i]
    BY <1>0 DEF LogOK
  <1>4. LogOK'
    <2>1. applied' = [applied EXCEPT ![p] = i] /\ UNCHANGED <<log, raftPeers, reach, snap>>
      BY <1>2 DEF Apply
    <2>2. /\ applied' \in [Peers -> Nat]
          /\ \A q \in Peers : snap[q] <= applied'[q] /\ applied'[q] <= Len(log)
      <3>1. snap[p] \in Nat /\ snap[p] <= i /\ i <= Len(log) /\ i \in Nat
        BY <1>0, <1>1, <1>2 DEF LogOK
      <3> QED
        BY <1>0, <2>1, <3>1 DEF LogOK
    <2> QED
      BY <1>0, <2>1, <2>2 DEF LogOK
  <1>5. HistOK' /\ CallOK' /\ Calls'
    BY <1>0, HistSame, CallsSame DEF Apply, CallOK, histVars
  <1>6. PICK S \in SUBSET Peers : peermap' = [peermap EXCEPT ![p] = S]
    <2>1. ApplyTo(p, o)
      BY <1>2, <1>3 DEF Apply
    <2>2. peermap[p] \cup {o.peer} \in SUBSET Peers /\ peermap[p] \ {o.peer} \in SUBSET Peers
      BY <1>0 DEF PeersOK, Op
    <2> QED
      BY <2>1, <2>2 DEF ApplyTo, addPeer, addFromMultiaddrs, rmPeer
  <1>7. peermap' \in [Peers -> SUBSET Peers] /\ \A q \in Peers : q # p => peermap'[q] = peermap[q]
    BY <1>0, <1>6, MapGoes
  <1>8. PeersOK'
    BY <1>0, <1>7 DEF PeersOK, Apply
  <1>9. ResetOK'
    <2>1. \A q \in Peers : (Trying(q))' = Trying(q)
      BY DEF Apply, Trying
    <2>2. node[p] # "reset"
      BY DEF Apply, RaftRuns
    <2> QED
      BY <1>0, <1>7, <2>1, <2>2 DEF ResetOK, Apply, histVars
  <1> QED
    BY <1>4, <1>5, <1>8, <1>9 DEF Inv

(* A peer takes a snapshot of its state. *)
LEMMA TakeSnapshotStep ==
    ASSUME Inv, NEW p \in Peers, TakeSnapshot(p)
    PROVE  Inv'
  <1>0. LogOK /\ PeersOK /\ HistOK /\ CallOK /\ Calls /\ ResetOK
    BY DEF Inv
  <1>1. LogOK'
    BY <1>0, SnapshotTaken DEF TakeSnapshot
  <1>2. PeersOK' /\ CallOK' /\ Calls'
    BY <1>0, PeersSame, CallsSame DEF TakeSnapshot, CallOK
  <1>3. HistOK'
    <2>1. left' \in [{"calls", "faults", "starts"} -> Nat]
      BY <1>0, Spent DEF TakeSnapshot
    <2> QED
      BY <1>0, <2>1 DEF TakeSnapshot, HistOK
  <1>4. ResetOK'
    BY <1>0 DEF TakeSnapshot, ResetOK, Trying, peerVars
  <1> QED
    BY <1>1, <1>2, <1>3, <1>4 DEF Inv

(* A peer that is behind is sent a snapshot. *)
LEMMA InstallSnapshotStep ==
    ASSUME Inv, NEW p \in Peers, NEW q \in Peers, InstallSnapshot(p, q)
    PROVE  Inv'
  <1>0. LogOK /\ PeersOK /\ HistOK /\ CallOK /\ Calls /\ ResetOK
    BY DEF Inv
  <1>1. LogOK'
    <2>1. /\ applied' = [applied EXCEPT ![p] = snap[q]] /\ snap' = [snap EXCEPT ![p] = snap[q]]
          /\ UNCHANGED <<log, raftPeers, reach>>
      BY DEF InstallSnapshot
    <2>2. snap[q] \in Nat /\ applied[q] \in Nat /\ Len(log) \in Nat /\ snap[q] <= Len(log)
      BY <1>0 DEF LogOK
    <2>3. /\ applied' \in [Peers -> Nat] /\ snap' \in [Peers -> Nat]
          /\ \A r \in Peers : snap'[r] <= applied'[r] /\ applied'[r] <= Len(log)
      BY <1>0, <2>1, <2>2 DEF LogOK
    <2> QED
      BY <1>0, <2>1, <2>3 DEF LogOK
  <1>2. PeersOK' /\ CallOK' /\ Calls'
    BY <1>0, PeersSame, CallsSame DEF InstallSnapshot, CallOK
  <1>3. HistOK'
    BY <1>0 DEF InstallSnapshot, Trouble, HistOK
  <1>4. ResetOK'
    BY <1>0 DEF InstallSnapshot, ResetOK, Trying, peerVars
  <1> QED
    BY <1>1, <1>2, <1>3, <1>4 DEF Inv

-----------------------------------------------------------------------------
(* The theorems.                                                           *)

(* The founders are up and know each other, the others bootstrap. *)
LEMMA InvInit == Init => Inv
  <1> SUFFICES ASSUME Init PROVE Inv
    OBVIOUS
  <1>1. LogOK
    BY PeersAssumption DEF Init, LogOK
  <1>2. PeersOK
    BY PeersAssumption DEF Init, PeersOK, Nodes
  <1>3. HistOK
    <2>1. MaxCalls \in Nat /\ MaxFaults \in Nat /\ MaxStarts \in Nat
      BY BoundsAssumption
    <2>2. left \in [{"calls", "faults", "starts"} -> Nat]
      BY <2>1 DEF Init
    <2>3. known \in [Peers -> Marks]
      BY DEF Init, Marks
    <2> QED
      BY <2>2, <2>3 DEF Init, HistOK
  <1>4. CallOK /\ \A c \in Peers : call[c].op = "none" /\ call[c].pc = "none"
    BY IdleCall DEF Init, CallOK
  <1>5. AloneOK /\ OpenOK /\ ProgressOK
    BY <1>4 DEF AloneOK, OpenOK, ProgressOK
  <1>6. Acked
    <2>1. \A x : LastOf(log, x) = "none"
      BY DEF Init, LastOf
    <2> QED
      BY <2>1 DEF Init, Acked
  <1>7. ResetOK
    BY DEF Init, ResetOK
  <1> QED
    BY <1>1, <1>2, <1>3, <1>4, <1>5, <1>6, <1>7 DEF Inv, Calls

(* Every step of a call, a peer or Raft keeps the invariant. *)
LEMMA InvNext == Inv /\ [Next]_vars => Inv'
  <1> SUFFICES ASSUME Inv, [Next]_vars PROVE Inv'
    OBVIOUS
  <1>1. ASSUME NEW c \in Peers, CallStep(c) PROVE Inv'
    BY <1>1, CommitOpStep, CommitFailsStep, RaftChangeStep, RaftChangeFailsStep, PingStep,
       PeerAddFailsStep, MakeListStep, SendListStep, PeerRemoveFailsStep, TellRemovedStep, LeaveResetStep
       DEF CallStep, LogStep, AddStep, RmStep
  <1>2. ASSUME NEW c \in Peers, NEW x \in Peers, PeerAdd(c, x) \/ PeerRemove(c, x) PROVE Inv'
    BY <1>2, PeerAddStep, RemovalStarts DEF PeerRemove
  <1>3. ASSUME NEW x \in Peers, Leave(x) PROVE Inv'
    BY <1>3, RemovalStarts DEF Leave
  <1>4. ASSUME NEW x \in Peers, Stop(x) PROVE Inv'
    BY <1>4, ProcessEnds DEF Stop, savePeers
  <1>5. ASSUME NEW x \in Peers, Crash(x) PROVE Inv'
    BY <1>5, ProcessEnds DEF Crash
  <1>6. ASSUME NEW x \in Peers,
               \/ ConsensusShutdown(x) \/ RemovedStops(x) \/ Start(x) \/ Join(x) \/ JoinFails(x)
               \/ Apply(x) \/ TakeSnapshot(x)
        PROVE Inv'
    BY <1>6, ConsensusShutdownStep, RemovedStopsStep, StartStep, JoinStep, JoinFailsStep,
       ApplyStep, TakeSnapshotStep
  <1>7. ASSUME UNCHANGED vars PROVE Inv'
    <2>1. LogOK' /\ PeersOK' /\ HistOK' /\ CallOK' /\ Calls'
      BY <1>7, LogSame, PeersSame, HistSame, CallsSame DEF Inv, vars, raftVars, histVars, CallOK
    <2>2. ResetOK'
      BY <1>7 DEF Inv, vars, peerVars, histVars, ResetOK, Trying
    <2> QED
      BY <2>1, <2>2 DEF Inv
  <1> QED
    BY <1>1, <1>2, <1>3, <1>4, <1>5, <1>6, <1>7, InstallSnapshotStep DEF Next

(* The invariant holds in every behaviour. *)
LEMMA InvHolds == Spec => []Inv
  BY InvInit, InvNext, PTL DEF Spec

(* Every variable keeps its type: in particular no peer has applied more   *)
(* than was committed, nor has a snapshot of more than it has applied, and *)
(* no saved configuration names its own peer.                              *)
THEOREM TypeCorrect == Spec => []TypeOK
  <1>1. Inv => TypeOK
    <2> SUFFICES ASSUME Inv PROVE TypeOK
      OBVIOUS
    <2>0. LogOK /\ PeersOK /\ HistOK /\ CallOK
      BY DEF Inv
    <2>1. \A i \in 1 .. Len(log) : log[i] \in Op
      BY <2>0 DEF LogOK
    <2>2. \A p \in Peers : snap[p] \in 0 .. applied[p] /\ applied[p] <= Len(log) /\ reach[p] <= Len(log)
      BY <2>0 DEF LogOK
    <2>3. \A p \in Peers :
             node[p] \in Nodes /\ peermap[p] \subseteq Peers /\ saved[p] \subseteq Peers \ {p}
      BY <2>0 DEF PeersOK
    <2>4. \A p \in Peers : call[p].op \in {"none", "add", "rm", "leave"} /\ call[p].tries \in 0 .. CommitRetries
      BY <2>0 DEF CallOK, Call, Ops
    <2>5. /\ \A p \in Peers : known[p] \in {"in", "out", "open"}
          /\ \A k \in DOMAIN left : left[k] \in Nat
          /\ trouble \in BOOLEAN
          /\ unsaved \cup relisted \subseteq Peers
      BY <2>0 DEF HistOK, Marks
    <2>6. raftPeers \subseteq Peers
      BY <2>0 DEF LogOK
    <2> QED
      BY <2>1, <2>2, <2>3, <2>4, <2>5, <2>6 DEF TypeOK, Op
  <1> QED
    BY <1>1, InvHolds, PTL

(* Once PeerAdd has returned without an error, the peer is in Raft's peer  *)
(* set and the log does not end in its removal, until the next call about  *)
(* it; once PeerRemove or leaving has, the opposite.                       *)
THEOREM AcknowledgedHolds == Spec => []AckedHolds
  <1>1. Inv => AckedHolds
    <2>1. \A x : LastOp(x) = LastOf(log, x)
      BY DEF LastOp, LastOf
    <2> QED
      BY <2>1 DEF Inv, Calls, Acked, AckedHolds
  <1> QED
    BY <1>1, InvHolds, PTL

(* A removed peer that shuts itself down saves an empty list of peers,     *)
(* unless PeerAdd sent it a list again or it is adding a peer itself.      *)
THEOREM RemovedPeersForget == Spec => RemovedForgets
  <1>1. ASSUME Inv, [Next]_vars
        PROVE  \A x \in Peers :
                  Stop(x) /\ node[x] = "reset" /\ x \notin relisted \cup Busy => saved'[x] = {}
    <2> TAKE x \in Peers
    <2> HAVE Stop(x) /\ node[x] = "reset" /\ x \notin relisted \cup Busy
    <2>1. PeersOK /\ ResetOK
      BY <1>1 DEF Inv
    <2>2. Trying(x) = {}
      BY DEF Trying, Busy
    <2>3. peermap[x] \subseteq {x}
      BY <2>1, <2>2 DEF ResetOK
    <2>4. saved' = [saved EXCEPT ![x] = peermap[x] \ {x}]
      BY DEF Stop, savePeers, peersAddrs
    <2> QED
      BY <2>1, <2>3, <2>4 DEF PeersOK
  <1>2. Inv /\ [Next]_vars =>
           [\A x \in Peers :
               Stop(x) /\ node[x] = "reset" /\ x \notin relisted \cup Busy => saved'[x] = {}]_vars
    BY <1>1
  <1> QED
    BY <1>2, InvHolds, PTL DEF Spec, RemovedForgets

-----------------------------------------------------------------------------
(* All members agree: the inductive invariant, as long as there is no      *)
(* trouble.                                                                *)

(* The members, by the log: what the last operation about x says.          *)
Member(l, x) == LastOf(l, x) = "LogOpAddPeer" \/ (LastOf(l, x) = "none" /\ x \in Founders)

(* An operation about x comes after the first n of the log.                *)
Later(l, x, n) == \E i \in n + 1 .. Len(l) : l[i].peer = x

(* Who has applied n operations and knows the peers in S knows no peer     *)
(* that is not a member, or knows every member, but for what it has yet to *)
(* apply.                                                                  *)
Current(l, S, n) == \A x \in S : Member(l, x) \/ Later(l, x, n)
Complete(l, S, n) == \A x \in Peers : Member(l, x) => x \in S \/ Later(l, x, n)

Subject(k, x) == \E c \in Peers : k[c].op # "none" /\ k[c].peer = x
Adding(k, x) == \E c \in Peers : k[c].op = "add" /\ k[c].peer = x

(* An addition runs alone. *)
SoleAdd == \A c, d \in Peers : call[c].op = "add" /\ call[d].op # "none" => c = d

(* What is left to apply where an addition runs is that addition.          *)
OnlyAdds(l, x, n) == \A i \in n + 1 .. Len(l) : l[i].type = "LogOpAddPeer" /\ l[i].peer = x

AddOK(c) ==
    /\ call[c].peer # c
    /\ node[c] = "up" \/ c = Contact
    /\ call[c].peer \in peermap[c]
    /\ OnlyAdds(log, call[c].peer, applied[c])
    /\ call[c].pc \in {"raft", "list", "send"} =>
          node[c] \in {"up", "removed"} /\ c \in raftPeers /\ Member(log, call[c].peer)
    /\ call[c].pc \in {"list", "send"} => call[c].peer \in raftPeers
    /\ call[c].pc = "send" => \A y \in Peers : y \in call[c].list <=> Member(log, y)
AddsOK == \A c \in Peers : call[c].op = "add" => AddOK(c)

RmOK(c) ==
    /\ call[c].op = "leave" => call[c].peer = c
    /\ call[c].pc \in {"raft", "tell", "reset", "stop"} => ~Member(log, call[c].peer)
    /\ call[c].pc \in {"tell", "reset", "stop"} => call[c].peer \notin raftPeers
RmsOK == \A c \in Peers : call[c].op \in {"rm", "leave"} => RmOK(c)

(* Raft's peer set and the log agree about a peer that no call is about.   *)
RaftAgrees == \A x \in Peers : ~Subject(call, x) => (x \in raftPeers <=> Member(log, x))

(* Where the processes are.                                                *)
Booting == {"boot2", "boot1"} \cup Joining
NodesOK ==
    /\ node[Contact] \notin Booting
    /\ \A p \in Peers :
          /\ node[p] # "failed"
          /\ node[p] \in Booting \cup {"off"} => call[p].op = "none"
          /\ node[p] \in {"quiet", "reset"} => snap[p] = applied[p]
          /\ node[p] = "off" => p \notin unsaved \/ saved[p] = {}

(* Peers that p may know without knowing that they are members: itself,    *)
(* one that it tries to add, and the contact before it has joined.         *)
Exempt(p) == {p} \cup Trying(p) \cup
             {x \in {Contact} : node[p] \in Booting \/ (node[p] = "removed" /\ call[p].op = "none")}

MapOK(p) == node[p] # "off" => Current(log, peermap[p] \ Exempt(p), applied[p])
FileOK(p) == p \notin unsaved => Current(log, saved[p], snap[p])

(* A member knows all members, unless it is only being added or has reset  *)
(* its peermap on the way out; and so does its file, if it has one.        *)
Steady(p) == p \in raftPeers /\ ~Adding(call, p)
MapFull(p) ==
    /\ node[p] \in {"up", "removed"} => Complete(log, peermap[p], applied[p])
    /\ node[p] \in {"quiet", "reset"} =>
          Complete(log, peermap[p], applied[p]) \/ peermap[p] \subseteq {p} \cup Trying(p)
FileFull(p) == p \notin unsaved /\ saved[p] # {} => Complete(log, saved[p] \cup {p}, snap[p])

ViewOK(p) == MapOK(p) /\ FileOK(p) /\ (Steady(p) => MapFull(p) /\ FileFull(p))

CallsAgree == SoleAdd /\ AddsOK /\ RmsOK /\ RaftAgrees
ViewsOK == \A p \in Peers : ViewOK(p)
Agree == CallsAgree /\ NodesOK /\ ViewsOK
AgreeInv == ~trouble => Agree

-----------------------------------------------------------------------------
(* What the log says of the members.                                       *)

(* The last operation about x decides whether it is a member. *)
LEMMA LastDecides ==
    ASSUME NEW l \in Seq(Op), NEW n \in Nat, NEW x, Later(l, x, n)
    PROVE  \E i \in n + 1 .. Len(l) :
              /\ l[i].peer = x
              /\ \A m \in Nat : m >= i => ~Later(l, x, m)
              /\ \A m \in Nat : m < i => Later(l, x, m)
              /\ Member(l, x) <=> l[i].type = "LogOpAddPeer"
  <1> DEFINE S == {i \in 1 .. Len(l) : l[i].peer = x}
  <1>1. Len(l) \in Nat /\ S \subseteq 1 .. Len(l)
    OBVIOUS
  <1>2. PICK j \in n + 1 .. Len(l) : l[j].peer = x
    BY DEF Later
  <1>3. j \in S
    BY <1>1, <1>2
  <1>4. PICK i : i = Max(S)
    OBVIOUS
  <1>5. i \in S /\ \A k \in S : k <= i
    <2> HIDE DEF S
    <2> QED
      BY <1>1, <1>3, <1>4, MaxOfPositions
  <1>6. i \in n + 1 .. Len(l) /\ l[i].peer = x
    BY <1>1, <1>2, <1>3, <1>5
  <1>7. ASSUME NEW m \in Nat, m >= i PROVE ~Later(l, x, m)
    BY <1>1, <1>5, <1>6, <1>7 DEF Later
  <1>8. ASSUME NEW m \in Nat, m < i PROVE Later(l, x, m)
    BY <1>1, <1>6, <1>8 DEF Later
  <1>9. LastOf(l, x) = l[i].type
    BY <1>3, <1>4 DEF LastOf
  <1>10. l[i].type \in {"LogOpAddPeer", "LogOpRmPeer"}
    <2>1. l[i] \in Op
      BY <1>6
    <2> QED
      BY <2>1 DEF Op
  <1>11. Member(l, x) <=> l[i].type = "LogOpAddPeer"
    BY <1>9, <1>10 DEF Member
  <1> QED
    BY <1>6, <1>7, <1>8, <1>11

(* Nothing comes after the end of the log. *)
LEMMA NothingLater ==
    ASSUME NEW l \in Seq(Op), NEW x
    PROVE  ~Later(l, x, Len(l))
  <1>1. Len(l) \in Nat /\ Len(l) + 1 .. Len(l) = {}
    OBVIOUS
  <1> QED
    BY <1>1 DEF Later

(* An operation that is appended changes the membership of its peer only,  *)
(* and is yet to be applied by everyone.                                   *)
LEMMA MembersAppend ==
    ASSUME NEW l \in Seq(Op), NEW o \in Op
    PROVE  /\ Append(l, o) \in Seq(Op) /\ Len(Append(l, o)) = Len(l) + 1
           /\ Member(Append(l, o), o.peer) <=> o.type = "LogOpAddPeer"
           /\ \A x : x # o.peer => (Member(Append(l, o), x) <=> Member(l, x))
           /\ \A n \in 0 .. Len(l) : Later(Append(l, o), o.peer, n)
           /\ \A x : \A n \in 0 .. Len(l) : Later(l, x, n) => Later(Append(l, o), x, n)
           /\ \A x : \A n \in 0 .. Len(l) : OnlyAdds(l, x, n) /\ o.type = "LogOpAddPeer" /\ o.peer = x
                                              => OnlyAdds(Append(l, o), x, n)
  <1>0. Append(l, o) \in Seq(Op)
    OBVIOUS
  <1>1. PICK k \in Seq(Op) : k = Append(l, o)
    BY <1>0
  <1>2. Len(l) \in Nat /\ Len(k) = Len(l) + 1 /\ k[Len(l) + 1] = o /\ \A i \in 1 .. Len(l) : k[i] = l[i]
    BY <1>1
  <1>3. o.type \in {"LogOpAddPeer", "LogOpRmPeer"}
    BY DEF Op
  <1>4. \A x : LastOf(k, x) = IF x = o.peer THEN o.type ELSE LastOf(l, x)
    BY <1>1, LastOfAppend
  <1>5. Member(k, o.peer) <=> o.type = "LogOpAddPeer"
    BY <1>3, <1>4 DEF Member
  <1>6. \A x : x # o.peer => (Member(k, x) <=> Member(l, x))
    BY <1>4 DEF Member
  <1>7. \A n \in 0 .. Len(l) : Later(k, o.peer, n)
    BY <1>2 DEF Later
  <1>8. ASSUME NEW x, NEW n \in 0 .. Len(l), Later(l, x, n) PROVE Later(k, x, n)
    <2>1. PICK i \in n + 1 .. Len(l) : l[i].peer = x
      BY <1>8 DEF Later
    <2>2. i \in n + 1 .. Len(k) /\ k[i].peer = x
      BY <1>2, <2>1
    <2> QED
      BY <2>2 DEF Later
  <1>9. ASSUME NEW x, NEW n \in 0 .. Len(l), OnlyAdds(l, x, n), o.type = "LogOpAddPeer", o.peer = x
        PROVE  OnlyAdds(k, x, n)
    <2>1. ASSUME NEW i \in n + 1 .. Len(k) PROVE k[i].type = "LogOpAddPeer" /\ k[i].peer = x
      <3>1. CASE i = Len(l) + 1
        BY <1>2, <1>9, <3>1
      <3>2. CASE i # Len(l) + 1
        <4>1. i \in n + 1 .. Len(l) /\ i \in 1 .. Len(l)
          BY <1>2, <3>2
        <4> QED
          BY <1>2, <1>9, <4>1 DEF OnlyAdds
      <3> QED
        BY <3>1, <3>2
    <2> QED
      BY <2>1 DEF OnlyAdds
  <1> QED
    BY <1>1, <1>2, <1>5, <1>6, <1>7, <1>8, <1>9

(* What a peer knows stays right when the log grows. *)
LEMMA ViewsAppend ==
    ASSUME NEW l \in Seq(Op), NEW o \in Op, NEW S, NEW n \in 0 .. Len(l)
    PROVE  /\ Current(l, S, n) => Current(Append(l, o), S, n)
           /\ Complete(l, S, n) => Complete(Append(l, o), S, n)
  <1>1. PICK k : k = Append(l, o)
    OBVIOUS
  <1>2. /\ \A x : x # o.peer => (Member(k, x) <=> Member(l, x))
        /\ Later(k, o.peer, n)
        /\ \A x : Later(l, x, n) => Later(k, x, n)
    BY <1>1, MembersAppend
  <1>3. Current(l, S, n) => Current(k, S, n)
    BY <1>2 DEF Current
  <1>4. Complete(l, S, n) => Complete(k, S, n)
    BY <1>2 DEF Complete
  <1> QED
    BY <1>1, <1>3, <1>4

(* What ApplyTo makes of a peermap. *)
Applied(S, o) == IF o.type = "LogOpAddPeer" THEN S \cup {o.peer} ELSE S \ {o.peer}

(* What a peer knows stays right when it applies the next operation. *)
LEMMA ViewsApply ==
    ASSUME NEW l \in Seq(Op), NEW n \in 0 .. Len(l), n < Len(l), NEW S, NEW E
    PROVE  /\ Current(l, S \ E, n) => Current(l, Applied(S, l[n + 1]) \ E, n + 1)
           /\ Complete(l, S, n) => Complete(l, Applied(S, l[n + 1]), n + 1)
  <1>1. PICK o \in Op : o = l[n + 1]
    OBVIOUS
  <1>2. n \in Nat /\ n + 1 \in Nat /\ Len(l) \in Nat
    OBVIOUS
  <1>3. \A x : x # o.peer => (Later(l, x, n + 1) <=> Later(l, x, n))
    <2>1. ASSUME NEW x, x # o.peer, Later(l, x, n) PROVE Later(l, x, n + 1)
      <3>1. PICK i \in n + 1 .. Len(l) : l[i].peer = x
        BY <2>1 DEF Later
      <3>2. i # n + 1
        BY <1>1, <2>1, <3>1
      <3>3. i \in (n + 1) + 1 .. Len(l)
        BY <1>2, <3>1, <3>2
      <3> QED
        BY <3>1, <3>3 DEF Later
    <2>2. ASSUME NEW x, Later(l, x, n + 1) PROVE Later(l, x, n)
      <3>1. PICK i \in (n + 1) + 1 .. Len(l) : l[i].peer = x
        BY <2>2 DEF Later
      <3>2. i \in n + 1 .. Len(l)
        BY <1>2, <3>1
      <3> QED
        BY <3>1, <3>2 DEF Later
    <2> QED
      BY <2>1, <2>2
  <1>4. Later(l, o.peer, n)
    <2>1. n + 1 \in n + 1 .. Len(l) /\ l[n + 1].peer = o.peer
      BY <1>1, <1>2
    <2> QED
      BY <2>1 DEF Later
  <1>5. Later(l, o.peer, n + 1) \/ (Member(l, o.peer) <=> o.type = "LogOpAddPeer")
    <2>1. PICK i \in n + 1 .. Len(l) :
              /\ l[i].peer = o.peer
              /\ \A m \in Nat : m < i => Later(l, o.peer, m)
              /\ Member(l, o.peer) <=> l[i].type = "LogOpAddPeer"
      BY <1>2, <1>4, LastDecides
    <2>2. CASE i = n + 1
      BY <1>1, <2>1, <2>2
    <2>3. CASE i # n + 1
      BY <1>2, <2>1, <2>3
    <2> QED
      BY <2>2, <2>3
  <1>6. Current(l, S \ E, n) => Current(l, Applied(S, o) \ E, n + 1)
    BY <1>3, <1>5 DEF Current, Applied
  <1>7. Complete(l, S, n) => Complete(l, Applied(S, o), n + 1)
    BY <1>3, <1>5 DEF Complete, Applied
  <1> QED
    BY <1>1, <1>6, <1>7

(* Operations that a snapshot skips do no harm to what is known if none of *)
(* them removes a known peer.                                              *)
LEMMA ViewsSkip ==
    ASSUME NEW l \in Seq(Op), NEW n \in 0 .. Len(l), NEW m \in 0 .. Len(l), n <= m, NEW S, Current(l, S, n),
           \A i \in n + 1 .. m : ~(l[i].type = "LogOpRmPeer" /\ l[i].peer \in S)
    PROVE  Current(l, S, m)
  <1>1. ASSUME NEW x \in S, Later(l, x, n), ~Later(l, x, m) PROVE Member(l, x)
    <2>1. PICK i \in n + 1 .. Len(l) :
              /\ l[i].peer = x
              /\ \A k \in Nat : k < i => Later(l, x, k)
              /\ Member(l, x) <=> l[i].type = "LogOpAddPeer"
      BY <1>1, LastDecides
    <2>2. m \in Nat /\ ~(m < i) /\ i \in n + 1 .. m
      BY <1>1, <2>1
    <2>3. l[i] \in Op
      OBVIOUS
    <2>4. l[i].type \in {"LogOpAddPeer", "LogOpRmPeer"}
      BY <2>3 DEF Op
    <2> QED
      BY <2>1, <2>2, <2>4
  <1> QED
    BY <1>1 DEF Current

(* Operations that are applied or skipped are no longer left. *)
LEMMA OnlyAddsLater ==
    ASSUME NEW l \in Seq(Op), NEW n \in 0 .. Len(l), NEW m \in 0 .. Len(l), n <= m, NEW x, OnlyAdds(l, x, n)
    PROVE  OnlyAdds(l, x, m)
  <1>1. \A i \in m + 1 .. Len(l) : i \in n + 1 .. Len(l)
    OBVIOUS
  <1> QED
    BY <1>1 DEF OnlyAdds

-----------------------------------------------------------------------------
(* What steps leave alone.                                                 *)

(* Every call that runs stays as it is. *)
SameCalls ==
    \A d \in Peers : call'[d].op = call[d].op /\ (call[d].op # "none" => call'[d] = call[d])

(* A call that goes on is about the same peer. *)
LEMMA SubjectsGo ==
    ASSUME NEW c \in Peers, NEW pc, GoesTo(c, pc)
    PROVE  \A y : (Subject(call', y) <=> Subject(call, y)) /\ (Adding(call', y) <=> Adding(call, y))
  BY DEF Subject, Adding, GoesTo

(* The calls are about the same peers. *)
LEMMA SubjectsSame ==
    ASSUME SameCalls
    PROVE  \A y : (Subject(call', y) <=> Subject(call, y)) /\ (Adding(call', y) <=> Adding(call, y))
  <1>1. \A d \in Peers : call'[d].op = call[d].op /\ (call[d].op # "none" => call'[d].peer = call[d].peer)
    BY DEF SameCalls
  <1> QED
    BY <1>1 DEF Subject, Adding

(* A call that begins is about one more peer. *)
LEMMA SubjectsStart ==
    ASSUME NEW c \in Peers, NEW op, op # "none", NEW x, NEW pc, Starts(c, op, x, pc), call[c].op = "none"
    PROVE  \A y : /\ Subject(call', y) <=> Subject(call, y) \/ y = x
                  /\ Adding(call, y) => Adding(call', y)
  BY DEF Subject, Adding, Starts

(* A call that returns is about one less. *)
LEMMA SubjectsReturn ==
    ASSUME NEW c \in Peers, Returns(c)
    PROVE  \A y : /\ y # call[c].peer => (Subject(call', y) <=> Subject(call, y))
                  /\ y # call[c].peer \/ call[c].op # "add" => (Adding(call', y) <=> Adding(call, y))
  BY DEF Subject, Adding, Returns

(* What p knows stays right if p does not move and the log at most grows. *)
LEMMA ViewKept ==
    ASSUME LogOK, NEW p \in Peers, ViewOK(p), log' = log \/ \E o \in Op : log' = Append(log, o),
           node'[p] = node[p], peermap'[p] = peermap[p], applied'[p] = applied[p],
           saved'[p] = saved[p], snap'[p] = snap[p], p \in unsaved => p \in unsaved',
           \A y \in Exempt(p) : y \in (Exempt(p))' \/ Member(log', y),
           node[p] \in {"quiet", "reset"} => Trying(p) \subseteq (Trying(p))',
           (Steady(p))' => Steady(p)
    PROVE  (ViewOK(p))'
  <1>1. /\ log \in Seq(Op) /\ Len(log) \in Nat
        /\ applied[p] \in 0 .. Len(log) /\ snap[p] \in 0 .. Len(log)
    BY DEF LogOK
  <1>2. ASSUME NEW S, NEW n \in 0 .. Len(log)
        PROVE  /\ Current(log, S, n) => Current(log', S, n)
               /\ Complete(log, S, n) => Complete(log', S, n)
    BY <1>1, <1>2, ViewsAppend
  <1>3. (MapOK(p))'
    <2> SUFFICES ASSUME node[p] # "off" PROVE Current(log', peermap[p] \ (Exempt(p))', applied[p])
      BY DEF MapOK
    <2>1. PICK E, F, S : E = Exempt(p) /\ F = (Exempt(p))' /\ S = peermap[p]
      OBVIOUS
    <2>2. Current(log, S \ E, applied[p])
      BY <2>1 DEF ViewOK, MapOK
    <2>3. Current(log', S \ E, applied[p])
      BY <1>1, <1>2, <2>2
    <2>4. \A y \in E : y \in F \/ Member(log', y)
      BY <2>1
    <2>5. Current(log', S \ F, applied[p])
      BY <2>3, <2>4 DEF Current
    <2> QED
      BY <2>1, <2>5
  <1>4. (FileOK(p))'
    BY <1>1, <1>2 DEF ViewOK, FileOK
  <1>5. ASSUME (Steady(p))' PROVE (MapFull(p))' /\ (FileFull(p))'
    <2>1. MapFull(p) /\ FileFull(p)
      BY <1>5 DEF ViewOK
    <2>2. (MapFull(p))'
      BY <1>1, <1>2, <2>1 DEF MapFull
    <2>3. (FileFull(p))'
      BY <1>1, <1>2, <2>1 DEF FileFull
    <2> QED
      BY <2>2, <2>3
  <1> QED
    BY <1>3, <1>4, <1>5 DEF ViewOK

(* What p is exempt from depends on its own call and process. *)
LEMMA ExemptSame ==
    ASSUME NEW p, node'[p] = node[p], call'[p].op = call[p].op,
           call[p].op # "none" => call'[p].pc = call[p].pc /\ call'[p].peer = call[p].peer
    PROVE  (Exempt(p))' = Exempt(p) /\ (Trying(p))' = Trying(p)
  <1>1. (Trying(p))' = Trying(p)
    BY DEF Trying
  <1> QED
    BY <1>1 DEF Exempt

(* A call that goes on at c, without a commit, leaves all views alone. *)
LEMMA ViewsGo ==
    ASSUME LogOK, NodesOK, ViewsOK, NEW c \in Peers, NEW pc, GoesTo(c, pc), call[c].op # "none",
           \/ pc \in {"commit", "failed"}
           \/ call[c].pc \notin {"ping", "commit", "failed"}
           \/ call[c].op # "add"
           \/ Member(log', call[c].peer) /\ node[c] \notin {"quiet", "reset"},
           log' = log \/ \E o \in Op : log' = Append(log, o),
           UNCHANGED <<node, peermap, saved, applied, snap, unsaved>>,
           \A x \in Peers : x \in raftPeers' => x \in raftPeers \/ Adding(call, x)
    PROVE  ViewsOK'
  <1> SUFFICES ASSUME NEW p \in Peers PROVE (ViewOK(p))'
    BY DEF ViewsOK
  <1>1. ViewOK(p)
    BY DEF ViewsOK
  <1>2. (Steady(p))' => Steady(p)
    BY SubjectsGo DEF Steady
  <1>3. CASE p # c
    <2>1. call'[p] = call[p]
      BY <1>3 DEF GoesTo
    <2>2. (Exempt(p))' = Exempt(p) /\ (Trying(p))' = Trying(p)
      BY <2>1, ExemptSame
    <2> QED
      BY <1>1, <1>2, <2>2, ViewKept
  <1>4. CASE p = c
    <2>1. call'[p].op = call[p].op /\ call'[p].peer = call[p].peer /\ call'[p].pc = pc
      BY <1>4 DEF GoesTo
    <2>2. \A y \in Trying(p) : y \in (Trying(p))' \/ (Member(log', y) /\ node[p] \notin {"quiet", "reset"})
      BY <1>4, <2>1 DEF Trying
    <2>3. \A y \in Exempt(p) : y \in (Exempt(p))' \/ Member(log', y)
      BY <2>1, <2>2 DEF Exempt
    <2>4. node[p] \in {"quiet", "reset"} => Trying(p) \subseteq (Trying(p))'
      BY <2>2
    <2> QED
      BY <1>1, <1>2, <2>3, <2>4, ViewKept
  <1> QED
    BY <1>3, <1>4

(* A removal that goes on changes nothing but its peer. *)
LEMMA RemovalGoes ==
    ASSUME CallOK, CallsAgree, NEW c \in Peers, NEW pc, GoesTo(c, pc), call[c].op \in {"rm", "leave"},
           \A y : y # call[c].peer => /\ Member(log', y) <=> Member(log, y)
                                      /\ y \in raftPeers' <=> y \in raftPeers,
           Member(log', call[c].peer) => Member(log, call[c].peer),
           call[c].peer \in raftPeers' => call[c].peer \in raftPeers,
           pc \in {"raft", "tell", "reset", "stop"} => ~Member(log', call[c].peer),
           pc \in {"tell", "reset", "stop"} => call[c].peer \notin raftPeers'
    PROVE  CallsAgree'
  <1>1. \A d \in Peers : call[d].op # "add"
    BY DEF CallsAgree, SoleAdd
  <1>2. \A d \in Peers : call'[d].op = call[d].op /\ call'[d].peer = call[d].peer
    BY DEF GoesTo
  <1>3. SoleAdd' /\ AddsOK'
    BY <1>1, <1>2 DEF SoleAdd, AddsOK
  <1>4. RmsOK'
    <2> SUFFICES ASSUME NEW d \in Peers, call[d].op \in {"rm", "leave"} PROVE (RmOK(d))'
      BY <1>2 DEF RmsOK
    <2>1. RmOK(d)
      BY DEF CallsAgree, RmsOK
    <2>2. CASE d = c
      BY <1>2, <2>1, <2>2 DEF RmOK, GoesTo
    <2>3. CASE d # c
      <3>1. call'[d] = call[d]
        BY <2>3 DEF GoesTo
      <3> QED
        BY <2>1, <3>1 DEF RmOK
    <2> QED
      BY <2>2, <2>3
  <1>5. RaftAgrees'
    <2>1. Subject(call, call[c].peer)
      BY DEF Subject
    <2> QED
      BY <2>1, SubjectsGo DEF CallsAgree, RaftAgrees
  <1> QED
    BY <1>3, <1>4, <1>5 DEF CallsAgree

(* An addition that goes on changes nothing but its peer. *)
LEMMA AdditionGoes ==
    ASSUME CallOK, CallsAgree, NEW c \in Peers, NEW pc, GoesTo(c, pc), call[c].op = "add",
           \A y : y # call[c].peer => /\ Member(log', y) <=> Member(log, y)
                                      /\ y \in raftPeers' <=> y \in raftPeers,
           (AddOK(c))'
    PROVE  CallsAgree'
  <1>1. \A d \in Peers : d # c => call[d].op = "none"
    BY DEF CallsAgree, SoleAdd
  <1>2. call'[c].op = "add" /\ \A d \in Peers : d # c => call'[d].op = "none"
    BY <1>1 DEF GoesTo
  <1>3. SoleAdd' /\ AddsOK' /\ RmsOK'
    BY <1>2 DEF SoleAdd, AddsOK, RmsOK
  <1>4. RaftAgrees'
    <2>1. Subject(call, call[c].peer)
      BY DEF Subject
    <2> QED
      BY <2>1, SubjectsGo DEF CallsAgree, RaftAgrees
  <1> QED
    BY <1>3, <1>4 DEF CallsAgree

(* A call that succeeds leaves Raft and the log in agreement on its peer. *)
LEMMA CallEnds ==
    ASSUME CallOK, CallsAgree, NEW c \in Peers, Returns(c), call[c].op # "none", UNCHANGED <<log, raftPeers>>,
           call[c].peer \in raftPeers <=> Member(log, call[c].peer)
    PROVE  CallsAgree'
  <1>1. SoleAdd'
    BY DEF CallsAgree, SoleAdd, Returns
  <1>2. \A d \in Peers : d # c => call[d].op # "add"
    BY DEF CallsAgree, SoleAdd
  <1>3. AddsOK'
    BY <1>2 DEF AddsOK, Returns
  <1>4. RmsOK'
    <2> SUFFICES ASSUME NEW d \in Peers, call'[d].op \in {"rm", "leave"} PROVE (RmOK(d))'
      BY DEF RmsOK
    <2>1. d # c /\ call'[d] = call[d]
      BY DEF Returns
    <2> QED
      BY <2>1 DEF CallsAgree, RmsOK, RmOK
  <1>5. RaftAgrees'
    BY SubjectsReturn DEF CallsAgree, RaftAgrees
  <1> QED
    BY <1>1, <1>3, <1>4, <1>5 DEF CallsAgree

(* A step that leaves the calls alone. *)
LEMMA CallsAgreeSame ==
    ASSUME CallsAgree, SameCalls, UNCHANGED <<log, raftPeers>>,
           \A c \in Peers : call[c].op = "add" => /\ node'[c] = node[c]
                                                  /\ call[c].peer \in peermap'[c]
                                                  /\ OnlyAdds(log, call[c].peer, applied'[c])
    PROVE  CallsAgree'
  <1>1. SoleAdd'
    BY DEF CallsAgree, SoleAdd, SameCalls
  <1>2. AddsOK'
    <2> SUFFICES ASSUME NEW c \in Peers, call'[c].op = "add" PROVE (AddOK(c))'
      BY DEF AddsOK
    <2>1. call[c].op = "add" /\ call'[c] = call[c]
      BY DEF SameCalls
    <2>2. AddOK(c)
      BY <2>1 DEF CallsAgree, AddsOK
    <2> QED
      BY <2>1, <2>2 DEF AddOK
  <1>3. RmsOK'
    <2> SUFFICES ASSUME NEW c \in Peers, call'[c].op \in {"rm", "leave"} PROVE (RmOK(c))'
      BY DEF RmsOK
    <2>1. call[c].op \in {"rm", "leave"} /\ call'[c] = call[c]
      BY DEF SameCalls
    <2> QED
      BY <2>1 DEF CallsAgree, RmsOK, RmOK
  <1>4. RaftAgrees'
    BY SubjectsSame DEF CallsAgree, RaftAgrees
  <1> QED
    BY <1>1, <1>2, <1>3, <1>4 DEF CallsAgree

(* What the peers other than x know, when only x moves. *)
LEMMA OtherViews ==
    ASSUME LogOK, ViewsOK, NEW x \in Peers, SameCalls, UNCHANGED <<log, raftPeers>>,
           \A p \in Peers : p # x =>
               /\ node'[p] = node[p] /\ peermap'[p] = peermap[p] /\ applied'[p] = applied[p]
               /\ saved'[p] = saved[p] /\ snap'[p] = snap[p] /\ (p \in unsaved => p \in unsaved'),
           (ViewOK(x))'
    PROVE  ViewsOK'
  <1> SUFFICES ASSUME NEW p \in Peers, p # x PROVE (ViewOK(p))'
    BY DEF ViewsOK
  <1>1. (Exempt(p))' = Exempt(p) /\ (Trying(p))' = Trying(p)
    BY ExemptSame DEF SameCalls
  <1>2. (Steady(p))' => Steady(p)
    BY SubjectsSame DEF Steady
  <1>3. ViewOK(p)
    BY DEF ViewsOK
  <1> QED
    BY <1>1, <1>2, <1>3, ViewKept

(* Where the processes are, when no process moves. *)
LEMMA NodesKept ==
    ASSUME NodesOK, UNCHANGED <<node, snap, applied, saved, unsaved>>,
           \A p \in Peers : call'[p].op = call[p].op
    PROVE  NodesOK'
  BY DEF NodesOK

-----------------------------------------------------------------------------
(* Agreement, step by step: LogAddPeer and LogRmPeer.                      *)

(* The operation of a call. *)
LEMMA OpOfCall ==
    ASSUME CallOK, NEW c \in Peers
    PROVE  OpOf(c) \in Op /\ OpOf(c).peer = call[c].peer /\ OpOf(c).type = TypeOf(call[c].op)
  BY DEF CallOK, Call, OpOf, Op, TypeOf

(* Where a call that can commit runs. *)
LEMMA CommitterUp ==
    ASSUME PeersOK, NodesOK, NEW c \in Peers, CanCommit(c), call[c].op = "add", AddOK(c)
    PROVE  node[c] \in {"up", "removed"} /\ c \in raftPeers
  <1>1. node[c] \in Nodes /\ node[c] \notin {"off", "quiet", "reset"} /\ c \in raftPeers
    BY DEF PeersOK, CanCommit, RaftRuns
  <1>2. node[c] \notin {"failed"} \cup Booting
    BY DEF NodesOK
  <1> QED
    BY <1>1, <1>2 DEF Nodes, Booting

(* The commit makes or unmakes a member, and is still to be applied by all. *)
LEMMA CommitOpAgree ==
    ASSUME Inv, Agree, NEW c \in Peers, CommitOp(c)
    PROVE  Agree'
  <1>0. LogOK /\ PeersOK /\ CallOK /\ CallsAgree /\ NodesOK /\ ViewsOK
    BY DEF Inv, Agree
  <1>1. /\ call[c].pc = "commit" /\ CanCommit(c) /\ log' = Append(log, OpOf(c)) /\ Step(c, "raft")
        /\ UNCHANGED <<raftPeers, applied, snap, node, peermap, saved, unsaved>>
    BY DEF CommitOp, peerVars, histVars
  <1>2. GoesTo(c, "raft") /\ call[c].op \in {"add", "rm", "leave"}
    BY <1>0, <1>1, StepGoes DEF Pcs, CallOK, Call, Ops
  <1>3. PICK o \in Op : o = OpOf(c) /\ o.peer = call[c].peer /\ o.type = TypeOf(call[c].op)
    BY <1>0, OpOfCall
  <1>4. log \in Seq(Op) /\ log' = Append(log, o) /\ applied[c] \in 0 .. Len(log)
    BY <1>0, <1>1, <1>3 DEF LogOK
  <1>5. /\ Member(log', call[c].peer) <=> call[c].op = "add"
        /\ \A y : y # call[c].peer => (Member(log', y) <=> Member(log, y))
    BY <1>3, <1>4, MembersAppend DEF TypeOf
  <1>6. CallsAgree'
    <2>1. CASE call[c].op = "add"
      <3>1. AddOK(c)
        BY <1>0, <2>1 DEF CallsAgree, AddsOK
      <3>2. node[c] \in {"up", "removed"} /\ c \in raftPeers
        BY <1>0, <1>1, <2>1, <3>1, CommitterUp
      <3>3. OnlyAdds(log', call[c].peer, applied[c])
        BY <1>3, <1>4, <2>1, <3>1, MembersAppend DEF AddOK, TypeOf
      <3>4. (AddOK(c))'
        BY <1>1, <1>2, <1>5, <2>1, <3>1, <3>2, <3>3 DEF AddOK, GoesTo
      <3> QED
        BY <1>0, <1>1, <1>2, <1>5, <2>1, <3>4, AdditionGoes
    <2>2. CASE call[c].op \in {"rm", "leave"}
      BY <1>0, <1>1, <1>2, <1>5, <2>2, RemovalGoes
    <2> QED
      BY <1>2, <2>1, <2>2
  <1>7. NodesOK'
    BY <1>0, <1>1, <1>2, NodesKept DEF GoesTo
  <1>8. ViewsOK'
    <2>1. node[c] \notin {"quiet", "reset"}
      BY <1>1 DEF CanCommit, RaftRuns
    <2> QED
      BY <1>0, <1>1, <1>2, <1>3, <1>5, <2>1, ViewsGo
  <1> QED
    BY <1>6, <1>7, <1>8 DEF Agree

(* A commit that fails may have made or unmade a member; the call goes on. *)
LEMMA CommitFailsAgree ==
    ASSUME Inv, Agree, NEW c \in Peers, CommitFails(c)
    PROVE  Agree'
  <1>0. LogOK /\ PeersOK /\ CallOK /\ CallsAgree /\ NodesOK /\ ViewsOK
    BY DEF Inv, Agree
  <1>1. /\ call[c].pc = "commit" /\ NextTry(c) /\ log' \in {log, Append(log, OpOf(c))}
        /\ UNCHANGED <<raftPeers, applied, snap, node, peermap, saved, unsaved>>
    BY DEF CommitFails, peerVars, histVars
  <1>2. PICK pc \in {"commit", "failed"} : GoesTo(c, pc)
    BY <1>0, <1>1, NextTryGoes
  <1>3. call[c].op \in {"add", "rm", "leave"}
    BY <1>0, <1>1 DEF CallOK, Call, Ops
  <1>4. PICK o \in Op : o = OpOf(c) /\ o.peer = call[c].peer /\ o.type = TypeOf(call[c].op)
    BY <1>0, OpOfCall
  <1>5. log \in Seq(Op) /\ (log' = log \/ log' = Append(log, o)) /\ applied[c] \in 0 .. Len(log)
    BY <1>0, <1>1, <1>4 DEF LogOK
  <1>6. /\ Member(log', call[c].peer) => Member(log, call[c].peer) \/ call[c].op = "add"
        /\ \A y : y # call[c].peer => (Member(log', y) <=> Member(log, y))
        /\ OnlyAdds(log, call[c].peer, applied[c]) /\ call[c].op = "add" =>
              OnlyAdds(log', call[c].peer, applied[c])
    <2>1. CASE log' = log
      BY <2>1
    <2>2. CASE log' = Append(log, o)
      BY <1>4, <1>5, <2>2, MembersAppend DEF TypeOf
    <2> QED
      BY <1>5, <2>1, <2>2
  <1>7. CallsAgree'
    <2>1. CASE call[c].op = "add"
      <3>1. AddOK(c)
        BY <1>0, <2>1 DEF CallsAgree, AddsOK
      <3>2. OnlyAdds(log', call[c].peer, applied[c])
        BY <1>6, <2>1, <3>1 DEF AddOK
      <3>3. (AddOK(c))'
        BY <1>1, <1>2, <2>1, <3>1, <3>2 DEF AddOK, GoesTo
      <3> QED
        BY <1>0, <1>1, <1>2, <1>6, <2>1, <3>3, AdditionGoes
    <2>2. CASE call[c].op \in {"rm", "leave"}
      BY <1>0, <1>1, <1>2, <1>6, <2>2, RemovalGoes
    <2> QED
      BY <1>3, <2>1, <2>2
  <1>8. NodesOK'
    BY <1>0, <1>1, <1>2, NodesKept DEF GoesTo
  <1>9. ViewsOK'
    BY <1>0, <1>1, <1>2, <1>3, <1>5, ViewsGo
  <1> QED
    BY <1>7, <1>8, <1>9 DEF Agree

(* Raft's peer set follows the log. *)
LEMMA RaftChangeAgree ==
    ASSUME Inv, Agree, NEW c \in Peers, RaftChange(c)
    PROVE  Agree'
  <1>0. LogOK /\ PeersOK /\ CallOK /\ CallsAgree /\ NodesOK /\ ViewsOK
    BY DEF Inv, Agree
  <1>1. /\ call[c].pc = "raft" /\ Committed(c)
        /\ UNCHANGED <<log, applied, snap, node, peermap, saved, unsaved>>
        /\ \/ NoChange(c) /\ UNCHANGED <<raftPeers, reach>>
           \/ ~NoChange(c) /\ ChangePeers(c)
    BY DEF RaftChange, peerVars, histVars
  <1>2. call[c].op \in {"add", "rm", "leave"}
    BY <1>0, <1>1 DEF CallOK, Call, Ops
  <1>3. \A x : x # call[c].peer => (x \in raftPeers' <=> x \in raftPeers)
    BY <1>0, <1>1, PeerSetGoes
  <1>4. call[c].peer \in raftPeers' <=> call[c].op = "add"
    BY <1>1 DEF NoChange, hasPeer, ChangePeers
  <1>5. NodesOK' /\ ViewsOK' /\ CallsAgree'
    <2>1. ASSUME NEW pc \in {"list", "tell", "reset"}, GoesTo(c, pc), call[c].op = "add" <=> pc = "list"
          PROVE  NodesOK' /\ ViewsOK' /\ CallsAgree'
      <3>1. NodesOK'
        BY <1>0, <1>1, <2>1, NodesKept DEF GoesTo
      <3>2. \A x \in Peers : x \in raftPeers' => x \in raftPeers \/ Adding(call, x)
        BY <1>3, <1>4 DEF Adding
      <3>3. ViewsOK'
        BY <1>0, <1>1, <1>2, <2>1, <3>2, ViewsGo
      <3>4. CASE call[c].op = "add"
        <4>1. AddOK(c)
          BY <1>0, <3>4 DEF CallsAgree, AddsOK
        <4>2. (AddOK(c))'
          BY <1>1, <1>3, <1>4, <2>1, <3>4, <4>1 DEF AddOK, GoesTo
        <4> QED
          BY <1>0, <1>1, <1>3, <2>1, <3>1, <3>3, <3>4, <4>2, AdditionGoes
      <3>5. CASE call[c].op \in {"rm", "leave"}
        <4>1. ~Member(log, call[c].peer)
          BY <1>0, <1>1, <3>5 DEF CallsAgree, RmsOK, RmOK
        <4>2. CallsAgree'
          BY <1>0, <1>1, <1>3, <1>4, <2>1, <3>5, <4>1, RemovalGoes
        <4> QED
          BY <3>1, <3>3, <4>2
      <3> QED
        BY <1>2, <3>4, <3>5
    <2>2. CASE call[c].op = "add"
      <3>1. Step(c, "list")
        BY <1>1, <2>2 DEF Committed
      <3>2. GoesTo(c, "list")
        BY <1>0, <1>1, <2>2, <3>1, StepGoes DEF Pcs
      <3> QED
        BY <2>1, <2>2, <3>2
    <2>3. CASE call[c].op = "rm"
      <3>1. Step(c, "tell")
        BY <1>1, <2>3 DEF Committed
      <3>2. GoesTo(c, "tell")
        BY <1>0, <1>1, <2>3, <3>1, StepGoes DEF Pcs
      <3> QED
        BY <2>1, <2>3, <3>2
    <2>4. CASE call[c].op = "leave"
      <3>1. Step(c, "reset")
        BY <1>1, <2>4 DEF Committed
      <3>2. GoesTo(c, "reset")
        BY <1>0, <1>1, <2>4, <3>1, StepGoes DEF Pcs
      <3> QED
        BY <2>1, <2>4, <3>2
    <2> QED
      BY <1>2, <2>2, <2>3, <2>4
  <1> QED
    BY <1>5 DEF Agree

(* Raft's peer set may have followed the log; the call goes on. *)
LEMMA RaftChangeFailsAgree ==
    ASSUME Inv, Agree, NEW c \in Peers, RaftChangeFails(c)
    PROVE  Agree'
  <1>0. LogOK /\ PeersOK /\ CallOK /\ CallsAgree /\ NodesOK /\ ViewsOK
    BY DEF Inv, Agree
  <1>1. /\ call[c].pc = "raft" /\ NextTry(c)
        /\ UNCHANGED <<log, applied, snap, node, peermap, saved, unsaved>>
        /\ UNCHANGED <<raftPeers, reach>> \/ ChangePeers(c)
    BY DEF RaftChangeFails, AfterRaftError, peerVars, histVars
  <1>2. call[c].op \in {"add", "rm", "leave"}
    BY <1>0, <1>1 DEF CallOK, Call, Ops
  <1>3. \A x : x # call[c].peer => (x \in raftPeers' <=> x \in raftPeers)
    BY <1>0, <1>1, PeerSetGoes
  <1>4. call[c].peer \in raftPeers' => call[c].op = "add" \/ call[c].peer \in raftPeers
    BY <1>1 DEF ChangePeers
  <1>5. PICK pc \in {"commit", "failed"} : GoesTo(c, pc)
    BY <1>0, <1>1, NextTryGoes
  <1>6. NodesOK'
    BY <1>0, <1>1, <1>5, NodesKept DEF GoesTo
  <1>7. ViewsOK'
    <2>1. \A x \in Peers : x \in raftPeers' => x \in raftPeers \/ Adding(call, x)
      BY <1>3, <1>4 DEF Adding
    <2> QED
      BY <1>0, <1>1, <1>2, <1>5, <2>1, ViewsGo
  <1>8. CallsAgree'
    <2>1. CASE call[c].op = "add"
      <3>1. AddOK(c)
        BY <1>0, <2>1 DEF CallsAgree, AddsOK
      <3>2. (AddOK(c))'
        BY <1>1, <1>5, <3>1 DEF AddOK, GoesTo
      <3> QED
        BY <1>0, <1>1, <1>3, <1>5, <2>1, <3>2, AdditionGoes
    <2>2. CASE call[c].op \in {"rm", "leave"}
      BY <1>0, <1>1, <1>3, <1>4, <1>5, <2>2, RemovalGoes
    <2> QED
      BY <1>2, <2>1, <2>2
  <1> QED
    BY <1>6, <1>7, <1>8 DEF Agree

-----------------------------------------------------------------------------
(* Agreement, step by step: Cluster.PeerAdd.                               *)

(* What is known to a peer beyond the members it lacks does no harm. *)
LEMMA CompleteMore ==
    ASSUME NEW l, NEW S, NEW T, NEW n, Complete(l, S, n), S \subseteq T
    PROVE  Complete(l, T, n)
  BY DEF Complete

(* PeerAdd starts alone, in a peer that has applied the log. *)
LEMMA PeerAddAgree ==
    ASSUME Inv, Agree, ~trouble', NEW c \in Peers, NEW x \in Peers, PeerAdd(c, x)
    PROVE  Agree'
  <1>0. LogOK /\ PeersOK /\ CallOK /\ CallsAgree /\ NodesOK /\ ViewsOK
    BY DEF Inv, Agree
  <1>1. /\ call[c].op = "none" /\ Begin(c, "add", x, "ping") /\ x # c
        /\ (node[c] # "off" /\ c = Contact) \/ node[c] = "up"
        /\ UNCHANGED <<log, raftPeers, applied, snap, node, saved, unsaved>>
    BY DEF PeerAdd, raftVars, Answers
  <1>2. Starts(c, "add", x, "ping")
    BY <1>0, <1>1, BeginGoes DEF Ops
  <1>3. CaughtUp(c) /\ \A d \in Peers : call[d].op = "none"
    BY <1>1 DEF Begin, Busy
  <1>4. /\ call'[c].op = "add" /\ call'[c].peer = x /\ call'[c].pc = "ping"
        /\ \A d \in Peers : d # c => call'[d].op = "none"
    BY <1>2, <1>3 DEF Starts
  <1>5. peermap'[c] = peermap[c] \cup {x} /\ \A q \in Peers : q # c => peermap'[q] = peermap[q]
    BY <1>0 DEF PeerAdd, addPeer, addFromMultiaddrs, PeersOK
  <1>6. CallsAgree'
    <2>1. SoleAdd' /\ RmsOK'
      BY <1>4 DEF SoleAdd, RmsOK
    <2>2. OnlyAdds(log, x, applied[c])
      <3>1. Len(log) \in Nat /\ applied[c] = Len(log)
        BY <1>0, <1>3 DEF LogOK, CaughtUp
      <3> QED
        BY <3>1 DEF OnlyAdds
    <2>3. (AddOK(c))'
      BY <1>1, <1>4, <1>5, <2>2 DEF AddOK
    <2>4. AddsOK'
      BY <1>4, <2>3 DEF AddsOK
    <2>5. RaftAgrees'
      BY <1>0, <1>1, <1>2, SubjectsStart DEF CallsAgree, RaftAgrees
    <2> QED
      BY <2>1, <2>4, <2>5 DEF CallsAgree
  <1>7. NodesOK'
    <2>1. node[c] \notin Booting \cup {"off"}
      BY <1>0, <1>1 DEF NodesOK, Booting, Joining
    <2> QED
      BY <1>0, <1>1, <1>4, <2>1 DEF NodesOK
  <1>8. ASSUME NEW p \in Peers PROVE (ViewOK(p))'
    <2>1. ViewOK(p)
      BY <1>0 DEF ViewsOK
    <2>2. (Steady(p))' => Steady(p)
      BY <1>1, <1>2, SubjectsStart DEF Steady
    <2>3. CASE p # c
      <3>1. (Exempt(p))' = Exempt(p) /\ (Trying(p))' = Trying(p)
        BY <1>1, <1>3, <1>4, <2>3, ExemptSame
      <3> QED
        BY <1>0, <1>1, <1>5, <2>1, <2>2, <2>3, <3>1, ViewKept
    <2>4. CASE p = c
      <3>1. Trying(p) = {} /\ (Trying(p))' = {x}
        BY <1>1, <1>4, <2>4 DEF Trying
      <3>2. \A y \in Exempt(p) \cup {x} : y \in (Exempt(p))'
        BY <1>1, <1>4, <2>4, <3>1 DEF Exempt, Booting, Joining
      <3>3. (MapOK(p))'
        <4> SUFFICES ASSUME node[p] # "off" PROVE Current(log, peermap'[p] \ (Exempt(p))', applied[p])
          BY <1>1 DEF MapOK
        <4>1. Current(log, peermap[p] \ Exempt(p), applied[p])
          BY <2>1 DEF ViewOK, MapOK
        <4> QED
          BY <1>5, <2>4, <3>2, <4>1 DEF Current
      <3>4. (FileOK(p))'
        BY <1>1, <2>1 DEF ViewOK, FileOK
      <3>5. ASSUME (Steady(p))' PROVE (MapFull(p))' /\ (FileFull(p))'
        <4>1. MapFull(p) /\ FileFull(p)
          BY <2>1, <2>2, <3>5 DEF ViewOK
        <4>2. peermap[p] \subseteq peermap'[p]
          BY <1>5, <2>4
        <4>3. (MapFull(p))'
          BY <1>1, <1>5, <2>4, <3>1, <4>1, <4>2, CompleteMore DEF MapFull
        <4> QED
          BY <1>1, <4>1, <4>3 DEF FileFull
      <3> QED
        BY <3>3, <3>4, <3>5 DEF ViewOK
    <2> QED
      BY <2>3, <2>4
  <1> QED
    BY <1>6, <1>7, <1>8 DEF Agree, ViewsOK

(* The newcomer answers, or does not. *)
LEMMA PingAgree ==
    ASSUME Inv, Agree, NEW c \in Peers, Ping(c)
    PROVE  Agree'
  <1>0. LogOK /\ PeersOK /\ CallOK /\ CallsAgree /\ NodesOK /\ ViewsOK
    BY DEF Inv, Agree
  <1>1. PICK pc \in {"commit", "failed"} : Step(c, pc)
    BY DEF Ping
  <1>2. /\ call[c].pc = "ping"
        /\ UNCHANGED <<log, raftPeers, applied, snap, node, peermap, saved, unsaved>>
    BY DEF Ping, raftVars, peerVars, histVars
  <1>3. GoesTo(c, pc) /\ call[c].op = "add"
    BY <1>0, <1>1, <1>2, StepGoes DEF Pcs, CallOK
  <1>4. AddOK(c)
    BY <1>0, <1>3 DEF CallsAgree, AddsOK
  <1>5. (AddOK(c))'
    BY <1>1, <1>2, <1>3, <1>4 DEF AddOK, GoesTo
  <1>6. CallsAgree'
    BY <1>0, <1>2, <1>3, <1>5, AdditionGoes
  <1>7. NodesOK'
    BY <1>0, <1>2, <1>3, NodesKept DEF GoesTo
  <1>8. ViewsOK'
    BY <1>0, <1>1, <1>2, <1>3, ViewsGo
  <1> QED
    BY <1>6, <1>7, <1>8 DEF Agree

(* The caller of PeerAdd is a member, and it knows exactly the members. *)
LEMMA CallerKnows ==
    ASSUME LogOK, CallOK, CallsAgree, NodesOK, ViewsOK, NEW c \in Peers,
           call[c].op = "add", call[c].pc \in {"list", "send"}
    PROVE  /\ Member(log, c)
           /\ \A y \in Peers \ {c} : y \in peermap[c] <=> Member(log, y)
  <1>1. AddOK(c) /\ ViewOK(c)
    BY DEF CallsAgree, AddsOK, ViewsOK
  <1>2. PICK x \in Peers : x = call[c].peer
    BY DEF CallOK, Call
  <1>3. /\ x # c /\ node[c] \in {"up", "removed"} /\ c \in raftPeers /\ Member(log, x)
        /\ x \in peermap[c] /\ OnlyAdds(log, x, applied[c])
    BY <1>1, <1>2 DEF AddOK
  <1>4. \A d \in Peers : d # c => call[d].op = "none"
    BY DEF CallsAgree, SoleAdd
  <1>5. ~Subject(call, c) /\ ~Adding(call, c)
    BY <1>2, <1>3, <1>4 DEF Subject, Adding
  <1>6. Member(log, c)
    BY <1>3, <1>5 DEF CallsAgree, RaftAgrees
  <1>7. Exempt(c) = {c}
    BY <1>3 DEF Exempt, Trying, Booting, Joining
  <1>8. \A y : Later(log, y, applied[c]) => y = x
    BY <1>3 DEF Later, OnlyAdds
  <1>9. Current(log, peermap[c] \ {c}, applied[c])
    BY <1>1, <1>3, <1>7 DEF ViewOK, MapOK
  <1>10. Complete(log, peermap[c], applied[c])
    BY <1>1, <1>3, <1>5 DEF ViewOK, MapFull, Steady
  <1>11. ASSUME NEW y \in Peers, y # c PROVE y \in peermap[c] <=> Member(log, y)
    <2>1. y \in peermap[c] => Member(log, y)
      BY <1>3, <1>8, <1>9, <1>11 DEF Current
    <2>2. Member(log, y) => y \in peermap[c]
      BY <1>3, <1>8, <1>10 DEF Complete
    <2> QED
      BY <2>1, <2>2
  <1> QED
    BY <1>6, <1>11

(* The list for the newcomer is the list of the members. *)
LEMMA MakeListAgree ==
    ASSUME Inv, Agree, NEW c \in Peers, MakeList(c)
    PROVE  Agree'
  <1>0. LogOK /\ PeersOK /\ CallOK /\ CallsAgree /\ NodesOK /\ ViewsOK
    BY DEF Inv, Agree
  <1>1. /\ call[c].pc = "list"
        /\ UNCHANGED <<log, raftPeers, applied, snap, node, peermap, saved, unsaved>>
        /\ call' = [call EXCEPT ![c].pc = "send", ![c].list = ListFor(c)]
    BY DEF MakeList, raftVars, peerVars, histVars
  <1>2. call[c] \in Call /\ call[c].op = "add" /\ call \in [Peers -> Call]
    BY <1>0, <1>1 DEF CallOK
  <1>3. PICK k : k = [[call[c] EXCEPT !.pc = "send"] EXCEPT !.list = ListFor(c)]
    OBVIOUS
  <1>4. /\ k.pc = "send" /\ k.op = "add" /\ k.peer = call[c].peer /\ k.alone = call[c].alone
        /\ k.list = ListFor(c)
    BY <1>2, <1>3 DEF Call
  <1>5. call' = [call EXCEPT ![c] = k]
    BY <1>1, <1>2, <1>3
  <1>6. call'[c] = k /\ GoesTo(c, "send")
    BY <1>2, <1>4, <1>5 DEF GoesTo
  <1>7. \A y \in Peers : y \in call'[c].list <=> Member(log, y)
    <2>1. /\ Member(log, c)
          /\ \A y \in Peers \ {c} : y \in peermap[c] <=> Member(log, y)
      BY <1>0, <1>1, <1>2, CallerKnows
    <2> QED
      BY <1>4, <1>6, <2>1 DEF ListFor, peersAddrs
  <1>8. AddOK(c)
    BY <1>0, <1>2 DEF CallsAgree, AddsOK
  <1>9. (AddOK(c))'
    <2>1. call'[c].peer = call[c].peer /\ call'[c].pc = "send"
      BY <1>4, <1>6
    <2>2. /\ call[c].peer # c /\ (node[c] = "up" \/ c = Contact) /\ call[c].peer \in peermap[c]
          /\ OnlyAdds(log, call[c].peer, applied[c])
          /\ node[c] \in {"up", "removed"} /\ c \in raftPeers /\ Member(log, call[c].peer)
          /\ call[c].peer \in raftPeers
      BY <1>1, <1>8 DEF AddOK
    <2>3. UNCHANGED <<log, raftPeers, applied, node, peermap>>
      BY <1>1
    <2> QED
      BY <1>7, <2>1, <2>2, <2>3 DEF AddOK
  <1>10. CallsAgree'
    BY <1>0, <1>1, <1>2, <1>6, <1>9, AdditionGoes
  <1>11. NodesOK'
    BY <1>0, <1>1, <1>6, NodesKept DEF GoesTo
  <1>12. ViewsOK'
    BY <1>0, <1>1, <1>2, <1>6, ViewsGo
  <1> QED
    BY <1>10, <1>11, <1>12 DEF Agree

(* Where the answer of a successful PeerAdd takes the newcomer. *)
LEMMA AnsweredWell ==
    ASSUME PeersOK, NEW c \in Peers, NEW x \in Peers, x = call[c].peer, Answered(c, TRUE)
    PROVE  /\ \A q \in Peers : q # x => node'[q] = node[q]
           /\ \/ node'[x] = node[x]
              \/ c = Contact /\ node[x] \in Joining /\ node'[x] \in {"boot1", "up"}
  <1>1. PICK v : v = CASE c = Contact /\ node[x] = "join2" -> "boot1"
                       [] c = Contact /\ node[x] = "join1" -> IF TRUE THEN "up" ELSE "failed"
                       [] OTHER -> node[x]
    OBVIOUS
  <1>2. node' = [node EXCEPT ![x] = v]
    BY <1>1 DEF Answered
  <1>3. node'[x] = v /\ \A q \in Peers : q # x => node'[q] = node[q]
    BY <1>2 DEF PeersOK
  <1>4. v = node[x] \/ (c = Contact /\ node[x] \in Joining /\ v \in {"boot1", "up"})
    <2>1. CASE c = Contact /\ node[x] = "join2"
      BY <1>1, <2>1 DEF Joining
    <2>2. CASE c = Contact /\ node[x] = "join1"
      BY <1>1, <2>2 DEF Joining
    <2>3. CASE ~(c = Contact /\ node[x] = "join2") /\ ~(c = Contact /\ node[x] = "join1")
      BY <1>1, <2>3
    <2> QED
      BY <2>1, <2>2, <2>3
  <1> QED
    BY <1>3, <1>4

(* The newcomer learns of all the members. *)
LEMMA SendListAgree ==
    ASSUME Inv, Agree, ~trouble', NEW c \in Peers, SendList(c)
    PROVE  Agree'
  <1>0. LogOK /\ PeersOK /\ CallOK /\ CallsAgree /\ NodesOK /\ ViewsOK
    BY DEF Inv, Agree
  <1>1. PICK x \in Peers : x = call[c].peer
    BY <1>0 DEF CallOK, Call
  <1>2. /\ call[c].pc = "send" /\ Answered(c, TRUE) /\ Return(c)
        /\ UNCHANGED <<log, raftPeers, applied, snap, saved>>
    BY DEF SendList, raftVars
  <1>3. /\ node[x] # "off" /\ addFromMultiaddrs(x, call[c].list) /\ unsaved' = unsaved \cup {x}
    BY <1>1 DEF SendList, Trouble, Answers
  <1>4. Returns(c)
    BY <1>0, <1>2, ReturnGoes DEF Return
  <1>5. call[c].op = "add"
    BY <1>0, <1>2 DEF CallOK
  <1>6. AddOK(c)
    BY <1>0, <1>5 DEF CallsAgree, AddsOK
  <1>7. /\ x # c /\ x \in raftPeers /\ Member(log, x)
        /\ \A y \in Peers : y \in call[c].list <=> Member(log, y)
    BY <1>1, <1>2, <1>6 DEF AddOK
  <1>8. \A d \in Peers : d # c => call[d].op = "none" /\ call'[d] = call[d]
    BY <1>0, <1>4, <1>5 DEF CallsAgree, SoleAdd, Returns
  <1>9. \A d \in Peers : call'[d].op = "none"
    BY <1>4, <1>8 DEF Returns
  <1>10. /\ \A q \in Peers : q # x => node'[q] = node[q]
         /\ \/ node'[x] = node[x]
            \/ c = Contact /\ node[x] \in Joining /\ node'[x] \in {"boot1", "up"}
    BY <1>0, <1>1, <1>2, AnsweredWell
  <1>11. /\ peermap'[x] = peermap[x] \cup call[c].list
         /\ \A q \in Peers : q # x => peermap'[q] = peermap[q]
    BY <1>0, <1>3 DEF addFromMultiaddrs, PeersOK
  <1>12. CallsAgree'
    BY <1>0, <1>1, <1>2, <1>4, <1>5, <1>7, CallEnds
  <1>13. NodesOK'
    <2>1. Contact \in Peers
      BY PeersAssumption
    <2>2. node'[Contact] = node[Contact]
      BY <1>7, <1>10, <2>1
    <2>3. ASSUME NEW p \in Peers
          PROVE  /\ node'[p] # "failed"
                 /\ node'[p] \in {"quiet", "reset"} => node[p] = node'[p]
                 /\ node'[p] = "off" => node[p] = "off" /\ p # x
      BY <1>0, <1>3, <1>10 DEF NodesOK
    <2>4. node'[Contact] \notin Booting
      BY <1>0, <2>2 DEF NodesOK
    <2>5. ASSUME NEW p \in Peers
          PROVE  /\ node'[p] \in {"quiet", "reset"} => snap'[p] = applied'[p]
                 /\ node'[p] = "off" => p \notin unsaved' \/ saved'[p] = {}
      BY <1>0, <1>2, <1>3, <2>3 DEF NodesOK
    <2> QED
      BY <1>9, <2>3, <2>4, <2>5 DEF NodesOK
  <1>14. ASSUME NEW p \in Peers, p # x PROVE (ViewOK(p))'
    <2>1. ViewOK(p)
      BY <1>0 DEF ViewsOK
    <2>2. (Steady(p))' => Steady(p)
      BY <1>1, <1>2, <1>4, <1>14, SubjectsReturn DEF Steady
    <2>3. Trying(p) = {}
      BY <1>2, <1>8 DEF Trying
    <2>4. \A y \in Exempt(p) : y \in (Exempt(p))'
      BY <1>9, <1>10, <1>14, <2>3 DEF Exempt
    <2> QED
      BY <1>0, <1>2, <1>3, <1>10, <1>11, <1>14, <2>1, <2>2, <2>3, <2>4, ViewKept
  <1>15. (ViewOK(x))'
    <2>1. Member(log, c)
      BY <1>0, <1>2, <1>5, CallerKnows
    <2>2. call[x].op = "none" /\ Trying(x) = {} /\ (Trying(x))' = {}
      BY <1>7, <1>8, <1>9 DEF Trying
    <2>3. \A y \in Exempt(x) : y \in (Exempt(x))' \/ Member(log, y)
      BY <1>9, <1>10, <2>1, <2>2 DEF Exempt, Booting, Joining
    <2>4. (MapOK(x))'
      <3>1. Current(log, peermap[x] \ Exempt(x), applied[x])
        BY <1>0, <1>3 DEF ViewsOK, ViewOK, MapOK
      <3>2. \A y \in call[c].list : Member(log, y)
        <4>1. call[c].list \subseteq Peers
          BY <1>0 DEF CallOK, Call
        <4> QED
          BY <1>7, <4>1
      <3>3. Current(log, peermap'[x] \ (Exempt(x))', applied[x])
        BY <1>11, <2>3, <3>1, <3>2 DEF Current
      <3> QED
        BY <1>2, <3>3 DEF MapOK
    <2>5. (FileOK(x))' /\ (FileFull(x))'
      BY <1>3 DEF FileOK, FileFull
    <2>6. (MapFull(x))'
      <3>1. Complete(log, peermap'[x], applied[x])
        BY <1>7, <1>11 DEF Complete
      <3> QED
        BY <1>2, <3>1 DEF MapFull
    <2> QED
      BY <2>4, <2>5, <2>6 DEF ViewOK
  <1> QED
    BY <1>12, <1>13, <1>14, <1>15 DEF Agree, ViewsOK

-----------------------------------------------------------------------------
(* Agreement, step by step: Cluster.PeerRemove, leaving and Shutdown.      *)

(* PeerRemove and Leave. *)
LEMMA RemovalStartsAgree ==
    ASSUME Inv, Agree, ~trouble', NEW c \in Peers, NEW x \in Peers, NEW op \in {"rm", "leave"},
           op = "leave" => x = c, call[c].op = "none", node[c] = "up", Begin(c, op, x, "commit"),
           UNCHANGED <<raftVars, peerVars, unsaved, relisted>>
    PROVE  Agree'
  <1>0. LogOK /\ PeersOK /\ CallOK /\ CallsAgree /\ NodesOK /\ ViewsOK
    BY DEF Inv, Agree
  <1>1. UNCHANGED <<log, raftPeers, applied, snap, node, peermap, saved, unsaved>>
    BY DEF raftVars, peerVars
  <1>2. Starts(c, op, x, "commit")
    BY <1>0, BeginGoes DEF Ops
  <1>3. \A d \in Peers : call[d].op # "add"
    BY DEF Begin, Busy
  <1>4. /\ call'[c].op = op /\ call'[c].peer = x /\ call'[c].pc = "commit"
        /\ \A d \in Peers : d # c =>
              call'[d].op = call[d].op /\ call'[d].peer = call[d].peer /\ call'[d].pc = call[d].pc
    BY <1>2 DEF Starts
  <1>5. CallsAgree'
    <2>1. \A d \in Peers : call'[d].op # "add"
      BY <1>3, <1>4
    <2>2. SoleAdd' /\ AddsOK'
      BY <2>1 DEF SoleAdd, AddsOK
    <2>3. RmsOK'
      <3> SUFFICES ASSUME NEW d \in Peers, call'[d].op \in {"rm", "leave"} PROVE (RmOK(d))'
        BY DEF RmsOK
      <3>1. CASE d = c
        BY <1>4, <3>1 DEF RmOK
      <3>2. CASE d # c
        <4>1. RmOK(d)
          BY <1>0, <1>4, <3>2 DEF CallsAgree, RmsOK
        <4> QED
          BY <1>1, <1>4, <3>2, <4>1 DEF RmOK
      <3> QED
        BY <3>1, <3>2
    <2>4. RaftAgrees'
      BY <1>0, <1>1, <1>2, SubjectsStart DEF CallsAgree, RaftAgrees
    <2> QED
      BY <2>2, <2>3, <2>4 DEF CallsAgree
  <1>6. NodesOK'
    BY <1>0, <1>1, <1>4 DEF NodesOK, Booting, Joining
  <1>7. ASSUME NEW p \in Peers PROVE (ViewOK(p))'
    <2>1. ViewOK(p)
      BY <1>0 DEF ViewsOK
    <2>2. (Steady(p))' => Steady(p)
      BY <1>1, <1>2, SubjectsStart DEF Steady
    <2>3. Trying(p) = {}
      BY <1>3 DEF Trying
    <2>4. \A y \in Exempt(p) : y \in (Exempt(p))'
      BY <1>1, <1>4, <2>3 DEF Exempt, Booting, Joining
    <2> QED
      BY <1>0, <1>1, <2>1, <2>2, <2>3, <2>4, ViewKept
  <1> QED
    BY <1>5, <1>6, <1>7 DEF Agree, ViewsOK

(* The removed peer forgets itself. *)
LEMMA TellRemovedAgree ==
    ASSUME Inv, Agree, NEW c \in Peers, TellRemoved(c)
    PROVE  Agree'
  <1>0. LogOK /\ PeersOK /\ CallOK /\ CallsAgree /\ NodesOK /\ ViewsOK
    BY DEF Inv, Agree
  <1>1. PICK x \in Peers : x = call[c].peer
    BY <1>0 DEF CallOK, Call
  <1>2. /\ call[c].pc = "tell" /\ Return(c)
        /\ UNCHANGED <<log, raftPeers, applied, snap, saved, unsaved>>
        /\ \/ /\ rmPeer(x, x) /\ node[x] # "off"
              /\ node' = [node EXCEPT ![x] = IF RaftRuns(x) THEN "removed" ELSE @]
           \/ UNCHANGED <<peermap, node>>
    BY <1>1 DEF TellRemoved, raftVars, Answers
  <1>3. Returns(c)
    BY <1>0, <1>2, ReturnGoes DEF Return
  <1>4. call[c].op = "rm"
    BY <1>0, <1>2 DEF CallOK
  <1>5. x \notin raftPeers /\ ~Member(log, x)
    BY <1>0, <1>1, <1>2, <1>4 DEF CallsAgree, RmsOK, RmOK
  <1>6. \A d \in Peers : call[d].op # "add"
    BY <1>0, <1>4 DEF CallsAgree, SoleAdd
  <1>7. /\ \A q \in Peers : q # x => node'[q] = node[q] /\ peermap'[q] = peermap[q]
        /\ peermap'[x] \subseteq peermap[x]
        /\ node'[x] = node[x] \/ (node'[x] = "removed" /\ node[x] \notin {"off", "quiet", "reset"})
    BY <1>0, <1>2 DEF PeersOK, rmPeer, RaftRuns
  <1>8. call'[c].op = "none" /\ \A d \in Peers : d # c => call'[d] = call[d]
    BY <1>3 DEF Returns
  <1>9. CallsAgree'
    BY <1>0, <1>1, <1>2, <1>3, <1>4, <1>5, CallEnds
  <1>10. NodesOK'
    <2>1. Contact \in Peers
      BY PeersAssumption
    <2>2. \A p \in Peers : node'[p] = node[p] \/ node'[p] = "removed"
      BY <1>7
    <2>3. node'[Contact] \notin Booting
      BY <1>0, <2>1, <2>2 DEF NodesOK, Booting, Joining
    <2>4. ASSUME NEW p \in Peers
          PROVE  /\ node'[p] # "failed"
                 /\ node'[p] \in Booting \cup {"off"} => call'[p].op = "none"
                 /\ node'[p] \in {"quiet", "reset"} => snap'[p] = applied'[p]
                 /\ node'[p] = "off" => p \notin unsaved' \/ saved'[p] = {}
      BY <1>0, <1>2, <1>8, <2>2 DEF NodesOK, Booting, Joining
    <2> QED
      BY <2>3, <2>4 DEF NodesOK
  <1>11. ASSUME NEW p \in Peers PROVE (ViewOK(p))'
    <2>1. ViewOK(p)
      BY <1>0 DEF ViewsOK
    <2>2. Trying(p) = {}
      BY <1>6 DEF Trying
    <2>3. \A y \in Exempt(p) : y \in (Exempt(p))'
      <3>1. node[p] \in Booting => call[p].op = "none"
        BY <1>0 DEF NodesOK
      <3>2. node'[p] = node[p] \/ node'[p] = "removed"
        BY <1>7
      <3>3. call[p].op = "none" => call'[p].op = "none"
        BY <1>8
      <3> QED
        BY <2>2, <3>1, <3>2, <3>3 DEF Exempt
    <2>4. CASE p # x
      <3>1. (Steady(p))' => Steady(p)
        BY <1>2, <1>3, <1>4, SubjectsReturn DEF Steady
      <3> QED
        BY <1>0, <1>2, <1>7, <2>1, <2>2, <2>3, <2>4, <3>1, ViewKept
    <2>5. CASE p = x
      <3>1. ~(Steady(p))'
        BY <1>2, <1>5, <2>5 DEF Steady
      <3>2. (FileOK(p))'
        BY <1>2, <2>1 DEF ViewOK, FileOK
      <3>3. (MapOK(p))'
        <4> SUFFICES ASSUME node'[p] # "off" PROVE Current(log, peermap'[p] \ (Exempt(p))', applied[p])
          BY <1>2 DEF MapOK
        <4>1. Current(log, peermap[p] \ Exempt(p), applied[p])
          BY <1>7, <2>1, <2>5 DEF ViewOK, MapOK
        <4> QED
          BY <1>7, <2>3, <2>5, <4>1 DEF Current
      <3> QED
        BY <3>1, <3>2, <3>3 DEF ViewOK
    <2> QED
      BY <2>4, <2>5
  <1> QED
    BY <1>9, <1>10, <1>11 DEF Agree, ViewsOK

(* A peer that left forgets everybody. *)
LEMMA LeaveResetAgree ==
    ASSUME Inv, Agree, ~trouble', NEW x \in Peers, LeaveReset(x)
    PROVE  Agree'
  <1>0. LogOK /\ PeersOK /\ CallOK /\ CallsAgree /\ NodesOK /\ ViewsOK
    BY DEF Inv, Agree
  <1>1. /\ call[x].op = "leave" /\ call[x].pc = "reset" /\ Step(x, "stop")
        /\ peermap' = [peermap EXCEPT ![x] = {x}]
        /\ UNCHANGED <<log, raftPeers, applied, snap, node, saved, unsaved>>
    BY DEF LeaveReset, resetPeers, raftVars, Trouble
  <1>2. GoesTo(x, "stop")
    BY <1>0, <1>1, StepGoes DEF Pcs
  <1>3. call[x].peer = x /\ x \notin raftPeers /\ ~Member(log, x)
    BY <1>0, <1>1 DEF CallsAgree, RmsOK, RmOK
  <1>4. peermap'[x] = {x} /\ \A q \in Peers : q # x => peermap'[q] = peermap[q]
    BY <1>0, <1>1 DEF PeersOK
  <1>5. CallsAgree'
    BY <1>0, <1>1, <1>2, <1>3, RemovalGoes
  <1>6. NodesOK'
    BY <1>0, <1>1, <1>2, NodesKept DEF GoesTo
  <1>7. ASSUME NEW p \in Peers, p # x PROVE (ViewOK(p))'
    <2>1. ViewOK(p) /\ call'[p] = call[p]
      BY <1>0, <1>2, <1>7 DEF ViewsOK, GoesTo
    <2>2. (Exempt(p))' = Exempt(p) /\ (Trying(p))' = Trying(p)
      BY <1>1, <2>1, ExemptSame
    <2>3. (Steady(p))' => Steady(p)
      BY <1>1, <1>2, SubjectsGo DEF Steady
    <2> QED
      BY <1>0, <1>1, <1>4, <1>7, <2>1, <2>2, <2>3, ViewKept
  <1>8. (ViewOK(x))'
    <2>1. ~(Steady(x))'
      BY <1>1, <1>3 DEF Steady
    <2>2. (FileOK(x))'
      BY <1>0, <1>1 DEF ViewsOK, ViewOK, FileOK
    <2>3. x \in (Exempt(x))'
      BY DEF Exempt
    <2>4. (MapOK(x))'
      BY <1>4, <2>3 DEF MapOK, Current
    <2> QED
      BY <2>1, <2>2, <2>4 DEF ViewOK
  <1> QED
    BY <1>5, <1>6, <1>7, <1>8 DEF Agree, ViewsOK

(* A peer that stops Raft knows what it knew. *)
LEMMA ConsensusShutdownAgree ==
    ASSUME Inv, Agree, NEW x \in Peers, ConsensusShutdown(x)
    PROVE  Agree'
  <1>0. LogOK /\ PeersOK /\ CallOK /\ CallsAgree /\ NodesOK /\ ViewsOK
    BY DEF Inv, Agree
  <1>1. /\ node' = [node EXCEPT ![x] = "quiet"] /\ snap' = [snap EXCEPT ![x] = applied[x]]
        /\ unsaved' = unsaved \cup {x}
        /\ UNCHANGED <<log, raftPeers, applied, peermap, saved>>
    BY DEF ConsensusShutdown
  <1>2. /\ node'[x] = "quiet" /\ \A q \in Peers : q # x => node'[q] = node[q]
        /\ snap'[x] = applied[x] /\ \A q \in Peers : q # x => snap'[q] = snap[q]
    BY <1>0, <1>1 DEF PeersOK, LogOK
  <1>3. /\ node[x] \in {"up", "removed"} /\ (node[x] = "removed" => call[x].op # "none") /\ call[x].op # "add"
        /\ \A d \in Peers : d # x => call'[d] = call[d]
        /\ call'[x].op = "none"
        /\ \/ call[x].pc = "stop" /\ Returns(x)
           \/ UNCHANGED call
    <2>1. CASE call[x].pc = "stop" /\ RaftRuns(x) /\ Return(x)
      <3>1. Returns(x) /\ call[x].op = "leave"
        BY <1>0, <2>1, ReturnGoes DEF Return, CallOK
      <3>2. node[x] \in Nodes /\ node[x] \notin {"off", "quiet", "reset", "failed"} \cup Booting
        BY <1>0, <2>1, <3>1 DEF PeersOK, RaftRuns, NodesOK
      <3>3. node[x] \in {"up", "removed"}
        BY <3>2 DEF Nodes, Booting
      <3> QED
        BY <2>1, <3>1, <3>3 DEF Returns
    <2>2. CASE node[x] = "failed"
      BY <1>0, <2>2 DEF NodesOK
    <2>3. CASE node[x] = "up" /\ call[x].op = "none" /\ UNCHANGED call
      BY <2>3
    <2> QED
      BY <2>1, <2>2, <2>3 DEF ConsensusShutdown
  <1>4. CallsAgree'
    <2>1. CASE call[x].pc = "stop" /\ Returns(x)
      <3>1. call[x].op = "leave"
        BY <1>0, <2>1 DEF CallOK
      <3>2. call[x].peer \notin raftPeers /\ ~Member(log, call[x].peer)
        BY <1>0, <2>1, <3>1 DEF CallsAgree, RmsOK, RmOK
      <3> QED
        BY <1>0, <1>1, <2>1, <3>1, <3>2, CallEnds
    <2>2. CASE UNCHANGED call
      <3>1. SameCalls
        BY <2>2 DEF SameCalls
      <3>2. \A c \in Peers : call[c].op = "add" => /\ node'[c] = node[c] /\ call[c].peer \in peermap'[c]
                                                   /\ OnlyAdds(log, call[c].peer, applied'[c])
        BY <1>0, <1>1, <1>2, <1>3 DEF CallsAgree, AddsOK, AddOK
      <3> QED
        BY <1>0, <1>1, <3>1, <3>2, CallsAgreeSame
    <2> QED
      BY <1>3, <2>1, <2>2
  <1>5. NodesOK'
    <2>1. node'[Contact] \notin Booting
      BY <1>0, <1>2, PeersAssumption DEF NodesOK, Booting, Joining
    <2>2. ASSUME NEW p \in Peers, p # x
          PROVE  /\ node'[p] # "failed"
                 /\ node'[p] \in Booting \cup {"off"} => call'[p].op = "none"
                 /\ node'[p] \in {"quiet", "reset"} => snap'[p] = applied'[p]
                 /\ node'[p] = "off" => p \notin unsaved' \/ saved'[p] = {}
      BY <1>0, <1>1, <1>2, <1>3, <2>2 DEF NodesOK
    <2> QED
      BY <1>1, <1>2, <1>3, <2>1, <2>2 DEF NodesOK
  <1>6. \A p \in Peers : (Steady(p))' => Steady(p)
    BY <1>1, <1>3, SubjectsReturn DEF Steady
  <1>7. ASSUME NEW p \in Peers, p # x PROVE (ViewOK(p))'
    <2>1. ViewOK(p)
      BY <1>0 DEF ViewsOK
    <2>2. (Exempt(p))' = Exempt(p) /\ (Trying(p))' = Trying(p)
      BY <1>2, <1>3, <1>7, ExemptSame
    <2> QED
      BY <1>0, <1>1, <1>2, <1>6, <1>7, <2>1, <2>2, ViewKept
  <1>8. (ViewOK(x))'
    <2>1. ViewOK(x)
      BY <1>0 DEF ViewsOK
    <2>2. Exempt(x) = {x} /\ x \in (Exempt(x))'
      BY <1>3 DEF Exempt, Trying, Booting, Joining
    <2>3. (MapOK(x))'
      <3>1. Current(log, peermap[x] \ {x}, applied[x])
        BY <1>3, <2>1, <2>2 DEF ViewOK, MapOK
      <3>2. Current(log, peermap[x] \ (Exempt(x))', applied[x])
        BY <2>2, <3>1 DEF Current
      <3> QED
        BY <1>1, <3>2 DEF MapOK
    <2>4. (FileOK(x))' /\ (FileFull(x))'
      BY <1>1 DEF FileOK, FileFull
    <2>5. (Steady(x))' => (MapFull(x))'
      BY <1>1, <1>2, <1>3, <1>6, <2>1 DEF ViewOK, MapFull
    <2> QED
      BY <2>3, <2>4, <2>5 DEF ViewOK
  <1> QED
    BY <1>4, <1>5, <1>7, <1>8 DEF Agree, ViewsOK

(* A removed peer forgets everybody, unless a call of its own is running. *)
LEMMA RemovedStopsAgree ==
    ASSUME Inv, Agree, ~trouble', NEW x \in Peers, RemovedStops(x)
    PROVE  Agree'
  <1>0. LogOK /\ PeersOK /\ CallOK /\ CallsAgree /\ NodesOK /\ ViewsOK
    BY DEF Inv, Agree
  <1>1. /\ node' = [node EXCEPT ![x] = "reset"] /\ snap' = [snap EXCEPT ![x] = applied[x]]
        /\ peermap' = [peermap EXCEPT ![x] = {x}] /\ unsaved' = unsaved \cup {x}
        /\ UNCHANGED <<log, raftPeers, applied, saved, call>> /\ x \notin Busy
    BY DEF RemovedStops, resetPeers
  <1>2. /\ node'[x] = "reset" /\ \A q \in Peers : q # x => node'[q] = node[q]
        /\ snap'[x] = applied[x] /\ \A q \in Peers : q # x => snap'[q] = snap[q]
        /\ peermap'[x] = {x} /\ \A q \in Peers : q # x => peermap'[q] = peermap[q]
    BY <1>0, <1>1 DEF PeersOK, LogOK
  <1>3. call[x].op = "none" /\ SameCalls
    BY <1>1 DEF Busy, SameCalls
  <1>4. CallsAgree'
    <2>1. \A c \in Peers : call[c].op = "add" => /\ node'[c] = node[c] /\ call[c].peer \in peermap'[c]
                                                 /\ OnlyAdds(log, call[c].peer, applied'[c])
      BY <1>0, <1>1, <1>2, <1>3 DEF CallsAgree, AddsOK, AddOK
    <2> QED
      BY <1>0, <1>1, <1>3, <2>1, CallsAgreeSame
  <1>5. NodesOK'
    BY <1>0, <1>1, <1>2, PeersAssumption DEF NodesOK, Booting, Joining
  <1>6. (ViewOK(x))'
    <2>1. x \in (Exempt(x))'
      BY DEF Exempt
    <2>2. (MapOK(x))' /\ (FileOK(x))' /\ (MapFull(x))' /\ (FileFull(x))'
      BY <1>1, <1>2, <2>1 DEF MapOK, FileOK, MapFull, FileFull, Current
    <2> QED
      BY <2>2 DEF ViewOK
  <1>7. ViewsOK'
    BY <1>0, <1>1, <1>2, <1>3, <1>6, OtherViews
  <1> QED
    BY <1>4, <1>5, <1>7 DEF Agree

(* Stop and Crash: no call dies. *)
LEMMA ProcessEndsAgree ==
    ASSUME Inv, Agree, ~trouble', NEW x \in Peers, node[x] # "off", node' = [node EXCEPT ![x] = "off"], CallsDie(x),
           UNCHANGED <<raftVars, peermap>>,
           \/ UNCHANGED <<saved, unsaved>>
           \/ savePeers(x) /\ node[x] \in {"quiet", "reset"}
    PROVE  Agree'
  <1>0. LogOK /\ PeersOK /\ CallOK /\ CallsAgree /\ NodesOK /\ ViewsOK
    BY DEF Inv, Agree
  <1>1. UNCHANGED <<log, raftPeers, applied, snap, peermap>>
    BY DEF raftVars
  <1>2. node'[x] = "off" /\ \A q \in Peers : q # x => node'[q] = node[q]
    BY <1>0 DEF PeersOK
  <1>3. call[x].op = "none" /\ (x \notin unsaved' \/ saved[x] = {})
    BY DEF CallsDie, Busy
  <1>4. SameCalls
    <2>1. Returns(x)
      BY <1>0, ReturnGoes DEF CallsDie
    <2> QED
      BY <1>3, <2>1 DEF SameCalls, Returns
  <1>5. CallsAgree'
    <2>1. \A c \in Peers : call[c].op = "add" => /\ node'[c] = node[c] /\ call[c].peer \in peermap'[c]
                                                 /\ OnlyAdds(log, call[c].peer, applied'[c])
      BY <1>0, <1>1, <1>2, <1>3 DEF CallsAgree, AddsOK, AddOK
    <2> QED
      BY <1>0, <1>1, <1>4, <2>1, CallsAgreeSame
  <1>6. /\ \A q \in Peers : q # x => saved'[q] = saved[q] /\ (q \in unsaved' <=> q \in unsaved)
        /\ \/ saved'[x] = saved[x] /\ (x \in unsaved' <=> x \in unsaved)
           \/ saved'[x] = peermap[x] \ {x} /\ x \notin unsaved' /\ node[x] \in {"quiet", "reset"}
    BY <1>0 DEF savePeers, peersAddrs, PeersOK
  <1>7. NodesOK'
    <2>1. node'[Contact] \notin Booting
      BY <1>0, <1>2, PeersAssumption DEF NodesOK, Booting, Joining
    <2>2. ASSUME NEW p \in Peers, p # x
          PROVE  /\ node'[p] # "failed"
                 /\ node'[p] \in Booting \cup {"off"} => call'[p].op = "none"
                 /\ node'[p] \in {"quiet", "reset"} => snap'[p] = applied'[p]
                 /\ node'[p] = "off" => p \notin unsaved' \/ saved'[p] = {}
      BY <1>0, <1>1, <1>2, <1>4, <1>6, <2>2 DEF NodesOK, SameCalls
    <2>3. x \notin unsaved' \/ saved'[x] = {}
      BY <1>3, <1>6
    <2>4. call'[x].op = "none"
      BY <1>3, <1>4 DEF SameCalls
    <2> QED
      BY <1>2, <2>1, <2>2, <2>3, <2>4 DEF NodesOK
  <1>8. (ViewOK(x))'
    <2>1. ViewOK(x)
      BY <1>0 DEF ViewsOK
    <2>2. (MapOK(x))' /\ (MapFull(x))'
      BY <1>2 DEF MapOK, MapFull
    <2>3. (Steady(x))' => Steady(x)
      BY <1>1, <1>4, SubjectsSame DEF Steady
    <2>4. CASE saved'[x] = saved[x] /\ (x \in unsaved' <=> x \in unsaved)
      <3>1. (FileOK(x))' /\ (FileFull(x) => (FileFull(x))')
        BY <1>1, <2>1, <2>4 DEF ViewOK, FileOK, FileFull
      <3> QED
        BY <2>1, <2>2, <2>3, <3>1 DEF ViewOK
    <2>5. CASE saved'[x] = peermap[x] \ {x} /\ x \notin unsaved' /\ node[x] \in {"quiet", "reset"}
      <3>1. snap[x] = applied[x] /\ Trying(x) = {}
        BY <1>0, <1>3, <2>5 DEF NodesOK, Trying
      <3>2. Exempt(x) = {x}
        BY <2>5, <3>1 DEF Exempt, Booting, Joining
      <3>3. (FileOK(x))'
        BY <1>1, <2>1, <2>5, <3>1, <3>2 DEF ViewOK, MapOK, FileOK
      <3>4. ASSUME (Steady(x))' PROVE (FileFull(x))'
        <4> SUFFICES ASSUME saved'[x] # {} PROVE Complete(log, saved'[x] \cup {x}, snap[x])
          BY <1>1 DEF FileFull
        <4>1. Complete(log, peermap[x], applied[x]) \/ peermap[x] \subseteq {x}
          BY <2>1, <2>3, <2>5, <3>1, <3>4 DEF ViewOK, MapFull
        <4>2. Complete(log, peermap[x], snap[x])
          BY <2>5, <3>1, <4>1
        <4>3. peermap[x] \subseteq saved'[x] \cup {x}
          BY <2>5
        <4> QED
          BY <4>2, <4>3, CompleteMore
      <3> QED
        BY <2>2, <3>3, <3>4 DEF ViewOK
    <2> QED
      BY <1>6, <2>4, <2>5
  <1>9. ViewsOK'
    BY <1>0, <1>1, <1>2, <1>4, <1>6, <1>8, OtherViews
  <1> QED
    BY <1>5, <1>7, <1>9 DEF Agree

-----------------------------------------------------------------------------
(* Agreement, step by step: starting and joining.                          *)

(* A peer starts with what its file and its snapshot say. *)
LEMMA StartAgree ==
    ASSUME Inv, Agree, NEW x \in Peers, Start(x)
    PROVE  Agree'
  <1>0. LogOK /\ PeersOK /\ CallOK /\ CallsAgree /\ NodesOK /\ ViewsOK
    BY DEF Inv, Agree
  <1>1. /\ node[x] = "off" /\ (saved[x] = {} => x # Contact)
        /\ applied' = [applied EXCEPT ![x] = snap[x]]
        /\ UNCHANGED <<log, raftPeers, snap, saved, call, unsaved>>
    BY DEF Start, histVars
  <1>2. /\ call[x].op = "none" /\ (x \notin unsaved \/ saved[x] = {})
        /\ SameCalls
        /\ applied'[x] = snap[x] /\ \A q \in Peers : q # x => applied'[q] = applied[q]
    BY <1>0, <1>1 DEF NodesOK, LogOK, SameCalls
  <1>3. /\ \A q \in Peers : q # x => node'[q] = node[q] /\ peermap'[q] = peermap[q]
        /\ \/ saved[x] = {} /\ node'[x] = "boot2" /\ peermap'[x] = {x, Contact}
           \/ saved[x] # {} /\ node'[x] = "up" /\ peermap'[x] = {x} \cup saved[x]
    BY <1>0 DEF Start, PeersOK
  <1>4. CallsAgree'
    <2>1. \A c \in Peers : call[c].op = "add" => /\ node'[c] = node[c] /\ call[c].peer \in peermap'[c]
                                                 /\ OnlyAdds(log, call[c].peer, applied'[c])
      BY <1>0, <1>2, <1>3 DEF CallsAgree, AddsOK, AddOK
    <2> QED
      BY <1>0, <1>1, <1>2, <2>1, CallsAgreeSame
  <1>5. NodesOK'
    <2>1. node'[Contact] \notin Booting
      BY <1>0, <1>1, <1>3, PeersAssumption DEF NodesOK, Booting, Joining
    <2>2. ASSUME NEW p \in Peers, p # x
          PROVE  /\ node'[p] # "failed"
                 /\ node'[p] \in Booting \cup {"off"} => call'[p].op = "none"
                 /\ node'[p] \in {"quiet", "reset"} => snap'[p] = applied'[p]
                 /\ node'[p] = "off" => p \notin unsaved' \/ saved'[p] = {}
      BY <1>0, <1>1, <1>2, <1>3, <2>2 DEF NodesOK
    <2>3. node'[x] \in {"boot2", "up"} /\ call'[x].op = "none"
      BY <1>1, <1>2, <1>3
    <2> QED
      BY <2>1, <2>2, <2>3 DEF NodesOK
  <1>6. (ViewOK(x))'
    <2>1. ViewOK(x)
      BY <1>0 DEF ViewsOK
    <2>2. (FileOK(x))' /\ (FileFull(x) => (FileFull(x))')
      BY <1>1, <2>1 DEF ViewOK, FileOK, FileFull
    <2>3. (Steady(x))' => Steady(x)
      BY <1>1 DEF Steady
    <2>4. CASE saved[x] = {}
      <3>1. node'[x] = "boot2" /\ peermap'[x] = {x, Contact}
        BY <1>3, <2>4
      <3>2. x \in (Exempt(x))' /\ Contact \in (Exempt(x))'
        BY <3>1 DEF Exempt, Booting
      <3>3. (MapOK(x))'
        BY <3>1, <3>2 DEF MapOK, Current
      <3>4. (MapFull(x))'
        BY <3>1 DEF MapFull
      <3> QED
        BY <2>1, <2>2, <2>3, <3>3, <3>4 DEF ViewOK
    <2>5. CASE saved[x] # {}
      <3>1. node'[x] = "up" /\ peermap'[x] = {x} \cup saved[x] /\ x \notin unsaved
        BY <1>2, <1>3, <2>5
      <3>2. x \in (Exempt(x))'
        BY DEF Exempt
      <3>3. Current(log, saved[x], snap[x])
        BY <2>1, <3>1 DEF ViewOK, FileOK
      <3>4. Current(log, peermap'[x] \ (Exempt(x))', snap[x])
        BY <3>1, <3>2, <3>3 DEF Current
      <3>5. (MapOK(x))'
        BY <1>1, <1>2, <3>4 DEF MapOK
      <3>6. (Steady(x))' => (MapFull(x))'
        <4> SUFFICES ASSUME (Steady(x))' PROVE (MapFull(x))'
          OBVIOUS
        <4>1. Complete(log, saved[x] \cup {x}, snap[x])
          BY <2>1, <2>3, <2>5, <3>1 DEF ViewOK, FileFull
        <4>2. Complete(log, peermap'[x], snap[x])
          BY <3>1, <4>1, CompleteMore
        <4> QED
          BY <1>1, <1>2, <3>1, <4>2 DEF MapFull
      <3> QED
        BY <2>1, <2>2, <2>3, <3>5, <3>6 DEF ViewOK
    <2> QED
      BY <2>4, <2>5
  <1>7. ViewsOK'
    BY <1>0, <1>1, <1>2, <1>3, <1>6, OtherViews
  <1> QED
    BY <1>4, <1>5, <1>7 DEF Agree

(* A peer that bootstraps knows the contact. *)
LEMMA JoinAgree ==
    ASSUME Inv, Agree, NEW x \in Peers, Join(x)
    PROVE  Agree'
  <1>0. LogOK /\ PeersOK /\ CallOK /\ CallsAgree /\ NodesOK /\ ViewsOK
    BY DEF Inv, Agree
  <1>1. /\ node[x] \in {"boot2", "boot1"}
        /\ UNCHANGED <<log, raftPeers, applied, snap, saved, call, unsaved>>
    BY DEF Join, raftVars, histVars
  <1>2. /\ \A q \in Peers : q # x => node'[q] = node[q] /\ peermap'[q] = peermap[q]
        /\ node'[x] \in Joining /\ peermap'[x] = peermap[x] \cup {Contact}
    BY <1>0 DEF Join, addPeer, addFromMultiaddrs, PeersOK, Joining
  <1>3. call[x].op = "none" /\ SameCalls
    BY <1>0, <1>1 DEF NodesOK, SameCalls, Booting
  <1>4. CallsAgree'
    <2>1. \A c \in Peers : call[c].op = "add" => /\ node'[c] = node[c] /\ call[c].peer \in peermap'[c]
                                                 /\ OnlyAdds(log, call[c].peer, applied'[c])
      BY <1>0, <1>1, <1>2, <1>3 DEF CallsAgree, AddsOK, AddOK
    <2> QED
      BY <1>0, <1>1, <1>3, <2>1, CallsAgreeSame
  <1>5. NodesOK'
    <2>1. x # Contact
      BY <1>0, <1>1 DEF NodesOK, Booting
    <2> QED
      BY <1>0, <1>1, <1>2, <1>3, <2>1, PeersAssumption DEF NodesOK, Joining
  <1>6. (ViewOK(x))'
    <2>1. ViewOK(x)
      BY <1>0 DEF ViewsOK
    <2>2. (Exempt(x))' = {x, Contact} /\ Exempt(x) = {x, Contact}
      BY <1>1, <1>2, <1>3 DEF Exempt, Trying, Booting
    <2>3. (MapOK(x))'
      <3>1. Current(log, peermap[x] \ {x, Contact}, applied[x])
        BY <1>1, <2>1, <2>2 DEF ViewOK, MapOK
      <3>2. Current(log, peermap'[x] \ {x, Contact}, applied[x])
        BY <1>2, <3>1 DEF Current
      <3> QED
        BY <1>1, <2>2, <3>2 DEF MapOK
    <2>4. (FileOK(x))' /\ (FileFull(x) => (FileFull(x))')
      BY <1>1, <2>1 DEF ViewOK, FileOK, FileFull
    <2>5. (MapFull(x))'
      BY <1>2 DEF MapFull, Joining
    <2>6. (Steady(x))' => Steady(x)
      BY <1>1 DEF Steady
    <2> QED
      BY <2>1, <2>3, <2>4, <2>5, <2>6 DEF ViewOK
  <1>7. ViewsOK'
    BY <1>0, <1>1, <1>2, <1>3, <1>6, OtherViews
  <1> QED
    BY <1>4, <1>5, <1>7 DEF Agree

-----------------------------------------------------------------------------
(* Agreement, step by step: Raft.                                          *)

(* A peer that applies an operation knows what it says. *)
LEMMA ApplyAgree ==
    ASSUME Inv, Agree, NEW p \in Peers, Apply(p)
    PROVE  Agree'
  <1>0. LogOK /\ PeersOK /\ CallOK /\ CallsAgree /\ NodesOK /\ ViewsOK
    BY DEF Inv, Agree
  <1>1. /\ log \in Seq(Op) /\ Len(log) \in Nat
        /\ applied[p] \in 0 .. Len(log) /\ applied[p] + 1 \in 0 .. Len(log) /\ applied[p] < Len(log)
    BY <1>0 DEF Apply, Reach, LogOK
  <1>2. PICK o \in Op : o = log[applied[p] + 1]
    BY <1>1
  <1>3. /\ node[p] \notin {"off", "quiet", "reset"} /\ ApplyTo(p, o)
        /\ applied' = [applied EXCEPT ![p] = applied[p] + 1]
        /\ UNCHANGED <<log, raftPeers, snap, node, saved, call, unsaved>>
    BY <1>2 DEF Apply, RaftRuns, histVars
  <1>4. /\ peermap'[p] = Applied(peermap[p], o) /\ \A q \in Peers : q # p => peermap'[q] = peermap[q]
        /\ applied'[p] = applied[p] + 1 /\ \A q \in Peers : q # p => applied'[q] = applied[q]
    BY <1>0, <1>3 DEF ApplyTo, addPeer, addFromMultiaddrs, rmPeer, Applied, PeersOK, LogOK
  <1>5. SameCalls
    BY <1>3 DEF SameCalls
  <1>6. CallsAgree'
    <2>1. ASSUME NEW c \in Peers, call[c].op = "add"
          PROVE  call[c].peer \in peermap'[c] /\ OnlyAdds(log, call[c].peer, applied'[c])
      <3>1. call[c].peer \in peermap[c] /\ OnlyAdds(log, call[c].peer, applied[c])
        BY <1>0, <2>1 DEF CallsAgree, AddsOK, AddOK
      <3>2. CASE c = p
        <4>1. o.type = "LogOpAddPeer"
          BY <1>1, <1>2, <3>1, <3>2 DEF OnlyAdds
        <4>2. OnlyAdds(log, call[c].peer, applied[p] + 1)
          BY <1>1, <3>1, <3>2, OnlyAddsLater
        <4> QED
          BY <1>4, <3>1, <3>2, <4>1, <4>2 DEF Applied
      <3>3. CASE c # p
        BY <1>4, <3>1, <3>3
      <3> QED
        BY <3>2, <3>3
    <2> QED
      BY <1>0, <1>3, <1>5, <2>1, CallsAgreeSame
  <1>7. NodesOK'
    BY <1>0, <1>3, <1>4 DEF NodesOK
  <1>8. (ViewOK(p))'
    <2>1. ViewOK(p)
      BY <1>0 DEF ViewsOK
    <2>2. (Exempt(p))' = Exempt(p)
      BY <1>3, ExemptSame
    <2>3. PICK E : E = Exempt(p)
      OBVIOUS
    <2>4. (MapOK(p))'
      <3>1. Current(log, peermap[p] \ E, applied[p])
        BY <1>3, <2>1, <2>3 DEF ViewOK, MapOK
      <3>2. Current(log, peermap'[p] \ E, applied[p] + 1)
        BY <1>1, <1>2, <1>4, <3>1, ViewsApply
      <3> QED
        BY <1>3, <1>4, <2>2, <2>3, <3>2 DEF MapOK
    <2>5. (FileOK(p))' /\ (FileFull(p) => (FileFull(p))')
      BY <1>3, <2>1 DEF ViewOK, FileOK, FileFull
    <2>6. (Steady(p))' => Steady(p)
      BY <1>3 DEF Steady
    <2>7. MapFull(p) => (MapFull(p))'
      <3>1. Complete(log, peermap[p], applied[p]) => Complete(log, peermap'[p], applied[p] + 1)
        BY <1>1, <1>2, <1>4, ViewsApply
      <3> QED
        BY <1>3, <1>4, <3>1 DEF MapFull
    <2> QED
      BY <2>1, <2>4, <2>5, <2>6, <2>7 DEF ViewOK
  <1>9. ViewsOK'
    BY <1>0, <1>3, <1>4, <1>5, <1>8, OtherViews
  <1> QED
    BY <1>6, <1>7, <1>9 DEF Agree

(* A snapshot may say more than the file does. *)
LEMMA TakeSnapshotAgree ==
    ASSUME Inv, Agree, NEW p \in Peers, TakeSnapshot(p)
    PROVE  Agree'
  <1>0. LogOK /\ PeersOK /\ CallOK /\ CallsAgree /\ NodesOK /\ ViewsOK
    BY DEF Inv, Agree
  <1>1. /\ node[p] \notin {"off", "quiet", "reset"}
        /\ snap' = [snap EXCEPT ![p] = applied[p]] /\ unsaved' = unsaved \cup {p}
        /\ UNCHANGED <<log, raftPeers, applied, node, peermap, saved, call>>
    BY DEF TakeSnapshot, RaftRuns, peerVars
  <1>2. \A q \in Peers : q # p => snap'[q] = snap[q]
    BY <1>0, <1>1 DEF LogOK
  <1>3. SameCalls
    BY <1>1 DEF SameCalls
  <1>4. CallsAgree'
    <2>1. \A c \in Peers : call[c].op = "add" => /\ call[c].peer \in peermap'[c]
                                                 /\ OnlyAdds(log, call[c].peer, applied'[c])
      BY <1>0, <1>1 DEF CallsAgree, AddsOK, AddOK
    <2> QED
      BY <1>0, <1>1, <1>3, <2>1, CallsAgreeSame
  <1>5. NodesOK'
    BY <1>0, <1>1, <1>2 DEF NodesOK
  <1>6. (ViewOK(p))'
    <2>1. ViewOK(p)
      BY <1>0 DEF ViewsOK
    <2>2. (Exempt(p))' = Exempt(p) /\ (Trying(p))' = Trying(p)
      BY <1>1, ExemptSame
    <2>3. (MapOK(p))' /\ (MapFull(p) => (MapFull(p))')
      BY <1>1, <2>1, <2>2 DEF ViewOK, MapOK, MapFull
    <2>4. (FileOK(p))' /\ (FileFull(p))'
      BY <1>1 DEF FileOK, FileFull
    <2>5. (Steady(p))' => Steady(p)
      BY <1>1 DEF Steady
    <2> QED
      BY <2>1, <2>3, <2>4, <2>5 DEF ViewOK
  <1>7. ViewsOK'
    BY <1>0, <1>1, <1>2, <1>3, <1>6, OtherViews
  <1> QED
    BY <1>4, <1>5, <1>7 DEF Agree

(* A newcomer that skips operations gets a list as well. *)
LEMMA InstallSnapshotAgree ==
    ASSUME Inv, Agree, ~trouble', NEW p \in Peers, NEW q \in Peers, InstallSnapshot(p, q)
    PROVE  Agree'
  <1>0. LogOK /\ PeersOK /\ CallOK /\ CallsAgree /\ NodesOK /\ ViewsOK
    BY DEF Inv, Agree
  <1>1. /\ node[p] \notin {"off", "quiet", "reset"} /\ applied[p] < snap[q]
        /\ applied' = [applied EXCEPT ![p] = snap[q]] /\ snap' = [snap EXCEPT ![p] = snap[q]]
        /\ unsaved' = unsaved \cup {p}
        /\ UNCHANGED <<log, raftPeers, node, peermap, saved, call>>
    BY DEF InstallSnapshot, RaftRuns, peerVars
  <1>2. /\ \E c \in Peers : call[c].op = "add" /\ call[c].peer = p
        /\ \A i \in applied[p] + 1 .. snap[q] : ~(log[i].type = "LogOpRmPeer" /\ log[i].peer \in peermap[p])
    BY DEF InstallSnapshot, Trouble, Busy
  <1>3. PICK m \in 0 .. Len(log) : m = snap[q]
    BY <1>0 DEF LogOK
  <1>4. /\ log \in Seq(Op) /\ applied[p] \in 0 .. Len(log) /\ applied[p] <= m
        /\ applied'[p] = m /\ \A r \in Peers : r # p => applied'[r] = applied[r] /\ snap'[r] = snap[r]
    BY <1>0, <1>1, <1>3 DEF LogOK
  <1>5. SameCalls
    BY <1>1 DEF SameCalls
  <1>6. CallsAgree'
    <2>1. ASSUME NEW c \in Peers, call[c].op = "add"
          PROVE  call[c].peer \in peermap'[c] /\ OnlyAdds(log, call[c].peer, applied'[c])
      <3>1. call[c].peer \in peermap[c] /\ OnlyAdds(log, call[c].peer, applied[c])
        BY <1>0, <2>1 DEF CallsAgree, AddsOK, AddOK
      <3>2. CASE c = p
        BY <1>1, <1>4, <3>1, <3>2, OnlyAddsLater
      <3>3. CASE c # p
        BY <1>1, <1>4, <3>1, <3>3
      <3> QED
        BY <3>2, <3>3
    <2> QED
      BY <1>0, <1>1, <1>5, <2>1, CallsAgreeSame
  <1>7. NodesOK'
    BY <1>0, <1>1, <1>4 DEF NodesOK
  <1>8. (ViewOK(p))'
    <2>1. ViewOK(p)
      BY <1>0 DEF ViewsOK
    <2>2. (Exempt(p))' = Exempt(p)
      BY <1>1, ExemptSame
    <2>3. PICK S : S = peermap[p] \ Exempt(p)
      OBVIOUS
    <2>4. Current(log, S, applied[p])
      BY <1>1, <2>1, <2>3 DEF ViewOK, MapOK
    <2>5. Current(log, S, m)
      BY <1>2, <1>3, <1>4, <2>3, <2>4, ViewsSkip
    <2>6. (MapOK(p))'
      BY <1>1, <1>4, <2>2, <2>3, <2>5 DEF MapOK
    <2>7. (FileOK(p))' /\ ~(Steady(p))'
      BY <1>1, <1>2 DEF FileOK, Steady, Adding
    <2> QED
      BY <2>6, <2>7 DEF ViewOK
  <1>9. ViewsOK'
    BY <1>0, <1>1, <1>4, <1>5, <1>8, OtherViews
  <1> QED
    BY <1>6, <1>7, <1>9 DEF Agree

-----------------------------------------------------------------------------
(* Agreement in every behaviour.                                           *)

(* The founders know each other, the others only the contact. *)
LEMMA AgreeInit == Init => Agree
  <1> SUFFICES ASSUME Init PROVE Agree
    OBVIOUS
  <1>1. Contact \in Peers /\ Contact \in Founders /\ Founders \subseteq Peers
    BY PeersAssumption
  <1>2. \A c \in Peers : call[c].op = "none"
    BY IdleCall DEF Init
  <1>3. \A x : Member(log, x) <=> x \in Founders
    <2>1. \A x : LastOf(log, x) = "none"
      BY DEF Init, LastOf
    <2> QED
      BY <2>1 DEF Member
  <1>4. CallsAgree
    BY <1>2, <1>3 DEF Init, CallsAgree, SoleAdd, AddsOK, RmsOK, RaftAgrees
  <1>5. NodesOK
    BY <1>1, <1>2 DEF Init, NodesOK, Booting, Joining
  <1>6. ASSUME NEW p \in Peers PROVE ViewOK(p)
    <2>1. CASE p \in Founders
      <3>1. node[p] = "up" /\ peermap[p] = Founders /\ saved[p] = Founders \ {p}
        BY <2>1 DEF Init
      <3>2. \A S, n : (S \subseteq Founders => Current(log, S, n)) /\ (Founders \subseteq S => Complete(log, S, n))
        BY <1>3 DEF Current, Complete
      <3>3. Founders \subseteq saved[p] \cup {p} /\ saved[p] \subseteq Founders
        BY <3>1
      <3>4. MapOK(p)
        BY <3>1, <3>2 DEF MapOK
      <3>5. FileOK(p)
        BY <3>2, <3>3 DEF FileOK
      <3>6. MapFull(p)
        BY <3>1, <3>2 DEF MapFull
      <3>7. FileFull(p)
        BY <3>2, <3>3 DEF FileFull
      <3> QED
        BY <3>4, <3>5, <3>6, <3>7 DEF ViewOK
    <2>2. CASE p \notin Founders
      <3>1. node[p] = "boot2" /\ peermap[p] = {p, Contact} /\ saved[p] = {} /\ p \notin raftPeers
        BY <2>2 DEF Init
      <3>2. p \in Exempt(p) /\ Contact \in Exempt(p)
        BY <3>1 DEF Exempt, Booting
      <3>3. MapOK(p) /\ FileOK(p)
        BY <3>1, <3>2 DEF MapOK, FileOK, Current
      <3> QED
        BY <3>1, <3>3 DEF ViewOK, Steady
    <2> QED
      BY <2>1, <2>2
  <1> QED
    BY <1>4, <1>5, <1>6 DEF Agree, ViewsOK

(* Trouble is for ever, and no step without trouble ends the agreement. *)
LEMMA AgreeNext == Inv /\ AgreeInv /\ [Next]_vars => AgreeInv'
  <1> SUFFICES ASSUME Inv, AgreeInv, [Next]_vars, ~trouble' PROVE Agree'
    BY DEF AgreeInv
  <1>1. ASSUME NEW c \in Peers, CallStep(c) PROVE Agree'
    <2>1. ASSUME LogStep(c) PROVE Agree'
      <3>1. ~trouble
        BY <2>1 DEF LogStep, CommitOp, CommitFails, RaftChange, RaftChangeFails, histVars
      <3> QED
        BY <2>1, <3>1, CommitOpAgree, CommitFailsAgree, RaftChangeAgree, RaftChangeFailsAgree
           DEF LogStep, AgreeInv
    <2>2. ASSUME AddStep(c) PROVE Agree'
      <3>1. ~PeerAddFails(c)
        BY DEF PeerAddFails, Trouble
      <3>2. ~trouble
        BY <2>2, <3>1 DEF AddStep, Ping, MakeList, SendList, Trouble, histVars
      <3> QED
        BY <2>2, <3>1, <3>2, PingAgree, MakeListAgree, SendListAgree DEF AddStep, AgreeInv
    <2>3. ASSUME RmStep(c) PROVE Agree'
      <3>1. ~PeerRemoveFails(c)
        BY DEF PeerRemoveFails, Trouble
      <3>2. ~trouble
        BY <2>3, <3>1 DEF RmStep, TellRemoved
      <3> QED
        BY <2>3, <3>1, <3>2, TellRemovedAgree DEF RmStep, AgreeInv
    <2>4. ASSUME LeaveReset(c) PROVE Agree'
      <3>1. ~trouble
        BY <2>4 DEF LeaveReset, Trouble
      <3> QED
        BY <2>4, <3>1, LeaveResetAgree DEF AgreeInv
    <2> QED
      BY <1>1, <2>1, <2>2, <2>3, <2>4 DEF CallStep
  <1>2. ASSUME NEW c \in Peers, NEW x \in Peers, PeerAdd(c, x) PROVE Agree'
    <2>1. ~trouble
      BY <1>2 DEF PeerAdd, Begin
    <2> QED
      BY <1>2, <2>1, PeerAddAgree DEF AgreeInv
  <1>3. ASSUME NEW c \in Peers, NEW x \in Peers, PeerRemove(c, x) PROVE Agree'
    <2>1. ~trouble
      BY <1>3 DEF PeerRemove, Begin
    <2> QED
      BY <1>3, <2>1, RemovalStartsAgree DEF PeerRemove, AgreeInv
  <1>4. ASSUME NEW x \in Peers, Leave(x) PROVE Agree'
    <2>1. ~trouble
      BY <1>4 DEF Leave, Begin
    <2> QED
      BY <1>4, <2>1, RemovalStartsAgree DEF Leave, AgreeInv
  <1>5. ASSUME NEW x \in Peers, Stop(x) \/ Crash(x) PROVE Agree'
    <2>1. ~trouble
      BY <1>5 DEF Stop, Crash, CallsDie
    <2>2. CASE Stop(x)
      BY <2>1, <2>2, ProcessEndsAgree DEF Stop, AgreeInv
    <2>3. CASE Crash(x)
      BY <2>1, <2>3, ProcessEndsAgree DEF Crash, AgreeInv
    <2> QED
      BY <1>5, <2>2, <2>3
  <1>6. ASSUME NEW x \in Peers, RemovedStops(x) PROVE Agree'
    <2>1. ~trouble
      BY <1>6 DEF RemovedStops
    <2> QED
      BY <1>6, <2>1, RemovedStopsAgree DEF AgreeInv
  <1>7. ASSUME NEW x \in Peers,
               ConsensusShutdown(x) \/ Start(x) \/ Join(x) \/ JoinFails(x) \/ Apply(x) \/ TakeSnapshot(x)
        PROVE  Agree'
    <2>1. ~JoinFails(x)
      BY DEF JoinFails, Trouble
    <2>2. ~trouble
      BY <1>7, <2>1 DEF ConsensusShutdown, Start, Join, Apply, TakeSnapshot, histVars
    <2> QED
      BY <1>7, <2>1, <2>2, ConsensusShutdownAgree, StartAgree, JoinAgree, ApplyAgree, TakeSnapshotAgree
         DEF AgreeInv
  <1>8. ASSUME NEW p \in Peers, NEW q \in Peers, InstallSnapshot(p, q) PROVE Agree'
    <2>1. ~trouble
      BY <1>8 DEF InstallSnapshot, Trouble
    <2> QED
      BY <1>8, <2>1, InstallSnapshotAgree DEF AgreeInv
  <1>9. ASSUME UNCHANGED vars PROVE Agree'
    <2>1. UNCHANGED <<log, raftPeers, applied, snap, node, peermap, saved, call, unsaved, trouble>>
      BY <1>9 DEF vars, raftVars, peerVars, histVars
    <2>2. LogOK /\ CallsAgree /\ NodesOK /\ ViewsOK
      BY <2>1 DEF Inv, AgreeInv, Agree
    <2>3. SameCalls
      BY <2>1 DEF SameCalls
    <2>4. CallsAgree'
      <3>1. \A c \in Peers : call[c].op = "add" => /\ call[c].peer \in peermap'[c]
                                                   /\ OnlyAdds(log, call[c].peer, applied'[c])
        BY <2>1, <2>2 DEF CallsAgree, AddsOK, AddOK
      <3> QED
        BY <2>1, <2>2, <2>3, <3>1, CallsAgreeSame
    <2>5. NodesOK'
      BY <2>1, <2>2 DEF NodesOK
    <2>6. ASSUME NEW p \in Peers PROVE (ViewOK(p))'
      <3>1. ViewOK(p) /\ ((Steady(p))' => Steady(p))
        BY <2>1, <2>2 DEF ViewsOK, Steady
      <3>2. (Exempt(p))' = Exempt(p) /\ (Trying(p))' = Trying(p)
        BY <2>1, ExemptSame
      <3> QED
        BY <2>1, <2>2, <3>1, <3>2, ViewKept
    <2> QED
      BY <2>4, <2>5, <2>6 DEF Agree, ViewsOK
  <1> QED
    BY <1>1, <1>2, <1>3, <1>4, <1>5, <1>6, <1>7, <1>8, <1>9 DEF Next

(* All members agree on who the members are, and agree with Raft, whenever *)
(* the cluster has settled and nothing went wrong that PeerAdd, PeerRemove *)
(* and Shutdown do not repair: for any number of peers, calls, retries,    *)
(* crashes and restarts.                                                   *)
THEOREM SettledMembersAgree == Spec => []MembersAgree
  <1>1. Inv /\ AgreeInv => MembersAgree
    <2> SUFFICES ASSUME Inv, AgreeInv, Settled, ~trouble, NEW p \in raftPeers, node[p] = "up"
                 PROVE  peermap[p] = raftPeers
      BY DEF MembersAgree
    <2>1. LogOK /\ PeersOK /\ CallsAgree /\ NodesOK /\ ViewsOK
      BY DEF Inv, AgreeInv, Agree
    <2>2. raftPeers \subseteq Peers /\ p \in Peers /\ peermap[p] \subseteq Peers
      BY <2>1 DEF LogOK, PeersOK
    <2>3. \A c \in Peers : call[c].op = "none"
      BY DEF Settled, Busy
    <2>4. \A x \in Peers : x \in raftPeers <=> Member(log, x)
      BY <2>1, <2>3 DEF CallsAgree, RaftAgrees, Subject
    <2>5. \A x : ~Later(log, x, applied[p])
      <3>1. applied[p] = Len(log) /\ log \in Seq(Op)
        BY <2>1 DEF Settled, CaughtUp, LogOK
      <3> QED
        BY <3>1, NothingLater
    <2>6. Exempt(p) = {p} /\ Steady(p)
      BY <2>2, <2>3 DEF Exempt, Trying, Steady, Adding, Booting, Joining
    <2>7. ViewOK(p)
      BY <2>1, <2>2 DEF ViewsOK
    <2>8. Current(log, peermap[p] \ {p}, applied[p]) /\ Complete(log, peermap[p], applied[p])
      BY <2>6, <2>7 DEF ViewOK, MapOK, MapFull
    <2>9. \A x \in Peers : x \in peermap[p] \ {p} => Member(log, x)
      BY <2>5, <2>8 DEF Current
    <2>10. \A x \in Peers : Member(log, x) => x \in peermap[p]
      BY <2>5, <2>8 DEF Complete
    <2> QED
      BY <2>2, <2>4, <2>9, <2>10
  <1>2. Init => AgreeInv
    BY AgreeInit DEF AgreeInv
  <1>3. Spec => []AgreeInv
    BY <1>2, InvHolds, AgreeNext, PTL DEF Spec
  <1> QED
    BY <1>1, <1>3, InvHolds, PTL
=============================================================================
