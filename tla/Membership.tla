------------------------------ MODULE Membership ------------------------------
(***************************************************************************)
(* Who is in the cluster: Cluster.PeerAdd, PeerRemove and Join, the        *)
(* LogAddPeer and LogRmPeer loops of Consensus, every peer's peerManager   *)
(* and the ClusterPeers it saves, bootstrapping, leaving and Shutdown.     *)
(*                                                                         *)
(* The same fact is kept in four places: the operations in the Raft log,   *)
(* Raft's own peer set, each peermap and each saved configuration.  A call *)
(* changes them one after the other, with RPCs that may fail in between.   *)
(*                                                                         *)
(* Raft is external: one committed log, one committed peer set, peers that *)
(* apply the log at their own pace, snapshots that replace a prefix of it. *)
(* A loop of redirections runs LogAddPeer in the leader; a try that fails  *)
(* after the operation or Raft's change was made covers a lost answer and  *)
(* a deposed leader.  A multiaddress is the peer it names.                 *)
(***************************************************************************)
EXTENDS Integers, Sequences, FiniteSets, SequencesExt

CONSTANTS
    Peers,
    Founders,       \* started with each other in ClusterPeers
    Contact,        \* the Bootstrap entry of every other peer
    Operated,       \* bound: peers on which operators call PeerAdd, PeerRemove
    CommitRetries,
    MaxLag,         \* bound: operations a running member has yet to apply
                    \* when the next one is committed
    MaxCalls,       \* bound: calls of PeerAdd, PeerRemove, Shutdown by operators
    MaxFaults,      \* bound: requests that fail although the target is well,
                    \* crashes, and snapshots Raft takes on its own
    MaxStarts,      \* bound: starts of stopped peers
    GoesOn          \* TRUE: these events happen after trouble as well

ASSUME PeersAssumption == Founders \subseteq Peers /\ Contact \in Founders /\ Operated \subseteq Peers
ASSUME BoundsAssumption ==
    /\ CommitRetries \in Nat \ {0}
    /\ {MaxLag, MaxCalls, MaxFaults, MaxStarts} \subseteq Nat
    /\ GoesOn \in BOOLEAN

VARIABLES
    log,        \* committed LogOpAddPeer and LogOpRmPeer operations
    raftPeers,  \* Raft's peer set
    reach,      \* reach[p]: log entries Raft may have sent p before it left
    applied,    \* applied[p]: log entries p has applied
    snap,       \* snap[p]: log entries in p's last snapshot
    node,       \* node[p]: where p's process is
    peermap,    \* peermap[p]: the keys of peerManager.peermap
    saved,      \* saved[p]: ClusterPeers in p's configuration file
    call,       \* call[p]: the PeerAdd, PeerRemove or leave that p executes
    left,       \* what is left of the bounds
    \* The rest is history, for the properties.
    unsaved,    \* peers whose file does not show what a snapshot or a list
                \* has told them
    trouble,    \* something went wrong that MembersAgree does not forgive
    known,      \* known[x]: what the last call about x established
    relisted    \* peers that got a list since they last reset their peermap

raftVars == <<log, raftPeers, reach, applied, snap>>
peerVars == <<node, peermap, saved>>
histVars == <<unsaved, trouble, known, relisted>>
vars == <<raftVars, peerVars, call, left, histVars>>

-----------------------------------------------------------------------------
(* off: no process.  boot: about to Join, with the number of Joins to go.  *)
(* join: waiting for the contact's PeerAdd.  failed: the last Join failed. *)
(* removed: told to shut down.  quiet: Consensus is shut down, the rest is *)
(* not; reset: the same after a removal, with the peermap reset.           *)
Joining == {"join2", "join1"}
Nodes == {"off", "boot2", "boot1", "failed", "up", "removed", "quiet", "reset"} \cup Joining

Idle == [op |-> "none", peer |-> Contact, pc |-> "none", tries |-> 0,
         list |-> {}, alone |-> TRUE]

(* A process whose RPC server answers, and one whose Raft node works.      *)
Answers(p) == node[p] # "off"
RaftRuns_Reset(p) == node[p] \notin {"off", "quiet"}
RaftRuns(p) == node[p] \notin {"off", "quiet", "reset"}

Majority == {Q \in SUBSET raftPeers : 2 * Cardinality(Q) > Cardinality(raftPeers)}
CanCommit(c) == c \in raftPeers /\ RaftRuns(c) /\ {p \in raftPeers : RaftRuns(p)} \in Majority

(* One of the bounded events happens; without GoesOn none does after       *)
(* trouble, whose consequences are left to unfold.                         *)
Spend(kind) == /\ GoesOn \/ ~trouble
               /\ left[kind] > 0
               /\ left' = [left EXCEPT ![kind] = @ - 1]

-----------------------------------------------------------------------------
(* peerManager.                                                            *)

addFromMultiaddrs(p, list) == peermap' = [peermap EXCEPT ![p] = @ \cup list]
addPeer(p, x) == addFromMultiaddrs(p, {x})
rmPeer(p, x) == peermap' = [peermap EXCEPT ![p] = @ \ {x}]
resetPeers(p) == peermap' = [peermap EXCEPT ![p] = {p}]
peersAddrs_Self(p) == peermap[p]
peersAddrs(p) == peermap[p] \ {p}
isPeer(p, x) == x = p \/ x \in peermap[p]

(* savePeers, with the peermap as it is.                                   *)
savePeers(p) ==
    /\ saved' = [saved EXCEPT ![p] = peersAddrs(p)]
    /\ unsaved' = unsaved \ {p}

-----------------------------------------------------------------------------
(* The loops of LogAddPeer and LogRmPeer: commit the operation, then change *)
(* Raft's peer set, CommitRetries times at most.                            *)

Step(c, pc) == call' = [call EXCEPT ![c].pc = pc]
Return(c) == call' = [call EXCEPT ![c] = Idle]

(* continue: the next try starts with the commit again.                    *)
NextTry(c) ==
    IF call[c].tries > 1
    THEN call' = [call EXCEPT ![c].pc = "commit", ![c].tries = @ - 1]
    ELSE call' = [call EXCEPT ![c].pc = "failed", ![c].tries = 0]

OpOf(c) == [type |-> IF call[c].op = "add" THEN "LogOpAddPeer" ELSE "LogOpRmPeer",
            peer |-> call[c].peer]

InLag == \A p \in raftPeers : RaftRuns(p) => Len(log) - applied[p] <= MaxLag

CommitOp(c) ==
    /\ call[c].pc = "commit" /\ InLag
    /\ CanCommit(c)
    /\ log' = Append(log, OpOf(c))
    /\ Step(c, "raft")
    /\ UNCHANGED <<raftPeers, reach, applied, snap, peerVars, left, histVars>>

(* The redirection or the commit fails, and the operation may still be in  *)
(* the log.                                                                *)
CommitFails(c) ==
    /\ call[c].pc = "commit"
    /\ \/ /\ ~CanCommit(c)
          /\ UNCHANGED <<log, left>>
       \/ /\ CanCommit(c) /\ InLag
          /\ Spend("faults")
          /\ log' \in {log, Append(log, OpOf(c))}
    /\ NextTry(c)
    /\ UNCHANGED <<raftPeers, reach, applied, snap, peerVars, histVars>>

(* Raft commits the change of its peer set.                                *)
ChangePeers(c) ==
    LET x == call[c].peer
    IN  IF call[c].op = "add"
        THEN raftPeers' = raftPeers \cup {x} /\ UNCHANGED reach
        ELSE raftPeers' = raftPeers \ {x} /\ reach' = [reach EXCEPT ![x] = Len(log)]

hasPeer(c) == call[c].peer \in raftPeers

(* Raft.AddPeer and RemovePeer have nothing to do.                         *)
NoChange(c) == hasPeer(c) <=> call[c].op = "add"

Committed(c) ==
    Step(c, CASE call[c].op = "add" -> "list"
              [] call[c].op = "rm" -> "tell"
              [] call[c].op = "leave" -> "reset")

RaftChange(c) ==
    /\ call[c].pc = "raft"
    /\ \/ NoChange(c) /\ UNCHANGED <<raftPeers, reach>>
       \/ ~NoChange(c) /\ CanCommit(c) /\ ChangePeers(c)
    /\ Committed(c)
    /\ UNCHANGED <<log, applied, snap, peerVars, left, histVars>>

AfterRaftError_Ignored(c) == Committed(c)
AfterRaftError(c) == NextTry(c)

RaftChangeFails(c) ==
    /\ call[c].pc = "raft"
    /\ ~NoChange(c)
    /\ \/ ~CanCommit(c) /\ UNCHANGED <<raftPeers, reach, left>>
       \/ /\ CanCommit(c)
          /\ Spend("faults")
          /\ \/ UNCHANGED <<raftPeers, reach>>
             \/ ChangePeers(c)
    /\ AfterRaftError(c)
    /\ UNCHANGED <<log, applied, snap, peerVars, histVars>>

-----------------------------------------------------------------------------
(* What the properties remember of the calls.                              *)

Busy == {c \in Peers : call[c].op # "none"}
CaughtUp(p) == applied[p] = Len(log)

(* A call about x starts at c.  It is overlapped by others that could      *)
(* change the membership under it: an addition by any call, and by what c  *)
(* has yet to apply; a removal by an addition.                             *)
Begin(c, op, x, pc) ==
    /\ call' = [p \in Peers |->
                   IF p = c
                   THEN [op |-> op, peer |-> x, pc |-> pc, tries |-> CommitRetries,
                         list |-> {}, alone |-> \A b \in Busy : call[b].peer # x]
                   ELSE [call[p] EXCEPT !.alone = @ /\ (p \in Busy => call[p].peer # x)]]
    /\ known' = [known EXCEPT ![x] = "open"]
    /\ trouble' = \/ trouble
                  \/ op = "add" /\ (Busy # {} \/ ~CaughtUp(c))
                  \/ op # "add" /\ \E b \in Busy : call[b].op = "add"

(* The call at c succeeds, unless another one was about the same peer.     *)
Establish(c, what) ==
    known' = [known EXCEPT ![call[c].peer] = IF call[c].alone THEN what ELSE "open"]

Trouble == trouble' = TRUE

(* The answer of PeerAdd reaches the peer that is in Join.                 *)
Answered(c, ok) ==
    LET x == call[c].peer
    IN  node' = [node EXCEPT ![x] =
                    CASE c = Contact /\ @ = "join2" -> "boot1"
                      [] c = Contact /\ @ = "join1" -> IF ok THEN "up" ELSE "failed"
                      [] OTHER -> @]

-----------------------------------------------------------------------------
(* Cluster.PeerAdd, under paMux: one at a time in each peer.               *)

PeerAdd(c, x) ==
    /\ call[c].op = "none"
    /\ x # c
    /\ \/ Answers(c) /\ c = Contact /\ node[x] \in Joining /\ UNCHANGED left
       \/ /\ c \in Operated /\ node[c] = "up" /\ c \in raftPeers
          /\ node[x] \notin Joining /\ Spend("calls")
    /\ addPeer(c, x)
    /\ Begin(c, "add", x, "ping")
    /\ UNCHANGED <<raftVars, node, saved, unsaved, relisted>>

(* RemoteMultiaddrForPeer.                                                 *)
Ping(c) ==
    /\ call[c].pc = "ping"
    /\ \/ Answers(call[c].peer) /\ Step(c, "commit") /\ UNCHANGED left
       \/ ~Answers(call[c].peer) /\ Step(c, "failed") /\ UNCHANGED left
       \/ Answers(call[c].peer) /\ Spend("faults") /\ Step(c, "failed")
    /\ UNCHANGED <<raftVars, peerVars, histVars>>

(* The roll-back, here only: the log and Raft may have the peer.           *)
PeerAddFails(c) ==
    /\ call[c].pc = "failed" /\ call[c].op = "add"
    /\ rmPeer(c, call[c].peer)
    /\ Answered(c, FALSE)
    /\ Return(c)
    /\ Trouble
    /\ UNCHANGED <<raftVars, saved, left, unsaved, known, relisted>>

ListFor_OwnAddr(c) == {c}
ListFor(c) == peersAddrs(c) \cup {c}

MakeList(c) ==
    /\ call[c].pc = "list"
    /\ call' = [call EXCEPT ![c].pc = "send", ![c].list = ListFor(c)]
    /\ UNCHANGED <<raftVars, peerVars, left, histVars>>

(* PeerManagerAddFromMultiaddrs; an error is only logged.                  *)
SendList(c) ==
    /\ call[c].pc = "send"
    /\ \/ /\ Answers(call[c].peer)
          /\ addFromMultiaddrs(call[c].peer, call[c].list)
          /\ relisted' = relisted \cup {call[c].peer}
          /\ unsaved' = unsaved \cup {call[c].peer}
          /\ UNCHANGED <<left, trouble>>
       \/ /\ IF Answers(call[c].peer) THEN Spend("faults") ELSE UNCHANGED left
          /\ Trouble
          /\ UNCHANGED <<peermap, relisted, unsaved>>
    /\ Answered(c, TRUE)
    /\ Establish(c, "in")
    /\ Return(c)
    /\ UNCHANGED <<raftVars, saved>>

-----------------------------------------------------------------------------
(* Cluster.PeerRemove.                                                     *)

PeerRemove(c, x) ==
    /\ call[c].op = "none"
    /\ c \in Operated /\ node[c] = "up" /\ c \in raftPeers
    /\ Spend("calls")
    /\ isPeer(c, x)
    /\ Begin(c, "rm", x, "commit")
    /\ UNCHANGED <<raftVars, peerVars, unsaved, relisted>>

PeerRemoveFails(c) ==
    /\ call[c].pc = "failed" /\ call[c].op = "rm"
    /\ Return(c)
    /\ Trouble
    /\ UNCHANGED <<raftVars, peerVars, left, unsaved, known, relisted>>

(* PeerManagerRmPeerShutdown: rmPeer with selfShutdown; an error is only   *)
(* logged.                                                                 *)
TellRemoved(c) ==
    LET x == call[c].peer
    IN  /\ call[c].pc = "tell"
        /\ \/ /\ Answers(x)
              /\ rmPeer(x, x)
              /\ node' = [node EXCEPT ![x] = IF RaftRuns(x) THEN "removed" ELSE @]
              /\ UNCHANGED left
           \/ /\ IF Answers(x) THEN Spend("faults") ELSE UNCHANGED left
              /\ UNCHANGED <<peermap, node>>
        /\ Establish(c, "out")
        /\ Return(c)
        /\ UNCHANGED <<raftVars, saved, unsaved, trouble, relisted>>

(* The goroutine that rmPeer starts, up to its last sleep: Consensus takes *)
(* a snapshot and stops, then the peermap is reset, under a call that x    *)
(* may be executing as well.                                               *)
RemovedStops(x) ==
    /\ node[x] = "removed"
    /\ node' = [node EXCEPT ![x] = "reset"]
    /\ snap' = [snap EXCEPT ![x] = applied[x]]
    /\ unsaved' = unsaved \cup {x}
    /\ resetPeers(x)
    /\ relisted' = relisted \ {x}
    /\ trouble' = (trouble \/ x \in Busy)
    /\ UNCHANGED <<log, raftPeers, reach, applied, saved, call, left, known>>

-----------------------------------------------------------------------------
(* Cluster.Shutdown.                                                       *)

(* With LeaveOnShutdown: LogRmPeer of this peer first.                     *)
Leave(x) ==
    /\ call[x].op = "none"
    /\ node[x] = "up" /\ x \in raftPeers
    /\ Spend("calls")
    /\ Begin(x, "leave", x, "commit")
    /\ UNCHANGED <<raftVars, peerVars, unsaved, relisted>>

(* Whether that worked or not, the peermap is reset.                       *)
LeaveReset(x) ==
    /\ call[x].op = "leave" /\ call[x].pc \in {"reset", "failed"}
    /\ resetPeers(x)
    /\ IF call[x].pc = "reset" THEN Establish(x, "out") /\ UNCHANGED trouble
                              ELSE Trouble /\ UNCHANGED known
    /\ Step(x, "stop")
    /\ UNCHANGED <<raftVars, node, saved, left, unsaved, relisted>>

(* Consensus.Shutdown: the snapshot, then Raft stops.                      *)
ConsensusShutdown(x) ==
    /\ \/ call[x].pc = "stop" /\ RaftRuns(x) /\ Return(x) /\ UNCHANGED left
       \/ node[x] = "failed" /\ UNCHANGED <<call, left>>
       \/ node[x] = "up" /\ call[x].op = "none" /\ Spend("calls") /\ UNCHANGED call
    /\ node' = [node EXCEPT ![x] = "quiet"]
    /\ snap' = [snap EXCEPT ![x] = applied[x]]
    /\ unsaved' = unsaved \cup {x}
    /\ UNCHANGED <<log, raftPeers, reach, applied, peermap, saved, trouble, known, relisted>>

(* The calls of a process die with it.                                     *)
CallsDie(x) ==
    /\ call' = [call EXCEPT ![x] = Idle]
    /\ trouble' = (trouble \/ x \in Busy \/ (x \in unsaved' /\ saved[x] # {}))

Stop(x) ==
    /\ node[x] \in {"quiet", "reset"}
    /\ node' = [node EXCEPT ![x] = "off"]
    /\ savePeers(x)
    /\ CallsDie(x)
    /\ UNCHANGED <<raftVars, peermap, left, known, relisted>>

(* The process is killed: nothing is saved.                                *)
Crash(x) ==
    /\ node[x] # "off"
    /\ Spend("faults")
    /\ node' = [node EXCEPT ![x] = "off"]
    /\ UNCHANGED unsaved
    /\ CallsDie(x)
    /\ UNCHANGED <<raftVars, peermap, saved, known, relisted>>

-----------------------------------------------------------------------------
(* NewCluster.                                                             *)

(* setupPeerManager and NewConsensus: the peers of the file, or else the   *)
(* Bootstrap entry; Raft restores its snapshot and replays the rest.       *)
Start(x) ==
    /\ node[x] = "off"
    /\ saved[x] = {} => x # Contact
    /\ Spend("starts")
    /\ applied' = [applied EXCEPT ![x] = snap[x]]
    /\ IF saved[x] = {}
       THEN /\ node' = [node EXCEPT ![x] = "boot2"]
            /\ peermap' = [peermap EXCEPT ![x] = {x, Contact}]
       ELSE /\ node' = [node EXCEPT ![x] = "up"]
            /\ peermap' = [peermap EXCEPT ![x] = {x} \cup saved[x]]
    /\ UNCHANGED <<log, raftPeers, reach, snap, saved, call, histVars>>

(* bootstrap, which NewCluster calls twice: Join the contact.              *)
Join(x) ==
    /\ node[x] \in {"boot2", "boot1"}
    /\ addPeer(x, Contact)
    /\ node' = [node EXCEPT ![x] = IF @ = "boot2" THEN "join2" ELSE "join1"]
    /\ UNCHANGED <<raftVars, saved, call, left, histVars>>

(* The contact cannot be reached.  The first Join's failure is ignored;    *)
(* after the second the peer shuts down.  Its peermap keeps the contact.   *)
JoinFails(x) ==
    /\ node[x] \in Joining
    /\ ~Answers(Contact)
    /\ node' = [node EXCEPT ![x] = IF @ = "join2" THEN "boot1" ELSE "failed"]
    /\ Trouble
    /\ UNCHANGED <<raftVars, peermap, saved, call, left, unsaved, known, relisted>>

-----------------------------------------------------------------------------
(* Raft, and LogOp.ApplyTo.                                                *)

Reach(p) == IF p \in raftPeers THEN Len(log) ELSE reach[p]

ApplyTo(p, op) == IF op.type = "LogOpAddPeer" THEN addPeer(p, op.peer)
                                            ELSE rmPeer(p, op.peer)

Apply(p) ==
    /\ RaftRuns(p)
    /\ applied[p] < Reach(p)
    /\ ApplyTo(p, log[applied[p] + 1])
    /\ applied' = [applied EXCEPT ![p] = @ + 1]
    /\ UNCHANGED <<log, raftPeers, reach, snap, node, saved, call, left, histVars>>

(* Raft compacts p's log on its own.                                       *)
TakeSnapshot(p) ==
    /\ RaftRuns(p) /\ snap[p] < applied[p]
    /\ Spend("faults")
    /\ snap' = [snap EXCEPT ![p] = applied[p]]
    /\ unsaved' = unsaved \cup {p}
    /\ UNCHANGED <<log, raftPeers, reach, applied, peerVars, call, trouble, known, relisted>>

(* A peer that lags gets the leader's snapshot: the operations in it are   *)
(* never applied.  A peer that is being added gets a list as well, which   *)
(* makes up for it if no removal is among them.                            *)
InstallSnapshot(p, q) ==
    /\ RaftRuns(p) /\ RaftRuns(q) /\ {p, q} \subseteq raftPeers
    /\ applied[p] < snap[q]
    /\ applied' = [applied EXCEPT ![p] = snap[q]]
    /\ snap' = [snap EXCEPT ![p] = snap[q]]
    /\ unsaved' = unsaved \cup {p}
    /\ IF \/ \A c \in Busy : call[c].op = "add" => call[c].peer # p
          \/ \E i \in applied[p] + 1 .. snap[q] :
                log[i].type = "LogOpRmPeer" /\ log[i].peer \in peermap[p]
       THEN Trouble ELSE UNCHANGED trouble
    /\ UNCHANGED <<log, raftPeers, reach, peerVars, call, left, known, relisted>>

-----------------------------------------------------------------------------
Init ==
    /\ log = << >>
    /\ raftPeers = Founders
    /\ reach = [p \in Peers |-> 0]
    /\ applied = [p \in Peers |-> 0]
    /\ snap = [p \in Peers |-> 0]
    /\ node = [p \in Peers |-> IF p \in Founders THEN "up" ELSE "boot2"]
    /\ peermap = [p \in Peers |-> IF p \in Founders THEN Founders ELSE {p, Contact}]
    /\ saved = [p \in Peers |-> IF p \in Founders THEN Founders \ {p} ELSE {}]
    /\ call = [p \in Peers |-> Idle]
    /\ left = [calls |-> MaxCalls, faults |-> MaxFaults, starts |-> MaxStarts]
    /\ unsaved = {}
    /\ trouble = FALSE
    /\ known = [p \in Peers |-> IF p \in Founders THEN "in" ELSE "open"]
    /\ relisted = {}

LogStep(c) == CommitOp(c) \/ CommitFails(c) \/ RaftChange(c) \/ RaftChangeFails(c)
AddStep(c) == Ping(c) \/ PeerAddFails(c) \/ MakeList(c) \/ SendList(c)
RmStep(c) == PeerRemoveFails(c) \/ TellRemoved(c)
CallStep(c) == LogStep(c) \/ AddStep(c) \/ RmStep(c) \/ LeaveReset(c)

Next ==
    \/ \E c \in Peers : CallStep(c)
    \/ \E c, x \in Peers : PeerAdd(c, x) \/ PeerRemove(c, x)
    \/ \E x \in Peers : \/ Leave(x) \/ ConsensusShutdown(x) \/ RemovedStops(x) \/ Stop(x)
                       \/ Crash(x) \/ Start(x) \/ Join(x) \/ JoinFails(x)
                       \/ Apply(x) \/ TakeSnapshot(x)
    \/ \E p, q \in Peers : InstallSnapshot(p, q)

Spec == Init /\ [][Next]_vars

-----------------------------------------------------------------------------
(* Properties.                                                             *)

(* Every variable has its type.                                            *)
TypeOK ==
    /\ \A i \in 1 .. Len(log) :
          log[i] \in [type : {"LogOpAddPeer", "LogOpRmPeer"}, peer : Peers]
    /\ raftPeers \subseteq Peers
    /\ \A p \in Peers :
          /\ snap[p] \in 0 .. applied[p] /\ applied[p] <= Len(log) /\ reach[p] <= Len(log)
          /\ node[p] \in Nodes
          /\ peermap[p] \subseteq Peers /\ saved[p] \subseteq Peers \ {p}
          /\ call[p].op \in {"none", "add", "rm", "leave"}
          /\ call[p].tries \in 0 .. CommitRetries
          /\ known[p] \in {"in", "out", "open"}
    /\ \A k \in DOMAIN left : left[k] \in Nat
    /\ trouble \in BOOLEAN
    /\ unsaved \cup relisted \subseteq Peers

(* No call is running, no peer is starting or stopping, and every running  *)
(* member has applied the log.                                             *)
Settled ==
    /\ Busy = {}
    /\ \A p \in Peers : node[p] \in {"up", "off"}
    /\ \A p \in raftPeers : node[p] = "up" => CaughtUp(p)

(* All members agree on who the members are, and agree with Raft, once the *)
(* cluster has settled: provided that every call succeeded and every list  *)
(* arrived, that no addition was made while another change was under way   *)
(* or unapplied where it was made, that no removed peer stopped in the     *)
(* middle of a call of its own, that no member skipped operations by a     *)
(* snapshot, and that none died with news that only its snapshot or its    *)
(* peermap had.  Retries, crashes, restarts from the saved file, repeated  *)
(* Joins, newcomers that start from a snapshot and peers that return after *)
(* their removal are all allowed.                                          *)
MembersAgree ==
    Settled /\ ~trouble =>
        \A p \in raftPeers : node[p] = "up" => peermap[p] = raftPeers

LastOp(x) == LET S == {i \in 1 .. Len(log) : log[i].peer = x}
             IN  IF S = {} THEN "none" ELSE log[Max(S)].type

(* A call that returned without an error has done both of its changes, and *)
(* nothing undoes one of them until the next call about the same peer:     *)
(* after PeerAdd the peer is in Raft's peer set and the log does not end   *)
(* in its removal, after PeerRemove or leaving the opposite.               *)
AckedHolds ==
    \A x \in Peers :
        /\ known[x] = "in" => x \in raftPeers /\ LastOp(x) # "LogOpRmPeer"
        /\ known[x] = "out" => x \notin raftPeers /\ LastOp(x) = "LogOpRmPeer"

(* What a removed peer writes to its configuration when it shuts itself    *)
(* down names no cluster peer, unless a PeerAdd of it has sent it the list *)
(* of peers again or it is itself in the middle of a PeerAdd: at its next  *)
(* start it does not take itself for a member.                             *)
RemovedForgets ==
    [][\A x \in Peers :
          Stop(x) /\ node[x] = "reset" /\ x \notin relisted \cup Busy => saved'[x] = {}]_vars
=============================================================================
