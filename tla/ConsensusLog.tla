---------------------------- MODULE ConsensusLog ----------------------------
(***************************************************************************)
(* How a pin or unpin reaches the shared state: Consensus.logOpCid with    *)
(* its redirection to the leader and its retries (consensus.go), the RPC   *)
(* handlers that run it again on the leader (rpc_api.go), and what every   *)
(* peer does with a committed operation: LogOp.ApplyTo (log_op.go) on its  *)
(* MapState (state/mapstate).                                              *)
(*                                                                         *)
(* Raft is external: a log of which a prefix is committed, a leader that   *)
(* changes, and peers whose idea of who leads may be out of date.  An      *)
(* election keeps the committed prefix and any part of what follows it, so *)
(* an operation whose leader was deposed may still be committed or may be  *)
(* lost.                                                                   *)
(*                                                                         *)
(* One activation of logOpCid is an element of Acts: the first one runs in *)
(* the peer the user called, and a redirection runs a new one in the peer  *)
(* believed to lead while the old one waits for its answer.                *)
(***************************************************************************)
EXTENDS Naturals, Sequences, FiniteSets

CONSTANTS
    Peers, NoPeer,
    Cids, NoPin,     \* a Cid, and what MapState holds for an absent one
    Requests,        \* the LogPin / LogUnpin calls users make
    Acts, NoAct,     \* names for activations of logOpCid
    CommitRetries,   \* attempts per activation
    MaxTerm,         \* bound: elections
    MaxRestarts,     \* bound: peers that stop and start again
    RpcFaults        \* TRUE: the answer of a redirected call may be lost

ASSUME NoneAssumption ==
    NoPeer \notin Peers /\ NoAct \notin Acts /\ NoPin \notin Requests
ASSUME BoundsAssumption ==
    CommitRetries \in Nat \ {0} /\ MaxTerm \in Nat /\ MaxRestarts \in Nat
ASSUME RpcFaultsAssumption == RpcFaults \in BOOLEAN

VARIABLES
    log,      \* the log of the leader: operations
    commit,   \* how many of them are committed
    leader, term,
    view,     \* view[p]: the leader as far as p knows (Actor.Leader())
    applied,  \* applied[p]: how many operations p applied
    state,    \* state[p]: MapState of p: the request that pinned each Cid
    snap,     \* snap[p]: <<applied, state>> of the last snapshot of p
    restarts,
    act,      \* the activations
    request   \* what users asked and were answered

raft == <<log, commit, leader, term, view>>
replica == <<applied, state, snap, restarts>>
vars == <<log, commit, leader, term, view, applied, state, snap, restarts,
          act, request>>

LogOpType == {"LogOpPin", "LogOpUnpin"}

(* An operation of the log: req stands for the CidArg of that request. *)
LogOp == [Type : LogOpType, Cid : Cids, req : Requests]

MapState == [Cids -> Requests \cup {NoPin}]

(* pc: where an activation is.  "rpc": waiting for activation child;       *)
(* "ok", "err": it returned, and its caller has not looked yet.            *)
Activation ==
    [pc : {"free", "redirect", "noleader", "commit", "wait", "rpc",
           "ok", "err"},
     peer : Peers \cup {NoPeer}, op : LogOp \cup {<<>>}, try : 0 .. CommitRetries - 1,
     idx : Nat, term : Nat, child : Acts \cup {NoAct}, orphan : BOOLEAN]

Free == [pc |-> "free", peer |-> NoPeer, op |-> <<>>, try |-> 0, idx |-> 0,
         term |-> 0, child |-> NoAct, orphan |-> FALSE]

(* The activation that the next call takes, if one is left; which one it   *)
(* is does not matter, names mean nothing.                                 *)
NextFree ==
    LET free == {a \in Acts : act[a].pc = "free"}
    IN  IF free = {} THEN {} ELSE {CHOOSE a \in free : TRUE}

Start(p, o) == [Free EXCEPT !.pc = "redirect", !.peer = p, !.op = o]

-----------------------------------------------------------------------------
(* MapState and ApplyTo.                                                   *)

Add(s, c, r) == [s EXCEPT ![c] = r]
Rm(s, c) == [s EXCEPT ![c] = NoPin]

ApplyTo_PinKept(o, s) ==
    IF o.Type = "LogOpPin"
    THEN IF s[o.Cid] = NoPin THEN Add(s, o.Cid, o.req) ELSE s
    ELSE Rm(s, o.Cid)

(* The tracker calls ApplyTo also starts are asynchronous: see StateSync.  *)
ApplyTo(o, s) == IF o.Type = "LogOpPin" THEN Add(s, o.Cid, o.req)
                 ELSE Rm(s, o.Cid)

-----------------------------------------------------------------------------
(* Raft, external.                                                         *)

(* p wins an election: it has every committed operation and any part of    *)
(* the others.  Only p knows at once.                                      *)
Elect(p) ==
    /\ term < MaxTerm
    /\ term' = term + 1
    /\ leader' = p
    /\ view' = [view EXCEPT ![p] = p]
    /\ \E k \in commit .. Len(log) : log' = SubSeq(log, 1, k)
    /\ UNCHANGED <<commit, replica, act, request>>

(* The leader is cut off: it notices, the others do not yet. *)
StepDown ==
    /\ leader # NoPeer
    /\ leader' = NoPeer
    /\ view' = [view EXCEPT ![leader] = NoPeer]
    /\ UNCHANGED <<log, commit, term, replica, act, request>>

(* p learns who leads, or that nobody does. *)
Learn(p) ==
    /\ view[p] # leader
    /\ view' = [view EXCEPT ![p] = leader]
    /\ UNCHANGED <<log, commit, leader, term, replica, act, request>>

CommitNext ==
    /\ leader # NoPeer
    /\ commit < Len(log)
    /\ commit' = commit + 1
    /\ UNCHANGED <<log, leader, term, view, replica, act, request>>

(* The FSM of p applies its next committed operation. *)
Apply(p) ==
    /\ applied[p] < commit
    /\ applied' = [applied EXCEPT ![p] = @ + 1]
    /\ state' = [state EXCEPT ![p] = ApplyTo(log[applied[p] + 1], @)]
    /\ UNCHANGED <<raft, snap, restarts, act, request>>

(* Raft takes a snapshot of p's state. *)
Snapshot(p) ==
    /\ restarts < MaxRestarts  \* bound: no snapshot that nobody starts from
    /\ snap[p][1] # applied[p]
    /\ snap' = [snap EXCEPT ![p] = <<applied[p], state[p]>>]
    /\ UNCHANGED <<raft, applied, state, restarts, act, request>>

-----------------------------------------------------------------------------
(* logOpCid.                                                               *)

(* A user calls LogPin or LogUnpin on peer p. *)
Request(r, p, t, c) ==
    /\ request[r].res = "none"
    /\ \E a \in NextFree :
          /\ act' = [act EXCEPT
                        ![a] = Start(p, [Type |-> t, Cid |-> c, req |-> r])]
          /\ request' = [request EXCEPT ![r] =
                [res |-> "running", act |-> a,
                 after |-> {q \in Requests : request[q].res = "ok"}]]
    /\ UNCHANGED <<raft, replica>>

NextTry_OneMore(f) ==
    IF f.try < CommitRetries
    THEN [f EXCEPT !.pc = "redirect", !.try = @ + 1, !.child = NoAct]
    ELSE IF f.orphan THEN Free
    ELSE [f EXCEPT !.pc = "err", !.child = NoAct]
NextTry_Forever(f) == [f EXCEPT !.pc = "redirect", !.child = NoAct]

(* An attempt failed: the loop goes on or returns finalErr.  Nobody waits  *)
(* for an orphan, which then just ends.                                    *)
NextTry(f) ==
    IF f.try + 1 < CommitRetries
    THEN [f EXCEPT !.pc = "redirect", !.try = @ + 1, !.child = NoAct]
    ELSE IF f.orphan THEN Free
    ELSE [f EXCEPT !.pc = "err", !.child = NoAct]

Succeed(f) == IF f.orphan THEN Free ELSE [f EXCEPT !.pc = "ok", !.child = NoAct]

RedirectTo_Async(a, q) ==
    \E b \in NextFree :
        /\ act' = [act EXCEPT ![a] = Succeed(@),
                              ![b] = [Start(q, act[a].op) EXCEPT !.orphan = TRUE]]

RedirectTo_UnpinRPC(a, q) ==
    \E b \in NextFree :
        /\ act' = [act EXCEPT ![a].pc = "rpc", ![a].child = b,
                              ![b] = Start(q, [act[a].op EXCEPT !.Type = "LogOpUnpin"])]

(* redirectToLeader runs the operation on q, in an activation b of its own. *)
RedirectTo(a, q) ==
    \E b \in NextFree :
        /\ act' = [act EXCEPT ![a].pc = "rpc", ![a].child = b,
                              ![b] = Start(q, act[a].op)]

(* redirectToLeader: ask the leader, unless it is us or nobody is known.   *)
(* The call may not get through.                                           *)
RedirectToLeader(a) ==
    LET p == act[a].peer IN
    /\ act[a].pc = "redirect"
    /\ \/ /\ view[p] = p
          /\ act' = [act EXCEPT ![a].pc = "commit"]
       \/ /\ view[p] = NoPeer
          /\ act' = [act EXCEPT ![a].pc = "noleader"]
       \/ /\ view[p] \notin {p, NoPeer}
          /\ RedirectTo(a, view[p]) \/ act' = [act EXCEPT ![a] = NextTry(@)]
    /\ UNCHANGED <<raft, replica, request>>

(* redirectToLeader waited for a leader.  Once there is one it goes on     *)
(* with the empty leader it had read, which the RPC client takes for the   *)
(* local peer; or the wait timed out.                                      *)
WaitedForLeader(a) ==
    LET p == act[a].peer IN
    /\ act[a].pc = "noleader"
    /\ \/ view[p] # NoPeer /\ RedirectTo(a, p)
       \/ act' = [act EXCEPT ![a] = NextTry(@)]
    /\ UNCHANGED <<raft, replica, request>>

(* CommitOp: the leader appends the operation and waits, others refuse it. *)
CommitOp(a) ==
    /\ act[a].pc = "commit"
    /\ \/ /\ leader = act[a].peer
          /\ log' = Append(log, act[a].op)
          /\ act' = [act EXCEPT ![a].pc = "wait", ![a].idx = Len(log) + 1,
                                ![a].term = term]
       \/ /\ leader # act[a].peer
          /\ act' = [act EXCEPT ![a] = NextTry(@)]
          /\ UNCHANGED log
    /\ UNCHANGED <<commit, leader, term, view, replica, request>>

StillLeads(f) == leader = f.peer /\ term = f.term

CommitAnswered_AtOnce(f) == Len(log) >= f.idx
CommitAnswered(f) == applied[f.peer] >= f.idx

(* The operation was committed and applied by the leader. *)
CommitDone(a) ==
    /\ act[a].pc = "wait"
    /\ StillLeads(act[a])
    /\ CommitAnswered(act[a])
    /\ act' = [act EXCEPT ![a] = Succeed(@)]
    /\ UNCHANGED <<raft, replica, request>>

(* Leadership was lost while waiting: raft reports an error. *)
CommitLost(a) ==
    /\ act[a].pc = "wait"
    /\ ~StillLeads(act[a])
    /\ act' = [act EXCEPT ![a] = NextTry(@)]
    /\ UNCHANGED <<raft, replica, request>>

(* What the caller makes of the answer of a redirected call. *)
Answered(f, res) == IF res = "ok" THEN Succeed(f) ELSE NextTry(f)

(* The answer of the redirected call arrives. *)
Answer(a) ==
    LET b == act[a].child IN
    /\ act[a].pc = "rpc"
    /\ act[b].pc \in {"ok", "err"}
    /\ act' = [act EXCEPT ![a] = Answered(@, act[b].pc), ![b] = Free]
    /\ UNCHANGED <<raft, replica, request>>

(* The connection breaks: the caller sees an error, the handler goes on.   *)
AnswerLost(a) ==
    LET b == act[a].child IN
    /\ RpcFaults
    /\ act[a].pc = "rpc"
    /\ act' = [act EXCEPT
                  ![a] = NextTry(@),
                  ![b] = IF @.pc \in {"ok", "err"} THEN Free
                         ELSE [@ EXCEPT !.orphan = TRUE]]
    /\ UNCHANGED <<raft, replica, request>>

(* LogPin or LogUnpin returns to the user. *)
Return(r) ==
    LET a == request[r].act IN
    /\ request[r].res = "running"
    /\ act[a].pc \in {"ok", "err"}
    /\ request' = [request EXCEPT ![r].res = act[a].pc, ![r].act = NoAct]
    /\ act' = [act EXCEPT ![a] = Free]
    /\ UNCHANGED <<raft, replica>>

(* What the stop of peer p does to activation a: the ones p runs fail in   *)
(* the eyes of whoever waits for them, the ones p waits for go on alone.   *)
AfterStop(a, p) ==
    LET awaited == \E b \in Acts : act[b].peer = p /\ act[b].child = a IN
    IF act[a].peer = p
    THEN IF act[a].orphan \/ awaited THEN Free ELSE [Free EXCEPT !.pc = "err"]
    ELSE IF awaited
    THEN IF act[a].pc \in {"ok", "err"} THEN Free ELSE [act[a] EXCEPT !.orphan = TRUE]
    ELSE act[a]

RestoredIndex_Zero(p) == 0
RestoredIndex(p) == snap[p][1]

(* A peer stops and starts again from its last snapshot. *)
Restart(p) ==
    /\ restarts < MaxRestarts
    /\ restarts' = restarts + 1
    /\ leader' = IF leader = p THEN NoPeer ELSE leader
    /\ view' = [view EXCEPT ![p] = NoPeer]
    /\ applied' = [applied EXCEPT ![p] = RestoredIndex(p)]
    /\ state' = [state EXCEPT ![p] = snap[p][2]]
    /\ act' = [a \in Acts |-> AfterStop(a, p)]
    /\ UNCHANGED <<log, commit, term, snap, request>>

-----------------------------------------------------------------------------
Empty == [c \in Cids |-> NoPin]

Init ==
    /\ log = <<>> /\ commit = 0
    /\ leader = NoPeer /\ term = 0
    /\ view = [p \in Peers |-> NoPeer]
    /\ applied = [p \in Peers |-> 0]
    /\ state = [p \in Peers |-> Empty]
    /\ snap = [p \in Peers |-> <<0, Empty>>]
    /\ restarts = 0
    /\ act = [a \in Acts |-> Free]
    /\ request = [r \in Requests |->
                    [res |-> "none", act |-> NoAct, after |-> {}]]

LogOpStep(a) == \/ RedirectToLeader(a) \/ WaitedForLeader(a) \/ CommitOp(a)
                \/ CommitDone(a) \/ CommitLost(a)
                \/ Answer(a)

Next ==
    \/ \E p \in Peers : Elect(p) \/ Learn(p) \/ Apply(p)
                        \/ Snapshot(p) \/ Restart(p)
    \/ StepDown
    \/ CommitNext
    \/ \E r \in Requests, p \in Peers, t \in LogOpType, c \in Cids :
          Request(r, p, t, c)
    \/ \E a \in Acts : LogOpStep(a) \/ AnswerLost(a)
    \/ \E r \in Requests : Return(r)

(* Goroutines run, raft replicates and tells who leads. *)
Fairness ==
    /\ \A a \in Acts : WF_vars(LogOpStep(a))
    /\ \A r \in Requests : WF_vars(Return(r))
    /\ \A p \in Peers : WF_vars(Learn(p)) /\ WF_vars(Apply(p))
    /\ WF_vars(CommitNext)

Spec == Init /\ [][Next]_vars
FairSpec == Spec /\ Fairness

-----------------------------------------------------------------------------
(* Properties.                                                             *)

(* Every variable has its type. *)
TypeOK ==
    /\ log \in Seq(LogOp)
    /\ commit \in 0 .. Len(log)
    /\ leader \in Peers \cup {NoPeer}
    /\ term \in Nat
    /\ view \in [Peers -> Peers \cup {NoPeer}]
    /\ applied \in [Peers -> Nat]
    /\ state \in [Peers -> MapState]
    /\ snap \in [Peers -> Nat \X MapState]
    /\ restarts \in Nat
    /\ act \in [Acts -> Activation]
    /\ request \in [Requests -> [res : {"none", "running", "ok", "err"},
                                 act : Acts \cup {NoAct},
                                 after : SUBSET Requests]]

(* s is what the last operation on each Cid among the first n of the log   *)
(* left.                                                                   *)
LastOpWins(s, n) ==
    \A c \in Cids :
        \/ /\ s[c] = NoPin
           /\ \A i \in 1 .. n : log[i].Cid # c
        \/ \E i \in 1 .. n :
              /\ log[i].Cid = c
              /\ \A j \in i + 1 .. n : log[j].Cid # c
              /\ s[c] = IF log[i].Type = "LogOpPin" THEN log[i].req ELSE NoPin

(* Replicas agree: whatever elections, lost operations, retries and        *)
(* restarts from a snapshot do, the MapState of every peer is the outcome  *)
(* of the committed operations it applied, the last one on a Cid deciding; *)
(* two peers that applied as many operations hold the same pins.           *)
StateIsLog == \A p \in Peers : /\ applied[p] <= commit
                                /\ LastOpWins(state[p], applied[p])

(* LogPin and LogUnpin return nil only for an operation that is committed, *)
(* also when it was redirected, retried or its first leader was deposed    *)
(* (cluster.go: "Pin returns an error if the operation could not be        *)
(* persisted to the global state").                                        *)
AckedIsCommitted ==
    \A r \in Requests :
        request[r].res = "ok" => \E i \in 1 .. commit : log[i].req = r

(* A request made after another was acknowledged is not overtaken by a     *)
(* retry of that one: an acknowledged pin cannot come back over the unpin  *)
(* that followed it.                                                       *)
AckOrder ==
    \A r \in Requests, q \in Requests :
        q \in request[r].after =>
            \A i \in 1 .. Len(log), j \in 1 .. Len(log) :
                log[i].req = q /\ log[j].req = r => i < j

(* What users and peers see is a single sequence of decided operations:    *)
(* the committed part of the log only grows, by operations that somebody   *)
(* asked for and as they were asked for; every peer follows it one by one  *)
(* or restarts from a prefix; and nobody is answered before it is decided. *)
Pins == INSTANCE SharedPins WITH
            ops <- SubSeq(log, 1, commit), place <- applied, pins <- state,
            result <- [r \in Requests |-> request[r].res]
ImplementsSharedPins == Pins!Spec

(* Every request is answered once elections have ended: redirections to a  *)
(* stale leader, to a peer that redirects back, or into the local peer     *)
(* while no leader is known, all come to an end.                           *)
RequestsAnswered ==
    \A r \in Requests : request[r].res = "running" ~> request[r].res \in {"ok", "err"}

=============================================================================
