------------------------- MODULE ConsensusLogProofs -------------------------
(***************************************************************************)
(* TLAPS proofs about ConsensusLog, for any peers, Cids, requests and      *)
(* activations, and any number of retries, elections and restarts: types,  *)
(* replicas that agree with the log, and acknowledged requests that stay   *)
(* committed.                                                              *)
(***************************************************************************)
EXTENDS ConsensusLog, SequenceTheorems, WellFoundedInduction, TLAPS

-----------------------------------------------------------------------------
(* The inductive invariant.                                                *)

Running == {"redirect", "noleader", "commit", "wait", "rpc"}

(* An activation that still has work to do knows its peer and operation.   *)
ActsKnow ==
    \A a \in Acts : act[a].pc \in Running =>
        act[a].peer \in Peers /\ act[a].op \in LogOp

(* Snapshots are prefixes of the log as well. *)
SnapIsLog == \A p \in Peers : /\ snap[p][1] <= commit
                             /\ LastOpWins(snap[p][2], snap[p][1])

(* b works for somebody who waits for it, on the operation o unless the    *)
(* peer that ran b was stopped.                                            *)
Works(b, o) ==
    /\ act[b].pc # "free" /\ ~act[b].orphan
    /\ act[b].pc # "err" => act[b].op = o

(* Only a redirected activation has a child; the child works on the        *)
(* operation of its parent, which is its only one.                         *)
ChildLinks ==
    /\ \A a \in Acts : act[a].pc # "rpc" => act[a].child = NoAct
    /\ \A a \in Acts : act[a].pc = "rpc" =>
          act[a].child \in Acts \ {a} /\ Works(act[a].child, act[a].op)
    /\ \A a, b \in Acts :
          act[a].pc = "rpc" /\ act[b].pc = "rpc" /\ act[a].child = act[b].child => a = b

(* The activation of a running request works on an operation of it, and is *)
(* neither the child of another one nor shared with another request.       *)
RequestLinks ==
    /\ \A r \in Requests : request[r].res = "running" =>
          /\ request[r].act \in Acts
          /\ \E o \in LogOp : o.req = r /\ Works(request[r].act, o)
          /\ \A a \in Acts : act[a].child # request[r].act
    /\ \A r, q \in Requests :
          /\ request[r].res = "running" /\ request[q].res = "running"
          /\ request[r].act = request[q].act
          => r = q

(* The operation o is committed. *)
IsCommitted(o) == \E i \in 1 .. commit : log[i] = o

(* What an activation f found out about its operation: it is committed, or *)
(* it is where f put it in the log as long as the leader did not change.   *)
Truth(f) ==
    /\ f.pc = "ok" => IsCommitted(f.op)
    /\ f.pc = "wait" =>
          /\ f.term <= term
          /\ StillLeads(f) => f.idx \in 1 .. Len(log) /\ log[f.idx] = f.op

ActsTruthful == \A a \in Acts : Truth(act[a])

-----------------------------------------------------------------------------
(* What the operators on activations return.                               *)

Pcs == {"free", "redirect", "noleader", "commit", "wait", "rpc", "ok", "err"}
OpOrNone == LogOp \cup {<<>>}

(* The fields of an activation. *)
LEMMA ActFields ==
    ASSUME NEW f
    PROVE  f \in Activation <=>
              /\ f = [pc |-> f.pc, peer |-> f.peer, op |-> f.op, try |-> f.try, idx |-> f.idx,
                      term |-> f.term, child |-> f.child, orphan |-> f.orphan]
              /\ f.pc \in Pcs /\ f.peer \in Peers \cup {NoPeer} /\ f.op \in OpOrNone
              /\ f.try \in 0 .. CommitRetries - 1 /\ f.idx \in Nat /\ f.term \in Nat
              /\ f.child \in Acts \cup {NoAct} /\ f.orphan \in BOOLEAN
  BY DEF Activation, Pcs, OpOrNone

(* Free, and what Start makes of it. *)
LEMMA StartFields ==
    /\ Free \in Activation
    /\ Free.pc = "free" /\ Free.child = NoAct /\ Free.op = <<>>
    /\ \A p \in Peers, o \in LogOp :
          LET s == Start(p, o)
          IN  /\ s \in Activation
              /\ s.pc = "redirect" /\ s.peer = p /\ s.op = o
              /\ s.child = NoAct /\ s.orphan = FALSE
  <1>1. 0 \in 0 .. CommitRetries - 1
    BY BoundsAssumption
  <1> QED
    BY <1>1 DEF Activation, Free, Start

(* What may become of f when its attempt or its call is over: it goes on   *)
(* or returns, unless it is an orphan, which just ends.                    *)
Over(f, g) ==
    /\ g \in Activation
    /\ g.child = NoAct
    /\ \/ g = Free /\ f.orphan
       \/ /\ g.pc \in {"redirect", "ok", "err"}
          /\ g.op = f.op /\ g.peer = f.peer /\ g.orphan = f.orphan
          /\ g.pc \in {"ok", "err"} => ~f.orphan

(* A failed attempt, ... *)
LEMMA NextTryOver ==
    ASSUME NEW f \in Activation
    PROVE  Over(f, NextTry(f)) /\ NextTry(f).pc # "ok"
  <1>1. CASE f.try + 1 < CommitRetries
    <2>1. f.try + 1 \in 0 .. CommitRetries - 1
      BY <1>1, BoundsAssumption DEF Activation
    <2>2. PICK n \in 0 .. CommitRetries - 1 : n = f.try + 1
      BY <2>1
    <2>3. NextTry(f) = [f EXCEPT !.pc = "redirect", !.try = n, !.child = NoAct]
      BY <1>1, <2>2 DEF NextTry
    <2>4. NextTry(f) \in Activation
      BY <2>3, BoundsAssumption DEF Activation
    <2>5. /\ NextTry(f).child = NoAct /\ NextTry(f).pc = "redirect"
          /\ NextTry(f).op = f.op /\ NextTry(f).peer = f.peer
          /\ NextTry(f).orphan = f.orphan
      BY <2>3 DEF Activation
    <2> QED
      BY <2>4, <2>5 DEF Over
  <1>2. CASE ~(f.try + 1 < CommitRetries)
    BY <1>2, StartFields DEF Over, NextTry, Activation
  <1> QED
    BY <1>1, <1>2

(* ... and a successful one. *)
LEMMA SucceedOver ==
    ASSUME NEW f \in Activation
    PROVE  /\ Over(f, Succeed(f)) /\ Succeed(f).pc # "err"
           /\ Succeed(f).pc # "redirect"
  BY StartFields DEF Over, Succeed, Activation

(* An activation goes to another place of its loop, ... *)
LEMMA PcFields ==
    ASSUME NEW f \in Activation, NEW l \in Pcs
    PROVE  LET g == [f EXCEPT !.pc = l]
           IN  /\ g \in Activation
               /\ g.pc = l /\ g.op = f.op /\ g.peer = f.peer /\ g.orphan = f.orphan
               /\ g.child = f.child /\ g.idx = f.idx /\ g.term = f.term
  BY DEF Activation, Pcs

(* ... waits for another activation, ... *)
LEMMA RpcFields ==
    ASSUME NEW f \in Activation, NEW b \in Acts
    PROVE  LET g == [[f EXCEPT !.pc = "rpc"] EXCEPT !.child = b]
           IN  /\ g \in Activation
               /\ g.pc = "rpc" /\ g.op = f.op /\ g.peer = f.peer /\ g.orphan = f.orphan
               /\ g.child = b
  BY DEF Activation

(* ... waits for the commit of its operation, ... *)
LEMMA WaitFields ==
    ASSUME NEW f \in Activation, NEW i \in Nat, NEW t \in Nat
    PROVE  LET g == [[[f EXCEPT !.pc = "wait"] EXCEPT !.idx = i] EXCEPT !.term = t]
           IN  /\ g \in Activation
               /\ g.pc = "wait" /\ g.op = f.op /\ g.peer = f.peer /\ g.orphan = f.orphan
               /\ g.child = f.child /\ g.idx = i /\ g.term = t
  BY DEF Activation

(* ... or loses the one who waited for it. *)
LEMMA OrphanFields ==
    ASSUME NEW f \in Activation
    PROVE  LET g == [f EXCEPT !.orphan = TRUE]
           IN  /\ g \in Activation
               /\ g.pc = f.pc /\ g.op = f.op /\ g.peer = f.peer
               /\ g.child = f.child /\ g.idx = f.idx /\ g.term = f.term
  BY DEF Activation

(* The activation that a stopped peer leaves to the one who waited for it. *)
LEMMA ErrFields ==
    LET g == [Free EXCEPT !.pc = "err"]
    IN  /\ g \in Activation
        /\ g.pc = "err" /\ g.child = NoAct /\ g.orphan = FALSE
  <1>1. 0 \in 0 .. CommitRetries - 1
    BY BoundsAssumption
  <1> QED
    BY <1>1 DEF Activation, Free

(* What the answer of a redirected call makes of the caller. *)
LEMMA AnsweredOver ==
    ASSUME NEW f \in Activation, NEW res
    PROVE  /\ Over(f, Answered(f, res))
           /\ Answered(f, res).pc = "ok" => res = "ok"
  BY NextTryOver, SucceedOver DEF Answered

(* An activation that is given out was free. *)
LEMMA FreeToTake ==
    ASSUME NEW b \in NextFree
    PROVE  b \in Acts /\ act[b].pc = "free"
  BY DEF NextFree

-----------------------------------------------------------------------------
(* Activations, their parents and their requests.                          *)

ActTypes == act \in [Acts -> Activation]
ReqTypes == request \in [Requests -> [res : {"none", "running", "ok", "err"},
                                      act : Acts \cup {NoAct},
                                      after : SUBSET Requests]]
Links == ActTypes /\ ReqTypes /\ ActsKnow /\ ChildLinks /\ RequestLinks

(* A step of an activation that waits for nobody: to another place of the  *)
(* loop, or out of it.                                                     *)
Goes(f, g) ==
    \/ Over(f, g)
    \/ /\ g \in Activation
       /\ g.pc \in {"noleader", "commit", "wait"}
       /\ g.op = f.op /\ g.peer = f.peer /\ g.orphan = f.orphan /\ g.child = f.child

(* Such a step keeps the links. *)
LEMMA GoesLinks ==
    ASSUME Links, NEW a \in Acts, act[a].pc \in Running \ {"rpc"},
           NEW g, Goes(act[a], g), act' = [act EXCEPT ![a] = g], UNCHANGED request
    PROVE  Links'
  <1>1. ActTypes /\ ActsKnow /\ ChildLinks /\ RequestLinks
    BY DEF Links
  <1>2. /\ g \in Activation /\ g.child = NoAct /\ g.pc # "rpc"
        /\ g.pc = "free" => act[a].orphan
        /\ g.pc # "free" => g.op = act[a].op /\ g.peer = act[a].peer /\ g.orphan = act[a].orphan
    BY <1>1, StartFields DEF Goes, Over, Running, ChildLinks
  <1>3. act'[a] = g /\ \A b \in Acts : b # a => act'[b] = act[b]
    BY <1>1 DEF ActTypes
  <1>4. ActTypes'
    BY <1>1, <1>2 DEF ActTypes
  <1>5. act[a].op \in LogOp /\ act[a].peer \in Peers
    BY <1>1 DEF ActsKnow
  <1>6. ActsKnow'
    BY <1>1, <1>2, <1>3, <1>5 DEF ActsKnow, Running
  <1>7. ASSUME NEW b \in Acts, NEW o, Works(b, o) PROVE Works(b, o)'
    <2>1. CASE b = a
      BY <1>2, <1>3, <1>7, <2>1 DEF Works, Running
    <2>2. CASE b # a
      BY <1>3, <1>7, <2>2 DEF Works
    <2> QED
      BY <2>1, <2>2
  <1>8. ChildLinks'
    <2>1. ASSUME NEW b \in Acts, act'[b].pc = "rpc"
          PROVE  b # a /\ act'[b] = act[b] /\ act[b].pc = "rpc"
      BY <1>2, <1>3, <2>1
    <2>2. \A b \in Acts : act'[b].pc # "rpc" => act'[b].child = NoAct
      BY <1>1, <1>2, <1>3 DEF ChildLinks
    <2>3. ASSUME NEW b \in Acts, act'[b].pc = "rpc"
          PROVE  (act[b].child \in Acts \ {b} /\ Works(act[b].child, act[b].op))'
      <3>1. act'[b] = act[b] /\ act[b].child \in Acts \ {b} /\ Works(act[b].child, act[b].op)
        BY <1>1, <2>1, <2>3 DEF ChildLinks
      <3>2. PICK c \in Acts : c = act[b].child
        BY <3>1
      <3>2o. PICK o : o = act[b].op
        OBVIOUS
      <3> QED
        BY <1>7, <3>1, <3>2, <3>2o DEF Works
    <2>4. \A b, c \in Acts :
             act'[b].pc = "rpc" /\ act'[c].pc = "rpc" /\ act'[b].child = act'[c].child => b = c
      BY <1>1, <2>1 DEF ChildLinks
    <2> QED
      BY <2>2, <2>3, <2>4 DEF ChildLinks
  <1>9. RequestLinks'
    <2>1. \A b \in Acts : act'[b].child \in {act[b].child, NoAct}
      BY <1>2, <1>3
    <2> QED
      BY <1>1, <1>7, <2>1, NoneAssumption DEF RequestLinks
  <1> QED
    BY <1>4, <1>6, <1>8, <1>9 DEF Links, ReqTypes

(* A redirection: a waits for b, which starts on the same operation. *)
LEMMA RedirectLinks ==
    ASSUME Links, NEW a \in Acts, act[a].pc \in Running \ {"rpc"},
           NEW q \in Peers, RedirectTo(a, q), UNCHANGED request
    PROVE  Links'
  <1>1. ActTypes /\ ActsKnow /\ ChildLinks /\ RequestLinks
    BY DEF Links
  <1>2. PICK b \in NextFree :
           act' = [act EXCEPT ![a].pc = "rpc", ![a].child = b, ![b] = Start(q, act[a].op)]
    BY DEF RedirectTo
  <1>3. b \in Acts /\ act[b].pc = "free" /\ b # a
    BY FreeToTake DEF Running
  <1>4. act[a].op \in LogOp /\ act[a].peer \in Peers /\ act[a].child = NoAct
    BY <1>1 DEF ActsKnow, ChildLinks
  <1> DEFINE g == [[act[a] EXCEPT !.pc = "rpc"] EXCEPT !.child = b]
             h == Start(q, act[a].op)
  <1>5. /\ g \in Activation /\ g.pc = "rpc" /\ g.child = b
        /\ g.op = act[a].op /\ g.peer = act[a].peer /\ g.orphan = act[a].orphan
    BY <1>1, <1>3, RpcFields DEF ActTypes
  <1>6. /\ h \in Activation /\ h.pc = "redirect" /\ h.child = NoAct
        /\ h.op = act[a].op /\ h.peer = q /\ h.orphan = FALSE
    BY <1>4, StartFields
  <1>7. /\ act'[a] = g /\ act'[b] = h
        /\ \A c \in Acts \ {a, b} : act'[c] = act[c]
        /\ act' \in [Acts -> Activation]
    BY <1>1, <1>2, <1>3, <1>5, <1>6 DEF ActTypes
  <1> HIDE DEF g, h
  <1>8. ActsKnow'
    BY <1>1, <1>4, <1>5, <1>6, <1>7 DEF ActsKnow, Running
  <1>9. ASSUME NEW c \in Acts, NEW o, Works(c, o) PROVE Works(c, o)' /\ c # b
    <2>1. c # b
      BY <1>3, <1>9 DEF Works
    <2>2. CASE c = a
      <3>1. ~act[a].orphan /\ act[a].op = o
        BY <1>9, <2>2 DEF Works, Running
      <3>2. g.pc # "free" /\ ~g.orphan /\ g.op = o
        BY <1>5, <3>1
      <3> QED
        BY <1>7, <2>1, <2>2, <3>2 DEF Works
    <2>3. CASE c # a
      BY <1>7, <1>9, <2>1, <2>3 DEF Works
    <2> QED
      BY <2>1, <2>2, <2>3
  <1>10. ChildLinks'
    <2>1. ASSUME NEW c \in Acts, act'[c].pc = "rpc", c # a
          PROVE  act'[c] = act[c] /\ act[c].pc = "rpc"
      BY <1>6, <1>7, <2>1
    <2>2. \A c \in Acts : act'[c].pc # "rpc" => act'[c].child = NoAct
      BY <1>1, <1>5, <1>6, <1>7 DEF ChildLinks
    <2>3. ASSUME NEW c \in Acts, act'[c].pc = "rpc"
          PROVE  (act[c].child \in Acts \ {c} /\ Works(act[c].child, act[c].op))'
      <3>1. CASE c # a
        <4>1. act'[c] = act[c] /\ act[c].child \in Acts \ {c} /\ Works(act[c].child, act[c].op)
          BY <1>1, <2>1, <2>3, <3>1 DEF ChildLinks
        <4>2. PICK d \in Acts : d = act[c].child
          BY <4>1
        <4>2o. PICK o : o = act[c].op
          OBVIOUS
        <4> QED
          BY <1>9, <4>1, <4>2, <4>2o DEF Works
      <3>2. CASE c = a
        BY <1>3, <1>5, <1>6, <1>7, <3>2 DEF Works
      <3> QED
        BY <3>1, <3>2
    <2>4. \A c \in Acts : act'[c].pc = "rpc" /\ c # a => act'[c].child # b
      BY <1>1, <1>9, <2>1 DEF ChildLinks
    <2>5. \A c, d \in Acts :
             act'[c].pc = "rpc" /\ act'[d].pc = "rpc" /\ act'[c].child = act'[d].child => c = d
      BY <1>1, <1>5, <1>7, <2>1, <2>4 DEF ChildLinks
    <2> QED
      BY <2>2, <2>3, <2>5 DEF ChildLinks
  <1>11. RequestLinks'
    <2>1. \A c \in Acts : act'[c].child \in {act[c].child, NoAct, b}
      BY <1>5, <1>6, <1>7
    <2> QED
      BY <1>1, <1>9, <2>1, NoneAssumption DEF RequestLinks
  <1> QED
    BY <1>7, <1>8, <1>10, <1>11 DEF Links, ReqTypes, ActTypes

(* The caller of a redirected call goes on, with its answer or without.    *)
(* The call has ended, or nobody waits for it any more.                    *)
LEMMA AnsweredLinks ==
    ASSUME Links, NEW a \in Acts, act[a].pc = "rpc", NEW b, b = act[a].child,
           NEW g, Over(act[a], g),
           NEW h, h = Free \/ (h = [act[b] EXCEPT !.orphan = TRUE] /\ act[b].pc \notin {"ok", "err"}),
           act' = [act EXCEPT ![a] = g, ![b] = h], UNCHANGED request
    PROVE  Links'
  <1>1. ActTypes /\ ActsKnow /\ ChildLinks /\ RequestLinks
    BY DEF Links
  <1>2. b \in Acts /\ b # a
    BY <1>1 DEF ChildLinks
  <1>3. /\ g \in Activation /\ g.child = NoAct /\ g.pc # "rpc"
        /\ g.pc = "free" => act[a].orphan
        /\ g.pc # "free" => g.op = act[a].op /\ g.peer = act[a].peer /\ g.orphan = act[a].orphan
    BY StartFields DEF Over
  <1>4. /\ h \in Activation
        /\ h.child = act[b].child \/ h.child = NoAct
        /\ h.pc # "free" => /\ h.pc = act[b].pc /\ h.op = act[b].op /\ h.peer = act[b].peer
                            /\ h.child = act[b].child
        /\ h.pc = "free" => h.child = NoAct
    <2>1. CASE h = Free
      BY <2>1, StartFields
    <2>2. CASE h = [act[b] EXCEPT !.orphan = TRUE]
      <3>1. Works(b, act[a].op)
        BY <1>1 DEF ChildLinks
      <3> QED
        BY <1>1, <1>2, <2>2, <3>1, OrphanFields DEF ActTypes, Works
    <2> QED
      BY <2>1, <2>2
  <1>5. /\ act'[a] = g /\ act'[b] = h
        /\ \A c \in Acts \ {a, b} : act'[c] = act[c]
        /\ act' \in [Acts -> Activation]
    BY <1>1, <1>2, <1>3, <1>4 DEF ActTypes
  <1>6. act[a].op \in LogOp /\ act[a].peer \in Peers
    BY <1>1 DEF ActsKnow, Running
  <1>7. ActsKnow'
    BY <1>1, <1>2, <1>3, <1>4, <1>5, <1>6 DEF ActsKnow, Running
  <1>8. ASSUME NEW c \in Acts, NEW o, Works(c, o), c # b PROVE Works(c, o)'
    <2>1. CASE c = a
      BY <1>3, <1>5, <1>8, <2>1 DEF Works
    <2>2. CASE c # a
      BY <1>5, <1>8, <2>2 DEF Works
    <2> QED
      BY <2>1, <2>2
  <1>9. \A c \in Acts : act'[c].child = act[c].child \/ act'[c].child = NoAct
    BY <1>3, <1>4, <1>5
  <1>10. ASSUME NEW c \in Acts, act'[c].pc = "rpc"
         PROVE  /\ c # a /\ act[c].pc = "rpc" /\ act'[c].child = act[c].child
                /\ act'[c].op = act[c].op
    BY <1>3, <1>4, <1>5, <1>10
  <1>11. ChildLinks'
    <2>1. \A c \in Acts : act'[c].pc # "rpc" => act'[c].child = NoAct
      BY <1>1, <1>3, <1>4, <1>5 DEF ChildLinks
    <2>2. ASSUME NEW c \in Acts, act'[c].pc = "rpc"
          PROVE  (act[c].child \in Acts \ {c} /\ Works(act[c].child, act[c].op))'
      <3>1. /\ act[c].child \in Acts \ {c} /\ Works(act[c].child, act[c].op)
            /\ act[c].child # b
        BY <1>1, <1>10, <2>2 DEF ChildLinks
      <3>2. PICK d \in Acts : d = act[c].child
        BY <3>1
      <3>2o. PICK o : o = act[c].op
        OBVIOUS
      <3>3. act'[c].child = d /\ act'[c].op = o
        BY <1>10, <2>2, <3>2, <3>2o
      <3>4. Works(d, o) /\ d # b /\ d # c
        BY <3>1, <3>2, <3>2o
      <3>5. Works(d, o)'
        BY <1>8, <3>4
      <3> QED
        BY <3>3, <3>4, <3>5 DEF Works
    <2>3. \A c, d \in Acts :
             act'[c].pc = "rpc" /\ act'[d].pc = "rpc" /\ act'[c].child = act'[d].child => c = d
      BY <1>1, <1>10 DEF ChildLinks
    <2> QED
      BY <2>1, <2>2, <2>3 DEF ChildLinks
  <1>12. RequestLinks'
    <2>1. \A r \in Requests : request[r].res = "running" => request[r].act # b
      BY <1>1 DEF RequestLinks
    <2>2. ASSUME NEW r \in Requests, request[r].res = "running"
          PROVE  (/\ request[r].act \in Acts
                  /\ \E o \in LogOp : o.req = r /\ Works(request[r].act, o)
                  /\ \A c \in Acts : act[c].child # request[r].act)'
      <3>1. PICK d \in Acts : d = request[r].act
        BY <1>1, <2>2 DEF RequestLinks
      <3>2. PICK o \in LogOp : o.req = r /\ Works(d, o)
        BY <1>1, <2>2, <3>1 DEF RequestLinks
      <3>3. Works(d, o)'
        BY <1>8, <2>1, <2>2, <3>1, <3>2
      <3>4. \A c \in Acts : act[c].child # d
        BY <1>1, <2>2, <3>1 DEF RequestLinks
      <3>5. \A c \in Acts : act'[c].child # d
        BY <1>9, <3>4, NoneAssumption
      <3> QED
        BY <3>1, <3>2, <3>3, <3>5
    <2>3. \A r, q \in Requests :
             /\ request[r].res = "running" /\ request[q].res = "running"
             /\ request[r].act = request[q].act
             => r = q
      BY <1>1 DEF RequestLinks
    <2> QED
      BY <2>2, <2>3 DEF RequestLinks
  <1> QED
    BY <1>5, <1>7, <1>11, <1>12 DEF Links, ReqTypes, ActTypes

(* A user's call takes a free activation. *)
LEMMA RequestKeepsLinks ==
    ASSUME Links, NEW r \in Requests, NEW p \in Peers, NEW t \in LogOpType, NEW c \in Cids,
           Request(r, p, t, c)
    PROVE  Links'
  <1>1. ActTypes /\ ReqTypes /\ ActsKnow /\ ChildLinks /\ RequestLinks
    BY DEF Links
  <1> DEFINE o == [Type |-> t, Cid |-> c, req |-> r]
             h == Start(p, o)
  <1>2. PICK b \in NextFree :
           /\ act' = [act EXCEPT ![b] = h]
           /\ request' = [request EXCEPT ![r] =
                 [res |-> "running", act |-> b,
                  after |-> {q \in Requests : request[q].res = "ok"}]]
    BY DEF Request
  <1>3. b \in Acts /\ act[b].pc = "free"
    BY FreeToTake
  <1>4. o \in LogOp /\ o.req = r
    BY DEF LogOp
  <1>5. /\ h \in Activation /\ h.pc = "redirect" /\ h.child = NoAct
        /\ h.op = o /\ h.peer = p /\ h.orphan = FALSE
    BY <1>4, StartFields
  <1> HIDE DEF o, h
  <1>6. /\ act'[b] = h
        /\ \A a \in Acts \ {b} : act'[a] = act[a]
        /\ act' \in [Acts -> Activation]
    BY <1>1, <1>2, <1>3, <1>5 DEF ActTypes
  <1>7. /\ request'[r].res = "running" /\ request'[r].act = b
        /\ \A q \in Requests \ {r} : request'[q] = request[q]
        /\ ReqTypes'
    BY <1>1, <1>2, <1>3 DEF ReqTypes
  <1>8. ActsKnow'
    BY <1>1, <1>4, <1>5, <1>6 DEF ActsKnow
  <1>9. ASSUME NEW a \in Acts, NEW x, Works(a, x) PROVE Works(a, x)' /\ a # b
    <2>1. a # b
      BY <1>3, <1>9 DEF Works
    <2> QED
      BY <1>6, <1>9, <2>1 DEF Works
  <1>10. ASSUME NEW a \in Acts, act'[a].pc = "rpc"
         PROVE  a # b /\ act'[a] = act[a] /\ act[a].pc = "rpc"
    BY <1>5, <1>6, <1>10
  <1>11. ChildLinks'
    <2>1. \A a \in Acts : act'[a].pc # "rpc" => act'[a].child = NoAct
      BY <1>1, <1>5, <1>6 DEF ChildLinks
    <2>2. ASSUME NEW a \in Acts, act'[a].pc = "rpc"
          PROVE  (act[a].child \in Acts \ {a} /\ Works(act[a].child, act[a].op))'
      <3>1. act'[a] = act[a] /\ act[a].child \in Acts \ {a} /\ Works(act[a].child, act[a].op)
        BY <1>1, <1>10, <2>2 DEF ChildLinks
      <3>2. PICK d \in Acts : d = act[a].child
        BY <3>1
      <3>2o. PICK x : x = act[a].op
        OBVIOUS
      <3> QED
        BY <1>9, <3>1, <3>2, <3>2o DEF Works
    <2>3. \A a, d \in Acts :
             act'[a].pc = "rpc" /\ act'[d].pc = "rpc" /\ act'[a].child = act'[d].child => a = d
      BY <1>1, <1>10 DEF ChildLinks
    <2> QED
      BY <2>1, <2>2, <2>3 DEF ChildLinks
  <1>12. RequestLinks'
    <2>1. \A a \in Acts : act[a].child # b
      BY <1>1, <1>3, <1>9, NoneAssumption DEF ChildLinks
    <2>2. \A a \in Acts : act'[a].child = act[a].child \/ act'[a].child = NoAct
      BY <1>5, <1>6
    <2>3. \A q \in Requests : request[q].res = "running" => request[q].act # b
      BY <1>1, <1>9 DEF RequestLinks
    <2>4. ASSUME NEW q \in Requests, request'[q].res = "running"
          PROVE  (/\ request[q].act \in Acts
                  /\ \E x \in LogOp : x.req = q /\ Works(request[q].act, x)
                  /\ \A a \in Acts : act[a].child # request[q].act)'
      <3>1. CASE q = r
        <4>1. Works(b, o)'
          BY <1>5, <1>6 DEF Works
        <4>2. \A a \in Acts : act'[a].child # b
          BY <1>3, <2>1, <2>2, NoneAssumption
        <4> QED
          BY <1>3, <1>4, <1>7, <3>1, <4>1, <4>2
      <3>2. CASE q # r
        <4>1. request'[q] = request[q] /\ request[q].res = "running"
          BY <1>7, <2>4, <3>2
        <4>2. PICK d \in Acts : d = request[q].act
          BY <1>1, <4>1 DEF RequestLinks
        <4>3. PICK x \in LogOp : x.req = q /\ Works(d, x)
          BY <1>1, <4>1, <4>2 DEF RequestLinks
        <4>4. Works(d, x)'
          BY <1>9, <4>3
        <4>5. \A a \in Acts : act[a].child # d
          BY <1>1, <4>1, <4>2 DEF RequestLinks
        <4>6. \A a \in Acts : act'[a].child # d
          BY <2>2, <4>5, NoneAssumption
        <4> QED
          BY <4>1, <4>2, <4>3, <4>4, <4>6
      <3> QED
        BY <3>1, <3>2
    <2>5. ASSUME NEW q \in Requests, NEW s \in Requests,
                 request'[q].res = "running", request'[s].res = "running",
                 request'[q].act = request'[s].act
          PROVE  q = s
      BY <1>1, <1>7, <2>3, <2>5 DEF RequestLinks
    <2> QED
      BY <2>4, <2>5 DEF RequestLinks
  <1> QED
    BY <1>6, <1>7, <1>8, <1>11, <1>12 DEF Links, ActTypes

(* A user's call returns, and its activation is free again. *)
LEMMA ReturnKeepsLinks ==
    ASSUME Links, NEW r \in Requests, Return(r)
    PROVE  Links'
  <1>1. ActTypes /\ ReqTypes /\ ActsKnow /\ ChildLinks /\ RequestLinks
    BY DEF Links
  <1>2. request[r].res = "running"
    BY DEF Return
  <1>3. PICK b \in Acts : b = request[r].act
    BY <1>1, <1>2 DEF RequestLinks
  <1>4. /\ act' = [act EXCEPT ![b] = Free]
        /\ request' = [request EXCEPT ![r].res = act[b].pc, ![r].act = NoAct]
        /\ act[b].pc \in {"ok", "err"}
    BY <1>3 DEF Return
  <1>5. /\ act'[b] = Free
        /\ \A a \in Acts \ {b} : act'[a] = act[a]
        /\ act' \in [Acts -> Activation]
    BY <1>1, <1>3, <1>4, StartFields DEF ActTypes
  <1>6. /\ request'[r].res \in {"ok", "err"}
        /\ \A q \in Requests \ {r} : request'[q] = request[q]
        /\ ReqTypes'
    <2>1. PICK x \in {"ok", "err"} : x = act[b].pc
      BY <1>4
    <2> DEFINE g == [[request[r] EXCEPT !.res = x] EXCEPT !.act = NoAct]
    <2>2. request' = [request EXCEPT ![r] = g]
      BY <1>1, <1>4, <2>1 DEF ReqTypes
    <2>3. /\ g \in [res : {"none", "running", "ok", "err"},
                    act : Acts \cup {NoAct}, after : SUBSET Requests]
          /\ g.res = x
      <3>1. request[r] \in [res : {"none", "running", "ok", "err"},
                            act : Acts \cup {NoAct}, after : SUBSET Requests]
        BY <1>1 DEF ReqTypes
      <3> QED
        BY <2>1, <3>1
    <2> HIDE DEF g
    <2> QED
      BY <1>1, <2>1, <2>2, <2>3 DEF ReqTypes
  <1>7. ActsKnow'
    BY <1>1, <1>5, StartFields DEF ActsKnow, Running
  <1>8. ASSUME NEW a \in Acts, NEW x, Works(a, x), a # b PROVE Works(a, x)'
    BY <1>5, <1>8 DEF Works
  <1>9. ASSUME NEW a \in Acts, act'[a].pc = "rpc"
         PROVE  a # b /\ act'[a] = act[a] /\ act[a].pc = "rpc"
    BY <1>5, <1>9, StartFields
  <1>10. \A a \in Acts : act[a].child # b
    BY <1>1, <1>2, <1>3 DEF RequestLinks
  <1>11. ChildLinks'
    <2>1. \A a \in Acts : act'[a].pc # "rpc" => act'[a].child = NoAct
      BY <1>1, <1>5, StartFields DEF ChildLinks
    <2>2. ASSUME NEW a \in Acts, act'[a].pc = "rpc"
          PROVE  (act[a].child \in Acts \ {a} /\ Works(act[a].child, act[a].op))'
      <3>1. act'[a] = act[a] /\ act[a].child \in Acts \ {a} /\ Works(act[a].child, act[a].op)
        BY <1>1, <1>9, <2>2 DEF ChildLinks
      <3>2. PICK d \in Acts : d = act[a].child
        BY <3>1
      <3>2o. PICK x : x = act[a].op
        OBVIOUS
      <3>3. Works(d, x) /\ d # b
        BY <1>10, <3>1, <3>2, <3>2o
      <3>4. Works(d, x)'
        BY <1>8, <3>3
      <3> QED
        BY <3>1, <3>2, <3>2o, <3>4 DEF Works
    <2>3. \A a, d \in Acts :
             act'[a].pc = "rpc" /\ act'[d].pc = "rpc" /\ act'[a].child = act'[d].child => a = d
      BY <1>1, <1>9 DEF ChildLinks
    <2> QED
      BY <2>1, <2>2, <2>3 DEF ChildLinks
  <1>12. RequestLinks'
    <2>1. \A a \in Acts : act'[a].child = act[a].child \/ act'[a].child = NoAct
      BY <1>5, StartFields
    <2>2. ASSUME NEW q \in Requests, request'[q].res = "running"
          PROVE  /\ q # r /\ request'[q] = request[q] /\ request[q].res = "running"
                 /\ request[q].act # b
      BY <1>1, <1>2, <1>3, <1>6, <2>2 DEF RequestLinks
    <2>3. ASSUME NEW q \in Requests, request'[q].res = "running"
          PROVE  (/\ request[q].act \in Acts
                  /\ \E x \in LogOp : x.req = q /\ Works(request[q].act, x)
                  /\ \A a \in Acts : act[a].child # request[q].act)'
      <3>1. request'[q] = request[q] /\ request[q].res = "running" /\ request[q].act # b
        BY <2>2, <2>3
      <3>2. PICK d \in Acts : d = request[q].act
        BY <1>1, <3>1 DEF RequestLinks
      <3>3. PICK x \in LogOp : x.req = q /\ Works(d, x)
        BY <1>1, <3>1, <3>2 DEF RequestLinks
      <3>4. Works(d, x)'
        BY <1>8, <3>1, <3>2, <3>3
      <3>5. \A a \in Acts : act[a].child # d
        BY <1>1, <3>1, <3>2 DEF RequestLinks
      <3>6. \A a \in Acts : act'[a].child # d
        BY <2>1, <3>5, NoneAssumption
      <3> QED
        BY <3>1, <3>2, <3>3, <3>4, <3>6
    <2>4. ASSUME NEW q \in Requests, NEW s \in Requests,
                 request'[q].res = "running", request'[s].res = "running",
                 request'[q].act = request'[s].act
          PROVE  q = s
      BY <1>1, <2>2, <2>4 DEF RequestLinks
    <2> QED
      BY <2>3, <2>4 DEF RequestLinks
  <1> QED
    BY <1>5, <1>6, <1>7, <1>11, <1>12 DEF Links, ActTypes

(* A peer stops: its own activations end, those it waited for go on alone. *)
LEMMA RestartKeepsLinks ==
    ASSUME Links, NEW p \in Peers, act' = [a \in Acts |-> AfterStop(a, p)], UNCHANGED request
    PROVE  Links'
  <1>1. ActTypes /\ ActsKnow /\ ChildLinks /\ RequestLinks
    BY DEF Links
  <1> DEFINE awaited(a) == \E b \in Acts : act[b].peer = p /\ act[b].child = a
  <1>2. ASSUME NEW a \in Acts
        PROVE  \/ act'[a] = Free
               \/ act[a].peer = p /\ act'[a] = [Free EXCEPT !.pc = "err"] /\ ~awaited(a)
               \/ act[a].peer # p /\ act'[a] = [act[a] EXCEPT !.orphan = TRUE] /\ awaited(a)
               \/ act[a].peer # p /\ act'[a] = act[a]
    BY DEF AfterStop
  <1>3. ASSUME NEW a \in Acts
        PROVE  /\ act'[a] \in Activation
               /\ act'[a].pc \notin {"free", "err"} =>
                     act'[a].pc = act[a].pc /\ act'[a].op = act[a].op /\ act'[a].peer = act[a].peer
               /\ act'[a].pc = "rpc" => act[a].peer # p /\ act'[a].child = act[a].child
               /\ act'[a].child = act[a].child \/ act'[a].child = NoAct
               /\ act'[a].pc # "rpc" => act'[a].child = NoAct
    <2>1. act[a] \in Activation
      BY <1>1 DEF ActTypes
    <2>2. act[a].pc # "rpc" => act[a].child = NoAct
      BY <1>1 DEF ChildLinks
    <2>3. CASE act'[a] = Free
      BY <2>3, StartFields
    <2>4. CASE act'[a] = [Free EXCEPT !.pc = "err"]
      BY <2>4, ErrFields
    <2>5. CASE act[a].peer # p /\ act'[a] = [act[a] EXCEPT !.orphan = TRUE]
      <3>1. PICK f \in Activation : f = act[a]
        BY <2>1
      <3>2. /\ act'[a] \in Activation
            /\ act'[a].pc = f.pc /\ act'[a].op = f.op /\ act'[a].peer = f.peer
            /\ act'[a].child = f.child
        BY <2>5, <3>1, OrphanFields
      <3> QED
        BY <2>2, <2>5, <3>1, <3>2
    <2>6. CASE act[a].peer # p /\ act'[a] = act[a]
      BY <2>1, <2>2, <2>6
    <2> QED
      BY <1>2, <2>3, <2>4, <2>5, <2>6
  <1>4. ActTypes'
    BY <1>3 DEF ActTypes
  <1>5. ActsKnow'
    BY <1>1, <1>3 DEF ActsKnow, Running
  <1>6. ASSUME NEW a \in Acts, NEW o, Works(a, o), ~awaited(a) PROVE Works(a, o)'
    <2>1. CASE act[a].peer = p
      <3>1. act'[a] = [Free EXCEPT !.pc = "err"]
        BY <1>6, <2>1 DEF AfterStop, Works
      <3> QED
        BY <3>1, ErrFields DEF Works
    <2>2. CASE act[a].peer # p
      <3>1. act'[a] = act[a]
        BY <1>6, <2>2 DEF AfterStop
      <3> QED
        BY <1>6, <3>1 DEF Works
    <2> QED
      BY <2>1, <2>2
  <1>7. ChildLinks'
    <2>1. \A a \in Acts : act'[a].pc # "rpc" => act'[a].child = NoAct
      BY <1>3
    <2>2. ASSUME NEW a \in Acts, act'[a].pc = "rpc"
          PROVE  /\ act[a].pc = "rpc" /\ act'[a].child = act[a].child
                 /\ act'[a].op = act[a].op /\ act[a].peer # p
      BY <1>3, <2>2
    <2>3. ASSUME NEW a \in Acts, act'[a].pc = "rpc"
          PROVE  (act[a].child \in Acts \ {a} /\ Works(act[a].child, act[a].op))'
      <3>1. act[a].child \in Acts \ {a} /\ Works(act[a].child, act[a].op)
        BY <1>1, <2>2, <2>3 DEF ChildLinks
      <3>2. PICK d \in Acts : d = act[a].child
        BY <3>1
      <3>2o. PICK x : x = act[a].op
        OBVIOUS
      <3>3. ~awaited(d)
        <4> SUFFICES ASSUME NEW b \in Acts, act[b].peer = p, act[b].child = d PROVE FALSE
          OBVIOUS
        <4>1. act[b].pc = "rpc"
          BY <1>1, NoneAssumption DEF ChildLinks
        <4>2. b = a
          BY <1>1, <2>2, <2>3, <3>2, <3>2o, <4>1 DEF ChildLinks
        <4> QED
          BY <2>2, <2>3, <4>2
      <3>4. Works(d, x)'
        BY <1>6, <3>1, <3>2, <3>2o, <3>3
      <3>5. act'[a].child = d /\ act'[a].op = x /\ d # a
        BY <2>2, <2>3, <3>1, <3>2, <3>2o
      <3> QED
        BY <3>4, <3>5 DEF Works
    <2>4. \A a, d \in Acts :
             act'[a].pc = "rpc" /\ act'[d].pc = "rpc" /\ act'[a].child = act'[d].child => a = d
      BY <1>1, <2>2 DEF ChildLinks
    <2> QED
      BY <2>1, <2>3, <2>4 DEF ChildLinks
  <1>8. RequestLinks'
    <2>1. ASSUME NEW q \in Requests, request[q].res = "running"
          PROVE  (/\ request[q].act \in Acts
                  /\ \E x \in LogOp : x.req = q /\ Works(request[q].act, x)
                  /\ \A a \in Acts : act[a].child # request[q].act)'
      <3>2. PICK d \in Acts : d = request[q].act
        BY <1>1, <2>1 DEF RequestLinks
      <3>3. PICK x \in LogOp : x.req = q /\ Works(d, x)
        BY <1>1, <2>1, <3>2 DEF RequestLinks
      <3>4. \A a \in Acts : act[a].child # d
        BY <1>1, <2>1, <3>2 DEF RequestLinks
      <3>5. Works(d, x)'
        BY <1>6, <3>3, <3>4
      <3>6. \A a \in Acts : act'[a].child # d
        BY <1>3, <3>4, NoneAssumption
      <3> QED
        BY <3>2, <3>3, <3>5, <3>6
    <2>2. \A r, q \in Requests :
             /\ request[r].res = "running" /\ request[q].res = "running"
             /\ request[r].act = request[q].act
             => r = q
      BY <1>1 DEF RequestLinks
    <2> QED
      BY <2>1, <2>2 DEF RequestLinks
  <1> QED
    BY <1>4, <1>5, <1>7, <1>8 DEF Links, ReqTypes

(* The links hold in every step: one case per way to change activations. *)
LEMMA LinksStep ==
    ASSUME Links, view \in [Peers -> Peers \cup {NoPeer}],
           log \in Seq(LogOp), term \in Nat, [Next]_vars
    PROVE  Links'
  <1>0. ActTypes /\ ActsKnow /\ ChildLinks
    BY DEF Links
  <1>1. CASE UNCHANGED <<act, request>>
    BY <1>1 DEF Links, ActTypes, ReqTypes, ActsKnow, ChildLinks, RequestLinks, Works
  <1>2. ASSUME NEW p \in Peers, Elect(p) \/ Learn(p) \/ Apply(p) \/ Snapshot(p)
        PROVE  UNCHANGED <<act, request>>
    BY <1>2 DEF Elect, Learn, Apply, Snapshot
  <1>3. StepDown \/ CommitNext \/ UNCHANGED vars => UNCHANGED <<act, request>>
    BY DEF StepDown, CommitNext, vars
  <1>4. ASSUME NEW p \in Peers, Restart(p) PROVE Links'
    BY <1>4, RestartKeepsLinks DEF Restart
  <1>5. ASSUME NEW a \in Acts, RedirectToLeader(a) PROVE Links'
    <2>1. act[a].pc = "redirect" /\ UNCHANGED request /\ act[a] \in Activation
      BY <1>0, <1>5 DEF RedirectToLeader, ActTypes
    <2>2. act[a].peer \in Peers
      BY <1>0, <2>1 DEF ActsKnow, Running
    <2>3. ASSUME NEW l \in {"commit", "noleader"}, act' = [act EXCEPT ![a].pc = l]
          PROVE  Links'
      <3>1. act' = [act EXCEPT ![a] = [act[a] EXCEPT !.pc = l]]
        BY <1>0, <2>3 DEF ActTypes
      <3>2. PICK f \in Activation : f = act[a]
        BY <2>1
      <3> DEFINE g == [f EXCEPT !.pc = l]
      <3>3. l \in Pcs /\ l \in {"noleader", "commit", "wait"}
        BY DEF Pcs
      <3>4. /\ g \in Activation
            /\ g.pc = l /\ g.op = f.op /\ g.peer = f.peer
            /\ g.orphan = f.orphan /\ g.child = f.child
        BY <3>3, PcFields
      <3>5. act' = [act EXCEPT ![a] = g]
        BY <3>1, <3>2
      <3> HIDE DEF g
      <3>6. Goes(act[a], g)
        BY <3>2, <3>3, <3>4 DEF Goes
      <3> QED
        BY <2>1, <3>5, <3>6, GoesLinks DEF Running
    <2>4. ASSUME act' = [act EXCEPT ![a] = NextTry(@)] PROVE Links'
      BY <2>1, <2>4, NextTryOver, GoesLinks DEF Running, Goes
    <2>5. ASSUME view[act[a].peer] \notin {act[a].peer, NoPeer}, RedirectTo(a, view[act[a].peer])
          PROVE  Links'
      BY <2>1, <2>2, <2>5, RedirectLinks DEF Running
    <2> QED
      BY <1>5, <2>3, <2>4, <2>5 DEF RedirectToLeader
  <1>6. ASSUME NEW a \in Acts, WaitedForLeader(a) PROVE Links'
    <2>1. act[a].pc = "noleader" /\ UNCHANGED request /\ act[a] \in Activation
      BY <1>0, <1>6 DEF WaitedForLeader, ActTypes
    <2>2. act[a].peer \in Peers
      BY <1>0, <2>1 DEF ActsKnow, Running
    <2>3. ASSUME act' = [act EXCEPT ![a] = NextTry(@)] PROVE Links'
      BY <2>1, <2>3, NextTryOver, GoesLinks DEF Running, Goes
    <2>4. ASSUME RedirectTo(a, act[a].peer) PROVE Links'
      BY <2>1, <2>2, <2>4, RedirectLinks DEF Running
    <2> QED
      BY <1>6, <2>3, <2>4 DEF WaitedForLeader
  <1>7. ASSUME NEW a \in Acts, CommitOp(a) PROVE Links'
    <2>1. act[a].pc = "commit" /\ UNCHANGED request /\ act[a] \in Activation
      BY <1>0, <1>7 DEF CommitOp, ActTypes
    <2>2. ASSUME act' = [act EXCEPT ![a].pc = "wait", ![a].idx = Len(log) + 1, ![a].term = term]
          PROVE  Links'
      <3>1. PICK i \in Nat : i = Len(log) + 1
        OBVIOUS
      <3> DEFINE g == [[[act[a] EXCEPT !.pc = "wait"] EXCEPT !.idx = i] EXCEPT !.term = term]
      <3>2. act' = [act EXCEPT ![a] = g]
        BY <1>0, <2>2, <3>1 DEF ActTypes
      <3>4. /\ g \in Activation
            /\ g.pc = "wait" /\ g.op = act[a].op /\ g.peer = act[a].peer
            /\ g.orphan = act[a].orphan /\ g.child = act[a].child
        <4>1. PICK f \in Activation : f = act[a]
          BY <2>1
        <4>2. PICK t \in Nat : t = term
          OBVIOUS
        <4> DEFINE h == [[[f EXCEPT !.pc = "wait"] EXCEPT !.idx = i] EXCEPT !.term = t]
        <4>3. /\ h \in Activation
              /\ h.pc = "wait" /\ h.op = f.op /\ h.peer = f.peer
              /\ h.orphan = f.orphan /\ h.child = f.child
          BY <3>1 DEF Activation
        <4>4. g = h
          BY <4>1, <4>2
        <4> HIDE DEF g, h
        <4> QED
          BY <4>1, <4>3, <4>4
      <3> HIDE DEF g
      <3>3. Goes(act[a], g)
        BY <3>4 DEF Goes
      <3> QED
        BY <2>1, <3>2, <3>3, GoesLinks DEF Running
    <2>3. ASSUME act' = [act EXCEPT ![a] = NextTry(@)] PROVE Links'
      BY <2>1, <2>3, NextTryOver, GoesLinks DEF Running, Goes
    <2> QED
      BY <1>7, <2>2, <2>3 DEF CommitOp
  <1>8. ASSUME NEW a \in Acts, CommitDone(a) \/ CommitLost(a) PROVE Links'
    <2>1. act[a].pc = "wait" /\ UNCHANGED request /\ act[a] \in Activation
      BY <1>0, <1>8 DEF CommitDone, CommitLost, ActTypes
    <2>2. \/ act' = [act EXCEPT ![a] = Succeed(@)]
          \/ act' = [act EXCEPT ![a] = NextTry(@)]
      BY <1>8 DEF CommitDone, CommitLost
    <2> QED
      BY <2>1, <2>2, NextTryOver, SucceedOver, GoesLinks DEF Running, Goes
  <1>9. ASSUME NEW a \in Acts, Answer(a) PROVE Links'
    <2>1. act[a].pc = "rpc" /\ UNCHANGED request /\ act[a] \in Activation
      BY <1>0, <1>9 DEF Answer, ActTypes
    <2>2. PICK b : b = act[a].child
      OBVIOUS
    <2>3. act' = [act EXCEPT ![a] = Answered(act[a], act[b].pc), ![b] = Free]
      BY <1>9, <2>2 DEF Answer
    <2>4. Over(act[a], Answered(act[a], act[b].pc))
      BY <2>1, AnsweredOver
    <2> QED
      BY <2>1, <2>2, <2>3, <2>4, AnsweredLinks
  <1>10. ASSUME NEW a \in Acts, AnswerLost(a) PROVE Links'
    <2>1. act[a].pc = "rpc" /\ UNCHANGED request /\ act[a] \in Activation
      BY <1>0, <1>10 DEF AnswerLost, ActTypes
    <2>2. PICK b \in Acts : b = act[a].child /\ b # a
      BY <1>0, <2>1 DEF ChildLinks
    <2> DEFINE h == IF act[b].pc \in {"ok", "err"} THEN Free ELSE [act[b] EXCEPT !.orphan = TRUE]
    <2>3. act' = [act EXCEPT ![a] = NextTry(act[a]), ![b] = h]
      BY <1>0, <1>10, <2>2 DEF AnswerLost, ActTypes
    <2>4. Over(act[a], NextTry(act[a]))
      BY <2>1, NextTryOver
    <2>5. h = Free \/ (h = [act[b] EXCEPT !.orphan = TRUE] /\ act[b].pc \notin {"ok", "err"})
      OBVIOUS
    <2> HIDE DEF h
    <2> QED
      BY <2>1, <2>2, <2>3, <2>4, <2>5, AnsweredLinks
  <1> QED
    BY <1>1, <1>2, <1>3, <1>4, <1>5, <1>6, <1>7, <1>8, <1>9, <1>10,
       RequestKeepsLinks, ReturnKeepsLinks DEF Next, LogOpStep

-----------------------------------------------------------------------------
(* The log, and the replicas made from it.                                 *)

RaftTypes ==
    /\ log \in Seq(LogOp)
    /\ commit \in 0 .. Len(log)
    /\ leader \in Peers \cup {NoPeer}
    /\ term \in Nat
    /\ view \in [Peers -> Peers \cup {NoPeer}]

(* A step loses nothing that is committed. *)
Kept ==
    /\ commit <= commit' /\ commit' <= Len(log')
    /\ \A i \in 1 .. commit : log'[i] = log[i]

(* Every step keeps the types of the log and its committed prefix: an      *)
(* election cuts behind the prefix, a leader appends behind the log.       *)
LEMMA RaftStep ==
    ASSUME RaftTypes, Links, [Next]_vars
    PROVE  RaftTypes' /\ Kept
  <1>0. /\ log \in Seq(LogOp) /\ commit \in 0 .. Len(log) /\ term \in Nat
        /\ leader \in Peers \cup {NoPeer} /\ view \in [Peers -> Peers \cup {NoPeer}]
    BY DEF RaftTypes
  <1>1. ASSUME UNCHANGED <<log, commit>> PROVE Kept
    BY <1>0, <1>1 DEF Kept
  <1>2. ASSUME NEW p \in Peers, Elect(p)
        PROVE  RaftTypes' /\ Kept
    <2>1. PICK k \in commit .. Len(log) : log' = SubSeq(log, 1, k)
      BY <1>2 DEF Elect
    <2>2. k \in 0 .. Len(log) /\ commit <= k /\ commit' = commit
      BY <1>0, <1>2 DEF Elect
    <2>3. /\ log' \in Seq(LogOp) /\ Len(log') = k
          /\ \A i \in 1 .. k : log'[i] = log[i]
      BY <1>0, <2>1, <2>2
    <2>4. Kept /\ commit' \in 0 .. Len(log')
      BY <1>0, <2>2, <2>3 DEF Kept
    <2>5. term' \in Nat /\ leader' \in Peers \cup {NoPeer} /\ view' \in [Peers -> Peers \cup {NoPeer}]
      BY <1>0, <1>2 DEF Elect
    <2> QED
      BY <2>3, <2>4, <2>5 DEF RaftTypes
  <1>3. ASSUME NEW a \in Acts, CommitOp(a)
        PROVE  RaftTypes' /\ Kept
    <2>1. UNCHANGED <<commit, leader, term, view>>
      BY <1>3 DEF CommitOp
    <2>2. CASE UNCHANGED log
      BY <1>0, <1>1, <2>1, <2>2 DEF RaftTypes
    <2>3. CASE log' = Append(log, act[a].op)
      <3>1. act[a].op \in LogOp
        BY <1>3 DEF Links, ActsKnow, Running, CommitOp
      <3>2. /\ log' \in Seq(LogOp) /\ Len(log') = Len(log) + 1
            /\ \A i \in 1 .. Len(log) : log'[i] = log[i]
        BY <1>0, <2>3, <3>1
      <3>3. Kept /\ commit' \in 0 .. Len(log')
        BY <1>0, <2>1, <3>2 DEF Kept
      <3> QED
        BY <1>0, <2>1, <3>2, <3>3 DEF RaftTypes
    <2> QED
      BY <1>3, <2>2, <2>3 DEF CommitOp
  <1>4. ASSUME CommitNext
        PROVE  RaftTypes' /\ Kept
    BY <1>0, <1>4 DEF CommitNext, Kept, RaftTypes
  <1>5. ASSUME UNCHANGED <<log, commit, term>>,
               leader' \in Peers \cup {NoPeer}, view' \in [Peers -> Peers \cup {NoPeer}]
        PROVE  RaftTypes' /\ Kept
    BY <1>0, <1>1, <1>5 DEF RaftTypes
  <1>6. ASSUME NEW p \in Peers, Learn(p) \/ Apply(p) \/ Snapshot(p) \/ Restart(p)
        PROVE  RaftTypes' /\ Kept
    BY <1>0, <1>5, <1>6 DEF Learn, Apply, Snapshot, Restart, raft
  <1>7. ASSUME StepDown
        PROVE  RaftTypes' /\ Kept
    BY <1>0, <1>5, <1>7 DEF StepDown
  <1>8. ASSUME NEW r \in Requests, NEW p \in Peers, NEW t \in LogOpType, NEW c \in Cids,
               Request(r, p, t, c)
        PROVE  RaftTypes' /\ Kept
    BY <1>0, <1>5, <1>8 DEF Request, raft
  <1>9. ASSUME NEW r \in Requests, Return(r)
        PROVE  RaftTypes' /\ Kept
    BY <1>0, <1>5, <1>9 DEF Return, raft
  <1>10. ASSUME NEW a \in Acts,
               \/ RedirectToLeader(a) \/ WaitedForLeader(a) \/ CommitDone(a) \/ CommitLost(a)
               \/ Answer(a) \/ AnswerLost(a)
        PROVE  RaftTypes' /\ Kept
    <2>1. UNCHANGED raft
      BY <1>10 DEF RedirectToLeader, WaitedForLeader, CommitDone, CommitLost, Answer, AnswerLost
    <2> QED
      BY <1>0, <1>5, <2>1 DEF raft
  <1>11. CASE UNCHANGED vars
    BY <1>0, <1>5, <1>11 DEF vars
  <1> QED
    BY <1>2, <1>3, <1>4, <1>6, <1>7, <1>8, <1>9, <1>10, <1>11 DEF Next, LogOpStep

(* What a prefix of the committed operations left stays what it left. *)
LEMMA KeptLastOp ==
    ASSUME Kept, commit \in Nat, NEW s, NEW n \in 0 .. commit, LastOpWins(s, n)
    PROVE  LastOpWins(s, n)'
  <1>1. \A i \in 1 .. n : log'[i] = log[i]
    BY DEF Kept
  <1> SUFFICES ASSUME NEW c \in Cids
               PROVE  \/ /\ s[c] = NoPin
                         /\ \A i \in 1 .. n : log'[i].Cid # c
                      \/ \E i \in 1 .. n :
                            /\ log'[i].Cid = c
                            /\ \A j \in i + 1 .. n : log'[j].Cid # c
                            /\ s[c] = IF log'[i].Type = "LogOpPin" THEN log'[i].req ELSE NoPin
    BY DEF LastOpWins
  <1>2. CASE s[c] = NoPin /\ \A i \in 1 .. n : log[i].Cid # c
    BY <1>1, <1>2
  <1>3. ASSUME NEW i \in 1 .. n,
               log[i].Cid = c, \A j \in i + 1 .. n : log[j].Cid # c,
               s[c] = IF log[i].Type = "LogOpPin" THEN log[i].req ELSE NoPin
        PROVE  /\ log'[i].Cid = c
               /\ \A j \in i + 1 .. n : log'[j].Cid # c
               /\ s[c] = IF log'[i].Type = "LogOpPin" THEN log'[i].req ELSE NoPin
    <2>1. \A j \in i + 1 .. n : j \in 1 .. n
      OBVIOUS
    <2> QED
      BY <1>1, <1>3, <2>1
  <1> QED
    BY <1>2, <1>3 DEF LastOpWins

(* Applying the next operation. *)
LEMMA ApplyLastOp ==
    ASSUME NEW s \in MapState, NEW n \in Nat, NEW o \in LogOp, o = log[n + 1], LastOpWins(s, n)
    PROVE  ApplyTo(o, s) \in MapState /\ LastOpWins(ApplyTo(o, s), n + 1)
  <1>1. o.Cid \in Cids /\ o.req \in Requests
    BY DEF LogOp
  <1> DEFINE v == IF o.Type = "LogOpPin" THEN o.req ELSE NoPin
             t == ApplyTo(o, s)
  <1>2. t = [s EXCEPT ![o.Cid] = v]
    BY DEF ApplyTo, Add, Rm
  <1>3. t \in MapState /\ t[o.Cid] = v /\ \A c \in Cids : c # o.Cid => t[c] = s[c]
    BY <1>1, <1>2 DEF MapState
  <1> HIDE DEF t
  <1>4. LastOpWins(t, n + 1)
    <2> SUFFICES ASSUME NEW c \in Cids
                 PROVE  \/ /\ t[c] = NoPin
                           /\ \A i \in 1 .. n + 1 : log[i].Cid # c
                        \/ \E i \in 1 .. n + 1 :
                              /\ log[i].Cid = c
                              /\ \A j \in i + 1 .. n + 1 : log[j].Cid # c
                              /\ t[c] = IF log[i].Type = "LogOpPin" THEN log[i].req ELSE NoPin
      BY DEF LastOpWins
    <2>1. CASE c = o.Cid
      <3>1. n + 1 \in 1 .. n + 1 /\ log[n + 1].Cid = c /\ \A j \in (n + 1) + 1 .. n + 1 : log[j].Cid # c
        BY <2>1
      <3>2. t[c] = IF log[n + 1].Type = "LogOpPin" THEN log[n + 1].req ELSE NoPin
        BY <1>3, <2>1
      <3> QED
        BY <3>1, <3>2
    <2>2. CASE c # o.Cid
      <3>1. t[c] = s[c] /\ log[n + 1].Cid # c
        BY <1>3, <2>2
      <3>2. CASE s[c] = NoPin /\ \A i \in 1 .. n : log[i].Cid # c
        <4>1. \A i \in 1 .. n + 1 : i \in 1 .. n \/ i = n + 1
          OBVIOUS
        <4> QED
          BY <3>1, <3>2, <4>1
      <3>3. ASSUME NEW i \in 1 .. n,
                   log[i].Cid = c, \A j \in i + 1 .. n : log[j].Cid # c,
                   s[c] = IF log[i].Type = "LogOpPin" THEN log[i].req ELSE NoPin
            PROVE  /\ i \in 1 .. n + 1
                   /\ \A j \in i + 1 .. n + 1 : log[j].Cid # c
                   /\ t[c] = IF log[i].Type = "LogOpPin" THEN log[i].req ELSE NoPin
        <4>1. i \in 1 .. n + 1 /\ \A j \in i + 1 .. n + 1 : j \in i + 1 .. n \/ j = n + 1
          OBVIOUS
        <4> QED
          BY <3>1, <3>3, <4>1
      <3> QED
        BY <3>2, <3>3 DEF LastOpWins
    <2> QED
      BY <2>1, <2>2
  <1> QED
    BY <1>3, <1>4 DEF t

ReplicaTypes ==
    /\ applied \in [Peers -> Nat]
    /\ state \in [Peers -> MapState]
    /\ snap \in [Peers -> Nat \X MapState]
    /\ restarts \in Nat

Replicas == ReplicaTypes /\ StateIsLog /\ SnapIsLog

(* Every peer's state and snapshot is the outcome of a committed prefix. *)
LEMMA ReplicasStep ==
    ASSUME RaftTypes, Links, Replicas, [Next]_vars
    PROVE  Replicas'
  <1>0. /\ log \in Seq(LogOp) /\ commit \in Nat /\ commit <= Len(log)
        /\ ReplicaTypes /\ StateIsLog /\ SnapIsLog /\ Kept
    BY RaftStep DEF RaftTypes, Replicas
  <1>1. ASSUME NEW s, NEW n \in Nat, n <= commit, LastOpWins(s, n)
        PROVE  n <= commit' /\ LastOpWins(s, n)'
    <2>1. n \in 0 .. commit /\ commit' \in Nat
      BY <1>0, <1>1, RaftStep DEF RaftTypes
    <2> QED
      BY <1>0, <1>1, <2>1, KeptLastOp DEF Kept
  <1>2. ASSUME NEW p \in Peers, applied'[p] = applied[p], state'[p] = state[p]
        PROVE  (applied[p] <= commit /\ LastOpWins(state[p], applied[p]))'
    <2>1. PICK n, s : n \in Nat /\ n = applied[p] /\ s = state[p]
      BY <1>0 DEF ReplicaTypes
    <2>2. n <= commit' /\ LastOpWins(s, n)'
      BY <1>0, <1>1, <2>1 DEF StateIsLog
    <2> QED
      BY <1>2, <2>1, <2>2 DEF LastOpWins
  <1>3. ASSUME NEW p \in Peers, snap'[p] = snap[p]
        PROVE  (snap[p][1] <= commit /\ LastOpWins(snap[p][2], snap[p][1]))'
    <2>1. PICK n, s : n \in Nat /\ n = snap[p][1] /\ s = snap[p][2]
      BY <1>0 DEF ReplicaTypes
    <2>2. n <= commit' /\ LastOpWins(s, n)'
      BY <1>0, <1>1, <2>1 DEF SnapIsLog
    <2> QED
      BY <1>3, <2>1, <2>2 DEF LastOpWins
  <1>4. ASSUME UNCHANGED <<applied, state, snap>>, restarts' \in Nat
        PROVE  Replicas'
    BY <1>0, <1>2, <1>3, <1>4 DEF Replicas, ReplicaTypes, StateIsLog, SnapIsLog
  <1>5. ASSUME NEW p \in Peers, Apply(p)
        PROVE  Replicas'
    <2>1. PICK n \in Nat, s \in MapState : n = applied[p] /\ s = state[p]
      BY <1>0 DEF ReplicaTypes
    <2>2. /\ n < commit /\ UNCHANGED <<log, commit, snap, restarts>>
          /\ applied' = [applied EXCEPT ![p] = n + 1]
          /\ state' = [state EXCEPT ![p] = ApplyTo(log[n + 1], s)]
      BY <1>5, <2>1 DEF Apply, raft
    <2>3. PICK o \in LogOp : o = log[n + 1]
      BY <1>0, <2>2
    <2>4. LastOpWins(s, n)
      BY <1>0, <2>1 DEF StateIsLog
    <2>5. PICK t : t = ApplyTo(o, s)
      OBVIOUS
    <2>6. t \in MapState /\ LastOpWins(t, n + 1)
      BY <2>3, <2>4, <2>5, ApplyLastOp
    <2>7. ReplicaTypes'
      BY <1>0, <2>2, <2>3, <2>5, <2>6 DEF ReplicaTypes
    <2>8. applied'[p] = n + 1 /\ state'[p] = t /\ n + 1 <= commit
      BY <1>0, <2>2, <2>3, <2>5 DEF ReplicaTypes
    <2>9. (applied[p] <= commit /\ LastOpWins(state[p], applied[p]))'
      BY <2>2, <2>6, <2>8 DEF LastOpWins
    <2>10. \A q \in Peers \ {p} : applied'[q] = applied[q] /\ state'[q] = state[q]
      BY <1>0, <2>2 DEF ReplicaTypes
    <2>11. StateIsLog'
      BY <1>2, <2>9, <2>10 DEF StateIsLog
    <2>12. SnapIsLog'
      BY <1>3, <2>2 DEF SnapIsLog
    <2> QED
      BY <2>7, <2>11, <2>12 DEF Replicas
  <1>6. ASSUME NEW p \in Peers, Snapshot(p)
        PROVE  Replicas'
    <2>1. PICK n \in Nat, s \in MapState : n = applied[p] /\ s = state[p]
      BY <1>0 DEF ReplicaTypes
    <2>2. snap' = [snap EXCEPT ![p] = <<n, s>>] /\ UNCHANGED <<applied, state, restarts>>
      BY <1>6, <2>1 DEF Snapshot
    <2>3. ReplicaTypes'
      BY <1>0, <2>2 DEF ReplicaTypes
    <2>4. snap'[p][1] = n /\ snap'[p][2] = s /\ \A q \in Peers \ {p} : snap'[q] = snap[q]
      BY <1>0, <2>2 DEF ReplicaTypes
    <2>5. n <= commit' /\ LastOpWins(s, n)'
      BY <1>0, <1>1, <2>1 DEF StateIsLog
    <2>6. (snap[p][1] <= commit /\ LastOpWins(snap[p][2], snap[p][1]))'
      BY <2>4, <2>5 DEF LastOpWins
    <2>7. SnapIsLog'
      BY <1>3, <2>4, <2>6 DEF SnapIsLog
    <2>8. StateIsLog'
      BY <1>2, <2>2 DEF StateIsLog
    <2> QED
      BY <2>3, <2>7, <2>8 DEF Replicas
  <1>7. ASSUME NEW p \in Peers, Restart(p)
        PROVE  Replicas'
    <2>1. PICK n \in Nat, s \in MapState : n = snap[p][1] /\ s = snap[p][2]
      BY <1>0 DEF ReplicaTypes
    <2>2. /\ applied' = [applied EXCEPT ![p] = n] /\ state' = [state EXCEPT ![p] = s]
          /\ UNCHANGED snap /\ restarts' = restarts + 1
      BY <1>7, <2>1 DEF Restart, RestoredIndex
    <2>3. ReplicaTypes'
      BY <1>0, <2>2 DEF ReplicaTypes
    <2>4. /\ applied'[p] = n /\ state'[p] = s
          /\ \A q \in Peers \ {p} : applied'[q] = applied[q] /\ state'[q] = state[q]
      BY <1>0, <2>2 DEF ReplicaTypes
    <2>5. n <= commit' /\ LastOpWins(s, n)'
      BY <1>0, <1>1, <2>1 DEF SnapIsLog
    <2>6. (applied[p] <= commit /\ LastOpWins(state[p], applied[p]))'
      BY <2>4, <2>5 DEF LastOpWins
    <2>7. StateIsLog'
      BY <1>2, <2>4, <2>6 DEF StateIsLog
    <2>8. SnapIsLog'
      BY <1>3, <2>2 DEF SnapIsLog
    <2> QED
      BY <2>3, <2>7, <2>8 DEF Replicas
  <1>8. ASSUME UNCHANGED replica
        PROVE  Replicas'
    BY <1>0, <1>4, <1>8 DEF replica, ReplicaTypes
  <1>9. ASSUME NEW p \in Peers, Elect(p) \/ Learn(p)
        PROVE  UNCHANGED replica
    BY <1>9 DEF Elect, Learn
  <1>10. StepDown \/ CommitNext \/ UNCHANGED vars => UNCHANGED replica
    BY DEF StepDown, CommitNext, vars, replica
  <1>11. ASSUME NEW a \in Acts, LogOpStep(a) \/ AnswerLost(a)
         PROVE  UNCHANGED replica
    BY <1>11 DEF LogOpStep, RedirectToLeader, WaitedForLeader, CommitOp, CommitDone,
                 CommitLost, Answer, AnswerLost
  <1>12. ASSUME NEW r \in Requests, Return(r)
         PROVE  UNCHANGED replica
    BY <1>12 DEF Return
  <1>13. ASSUME NEW r \in Requests, NEW p \in Peers, NEW t \in LogOpType, NEW c \in Cids,
                Request(r, p, t, c)
         PROVE  UNCHANGED replica
    BY <1>13 DEF Request
  <1> QED
    BY <1>5, <1>6, <1>7, <1>8, <1>9, <1>10, <1>11, <1>12, <1>13 DEF Next

-----------------------------------------------------------------------------
(* What is acknowledged is committed.                                      *)

(* Within a term the log only grows, and only an election makes a leader. *)
RaftGoes ==
    \/ /\ term' = term /\ leader' \in {leader, NoPeer}
       /\ Len(log) <= Len(log')
       /\ \A i \in 1 .. Len(log) : log'[i] = log[i]
    \/ term' = term + 1

(* Every step goes that way. *)
LEMMA RaftGoesStep ==
    ASSUME RaftTypes, [Next]_vars
    PROVE  RaftGoes
  <1>0. log \in Seq(LogOp) /\ Len(log) \in Nat
    BY DEF RaftTypes
  <1>1. ASSUME UNCHANGED <<log, term>>, leader' \in {leader, NoPeer}
        PROVE  RaftGoes
    BY <1>0, <1>1 DEF RaftGoes
  <1>2. ASSUME NEW p \in Peers, Elect(p)
        PROVE  RaftGoes
    BY <1>2 DEF Elect, RaftGoes
  <1>3. ASSUME NEW a \in Acts, CommitOp(a)
        PROVE  RaftGoes
    <2>1. CASE log' = Append(log, act[a].op)
      <3>1. PICK o : o = act[a].op
        OBVIOUS
      <3>2. Len(log') = Len(log) + 1 /\ \A i \in 1 .. Len(log) : log'[i] = log[i]
        BY <1>0, <2>1, <3>1, AppendProperties
      <3> QED
        BY <1>0, <1>3, <3>2 DEF CommitOp, RaftGoes
    <2>2. CASE UNCHANGED log
      BY <1>1, <1>3, <2>2 DEF CommitOp
    <2> QED
      BY <1>3, <2>1, <2>2 DEF CommitOp
  <1>4. ASSUME NEW p \in Peers, Learn(p) \/ Apply(p) \/ Snapshot(p) \/ Restart(p)
        PROVE  RaftGoes
    BY <1>1, <1>4 DEF Learn, Apply, Snapshot, Restart, raft
  <1>5. ASSUME StepDown \/ CommitNext
        PROVE  RaftGoes
    BY <1>1, <1>5 DEF StepDown, CommitNext
  <1>6. ASSUME UNCHANGED raft
        PROVE  RaftGoes
    BY <1>1, <1>6 DEF raft
  <1>7. ASSUME NEW a \in Acts,
               \/ RedirectToLeader(a) \/ WaitedForLeader(a) \/ CommitDone(a) \/ CommitLost(a)
               \/ Answer(a) \/ AnswerLost(a)
        PROVE  UNCHANGED raft
    BY <1>7 DEF RedirectToLeader, WaitedForLeader, CommitDone, CommitLost, Answer, AnswerLost
  <1>8. ASSUME NEW r \in Requests, NEW p \in Peers, NEW t \in LogOpType, NEW c \in Cids,
               Request(r, p, t, c)
        PROVE  UNCHANGED raft
    BY <1>8 DEF Request
  <1>9. ASSUME NEW r \in Requests, Return(r)
        PROVE  UNCHANGED raft
    BY <1>9 DEF Return
  <1>10. UNCHANGED vars => UNCHANGED raft
    BY DEF vars, raft
  <1> QED
    BY <1>2, <1>3, <1>4, <1>5, <1>6, <1>7, <1>8, <1>9, <1>10 DEF Next, LogOpStep

(* What is committed stays so. *)
LEMMA CommittedStays ==
    ASSUME Kept, commit \in Nat, commit' \in Nat, NEW o, IsCommitted(o)
    PROVE  IsCommitted(o)'
  <1>1. PICK i \in 1 .. commit : log[i] = o
    BY DEF IsCommitted
  <1>2. i \in 1 .. commit' /\ log'[i] = o
    BY <1>1 DEF Kept
  <1> QED
    BY <1>2 DEF IsCommitted

(* What an activation found out stays true while it only waits. *)
LEMMA TruthStays ==
    ASSUME RaftTypes, RaftTypes', Kept, RaftGoes,
           NEW f \in Activation, f.pc \in Running => f.peer \in Peers, Truth(f)
    PROVE  Truth(f)'
  <1>1. /\ commit \in Nat /\ commit' \in Nat /\ term \in Nat
        /\ Len(log) \in Nat /\ Len(log') \in Nat
    BY DEF RaftTypes
  <1>2. ASSUME f.pc = "ok" PROVE IsCommitted(f.op)'
    BY <1>1, <1>2, CommittedStays DEF Truth
  <1>3. ASSUME f.pc = "wait" PROVE f.term <= term'
    BY <1>1, <1>3 DEF Truth, RaftGoes, Activation
  <1>4. ASSUME f.pc = "wait", leader' = f.peer, term' = f.term
        PROVE  f.idx \in 1 .. Len(log') /\ log'[f.idx] = f.op
    <2>1. f.term <= term /\ f.peer # NoPeer
      BY <1>4, NoneAssumption DEF Truth, Running
    <2>2. term' # term + 1
      BY <1>1, <1>4, <2>1 DEF Activation
    <2>3. /\ term' = term /\ leader' = leader
          /\ Len(log) <= Len(log')
          /\ \A i \in 1 .. Len(log) : log'[i] = log[i]
      BY <1>4, <2>1, <2>2 DEF RaftGoes
    <2>4. f.idx \in 1 .. Len(log) /\ log[f.idx] = f.op
      BY <1>4, <2>3 DEF Truth, StillLeads
    <2>5. f.idx \in 1 .. Len(log')
      BY <1>1, <2>3, <2>4
    <2> QED
      BY <2>3, <2>4, <2>5
  <1> QED
    BY <1>2, <1>3, <1>4 DEF Truth, StillLeads

(* Every step keeps what activations found out. *)
LEMMA TruthStep ==
    ASSUME RaftTypes, Links, Replicas, ActsTruthful, [Next]_vars
    PROVE  ActsTruthful'
  <1>0. /\ ActTypes /\ ActsKnow /\ ChildLinks /\ StateIsLog
        /\ ReplicaTypes /\ Kept /\ RaftGoes /\ RaftTypes'
        /\ commit \in Nat /\ Len(log) \in Nat /\ log \in Seq(LogOp) /\ term \in Nat
    BY RaftStep, RaftGoesStep DEF Links, Replicas, RaftTypes
  <1>1. ASSUME NEW f, f.pc \notin {"ok", "wait"} PROVE Truth(f)'
    BY <1>1 DEF Truth
  <1>2. ASSUME NEW a \in Acts, act'[a] = act[a] PROVE (Truth(act[a]))'
    <2>1. PICK f \in Activation : f = act[a]
      BY <1>0 DEF ActTypes
    <2>2. Truth(f) /\ (f.pc \in Running => f.peer \in Peers)
      BY <1>0, <2>1 DEF ActsTruthful, ActsKnow
    <2>3. Truth(f)'
      BY <1>0, <2>2, TruthStays
    <2> QED
      BY <1>2, <2>1, <2>3 DEF Truth, StillLeads
  <1>3. ASSUME NEW a \in Acts, act'[a].pc \notin {"ok", "wait"} PROVE (Truth(act[a]))'
    BY <1>3 DEF Truth
  <1>4. ASSUME NEW a \in Acts, NEW g, Truth(g)' \/ g.pc \notin {"ok", "wait"},
               act' = [act EXCEPT ![a] = g]
        PROVE  ActsTruthful'
    <2>1. act'[a] = g /\ \A b \in Acts \ {a} : act'[b] = act[b]
      BY <1>0, <1>4 DEF ActTypes
    <2>2. (Truth(act[a]))'
      BY <1>1, <1>4, <2>1 DEF Truth, StillLeads
    <2> QED
      BY <1>2, <2>1, <2>2 DEF ActsTruthful
  <1>5. ASSUME NEW a \in Acts, NEW b \in Acts, b # a,
               NEW g, Truth(g)' \/ g.pc \notin {"ok", "wait"},
               NEW h, h = act[b] \/ h.pc \notin {"ok", "wait"},
               act' = [act EXCEPT ![a] = g, ![b] = h]
        PROVE  ActsTruthful'
    <2>1. act'[a] = g /\ act'[b] = h /\ \A c \in Acts \ {a, b} : act'[c] = act[c]
      BY <1>0, <1>5 DEF ActTypes
    <2>2. (Truth(act[a]))'
      BY <1>1, <1>5, <2>1 DEF Truth, StillLeads
    <2>3. (Truth(act[b]))'
      BY <1>2, <1>3, <1>5, <2>1
    <2> QED
      BY <1>2, <2>1, <2>2, <2>3 DEF ActsTruthful
  <1>6. ASSUME NEW a \in Acts, act' = [act EXCEPT ![a] = NextTry(@)]
        PROVE  ActsTruthful'
    <2>1. PICK g : g = NextTry(act[a])
      OBVIOUS
    <2>2. g.pc \notin {"ok", "wait"}
      <3>1. act[a] \in Activation
        BY <1>0 DEF ActTypes
      <3> QED
        BY <2>1, <3>1, NextTryOver, StartFields DEF Over
    <2> QED
      BY <1>4, <1>6, <2>1, <2>2
  <1>7. ASSUME NEW a \in Acts, NEW q \in Peers, RedirectTo(a, q), act[a].pc \in Running \ {"rpc"}
        PROVE  ActsTruthful'
    <2>1. PICK b \in NextFree :
             act' = [act EXCEPT ![a].pc = "rpc", ![a].child = b, ![b] = Start(q, act[a].op)]
      BY <1>7 DEF RedirectTo
    <2>2. b \in Acts /\ b # a
      BY <1>7, FreeToTake DEF Running
    <2>3. act[a].op \in LogOp /\ act[a] \in Activation
      BY <1>0, <1>7 DEF ActsKnow, ActTypes
    <2> DEFINE g == [[act[a] EXCEPT !.pc = "rpc"] EXCEPT !.child = b]
               h == Start(q, act[a].op)
    <2>4. g.pc = "rpc"
      BY <2>2, <2>3, RpcFields
    <2>5. h.pc = "redirect"
      BY <2>3, StartFields
    <2>6. act' = [act EXCEPT ![a] = g, ![b] = h]
      BY <1>0, <2>1, <2>2 DEF ActTypes
    <2> HIDE DEF g, h
    <2> QED
      BY <1>5, <2>2, <2>4, <2>5, <2>6
  <1>8. ASSUME NEW a \in Acts, RedirectToLeader(a) PROVE ActsTruthful'
    <2>1. act[a].pc = "redirect" /\ act[a].peer \in Peers /\ act[a] \in Activation
      BY <1>0, <1>8 DEF RedirectToLeader, ActsKnow, Running, ActTypes
    <2>2. ASSUME NEW l \in {"commit", "noleader"}, act' = [act EXCEPT ![a].pc = l]
          PROVE  ActsTruthful'
      <3> DEFINE g == [act[a] EXCEPT !.pc = l]
      <3>1. act' = [act EXCEPT ![a] = g]
        BY <1>0, <2>2 DEF ActTypes
      <3>2. g.pc = l
        BY <2>1 DEF Activation
      <3> HIDE DEF g
      <3> QED
        BY <1>4, <3>1, <3>2
    <2>3. view[act[a].peer] \in Peers \cup {NoPeer}
      BY <2>1 DEF RaftTypes
    <2> QED
      BY <1>6, <1>7, <1>8, <2>1, <2>2, <2>3 DEF RedirectToLeader, Running
  <1>9. ASSUME NEW a \in Acts, WaitedForLeader(a) PROVE ActsTruthful'
    <2>1. act[a].pc = "noleader" /\ act[a].peer \in Peers
      BY <1>0, <1>9 DEF WaitedForLeader, ActsKnow, Running
    <2> QED
      BY <1>6, <1>7, <1>9, <2>1 DEF WaitedForLeader, Running
  <1>10. ASSUME NEW a \in Acts, CommitOp(a) PROVE ActsTruthful'
    <2>1. act[a].pc = "commit" /\ act[a] \in Activation
      BY <1>0, <1>10 DEF CommitOp, ActTypes
    <2>2. ASSUME log' = Append(log, act[a].op),
                 act' = [act EXCEPT ![a].pc = "wait", ![a].idx = Len(log) + 1, ![a].term = term]
          PROVE  ActsTruthful'
      <3>1. PICK i \in Nat : i = Len(log) + 1
        BY <1>0
      <3>2. PICK t \in Nat : t = term
        BY <1>0
      <3>3. PICK f \in Activation : f = act[a]
        BY <2>1
      <3> DEFINE g == [[[f EXCEPT !.pc = "wait"] EXCEPT !.idx = i] EXCEPT !.term = t]
      <3>4. g.pc = "wait" /\ g.op = f.op /\ g.idx = i /\ g.term = t
        BY <3>1, <3>2 DEF Activation
      <3>9. act' = [act EXCEPT ![a] = g]
        BY <1>0, <2>2, <3>1, <3>2, <3>3 DEF ActTypes
      <3> HIDE DEF g
      <3>5. f.op \in LogOp
        BY <1>0, <2>1, <3>3 DEF ActsKnow, Running
      <3>6. Len(log') = i /\ log'[i] = f.op /\ i \in 1 .. Len(log')
        BY <1>0, <2>2, <3>1, <3>3, <3>5, AppendProperties
      <3>7. term' = t /\ t <= t
        BY <1>10, <3>2 DEF CommitOp
      <3>8. Truth(g)'
        BY <3>4, <3>6, <3>7 DEF Truth
      <3> QED
        BY <1>4, <3>8, <3>9
    <2> QED
      BY <1>6, <1>10, <2>2 DEF CommitOp
  <1>11. ASSUME NEW a \in Acts, CommitDone(a) PROVE ActsTruthful'
    <2>1. act[a].pc = "wait" /\ act[a] \in Activation /\ act[a].peer \in Peers
      BY <1>0, <1>11 DEF CommitDone, ActTypes, ActsKnow, Running
    <2>2. PICK g : g = Succeed(act[a])
      OBVIOUS
    <2>3. PICK i \in Nat, n \in Nat : i = act[a].idx /\ n = applied[act[a].peer]
      BY <1>0, <2>1 DEF Activation, ReplicaTypes
    <2>4. i \in 1 .. Len(log) /\ log[i] = act[a].op
      BY <1>11, <2>1, <2>3 DEF CommitDone, ActsTruthful, Truth
    <2>5. i <= n /\ n <= commit
      BY <1>0, <1>11, <2>1, <2>3 DEF CommitDone, CommitAnswered, StateIsLog
    <2>6. i \in 1 .. commit
      BY <1>0, <2>4, <2>5
    <2>7. PICK o : o = act[a].op
      OBVIOUS
    <2>8. IsCommitted(o)
      BY <2>4, <2>6, <2>7 DEF IsCommitted
    <2>9. IsCommitted(o)'
      BY <1>0, <2>8, CommittedStays DEF RaftTypes
    <2>10. g.pc # "wait" /\ (g.pc = "ok" => g.op = o)
      BY <2>1, <2>2, <2>7, SucceedOver, StartFields DEF Over
    <2>11. Truth(g)'
      BY <2>9, <2>10 DEF Truth, IsCommitted
    <2> QED
      BY <1>4, <1>11, <2>2, <2>11 DEF CommitDone
  <1>12. ASSUME NEW a \in Acts, CommitLost(a) PROVE ActsTruthful'
    BY <1>6, <1>12 DEF CommitLost
  <1>13. ASSUME NEW a \in Acts, Answer(a) PROVE ActsTruthful'
    <2>1. act[a].pc = "rpc" /\ act[a] \in Activation
      BY <1>0, <1>13 DEF Answer, ActTypes
    <2>2. PICK b \in Acts : b = act[a].child /\ b # a
      BY <1>0, <2>1 DEF ChildLinks
    <2>3. PICK g : g = Answered(act[a], act[b].pc)
      OBVIOUS
    <2>4. act' = [act EXCEPT ![a] = g, ![b] = Free]
      BY <1>13, <2>2, <2>3 DEF Answer
    <2>5. /\ g.pc # "wait" /\ (g.pc = "ok" => g.op = act[a].op /\ act[b].pc = "ok")
      BY <2>1, <2>3, AnsweredOver, StartFields DEF Over
    <2>6. PICK o : o = act[a].op
      OBVIOUS
    <2>7. act[b].pc = "ok" => act[b].op = o /\ IsCommitted(o)
      <3>1. Works(b, o)
        BY <1>0, <2>1, <2>2, <2>6 DEF ChildLinks
      <3> QED
        BY <2>2, <3>1 DEF Works, ActsTruthful, Truth
    <2>8. act[b].pc = "ok" => IsCommitted(o)'
      BY <1>0, <2>7, CommittedStays DEF RaftTypes
    <2>9. Truth(g)'
      BY <2>5, <2>6, <2>8 DEF Truth, IsCommitted
    <2> QED
      BY <1>5, <2>2, <2>4, <2>9, StartFields
  <1>14. ASSUME NEW a \in Acts, AnswerLost(a) PROVE ActsTruthful'
    <2>1. act[a].pc = "rpc" /\ act[a] \in Activation
      BY <1>0, <1>14 DEF AnswerLost, ActTypes
    <2>2. PICK b \in Acts : b = act[a].child /\ b # a
      BY <1>0, <2>1 DEF ChildLinks
    <2> DEFINE h == IF act[b].pc \in {"ok", "err"} THEN Free ELSE [act[b] EXCEPT !.orphan = TRUE]
    <2>3. PICK g : g = NextTry(act[a])
      OBVIOUS
    <2>4. act' = [act EXCEPT ![a] = g, ![b] = h]
      BY <1>0, <1>14, <2>2, <2>3 DEF AnswerLost, ActTypes
    <2>5. g.pc \notin {"ok", "wait"}
      BY <2>1, <2>3, NextTryOver, StartFields DEF Over
    <2>6. PICK f \in Activation : f = act[b]
      BY <1>0, <2>2 DEF ActTypes
    <2>7. \/ h.pc \notin {"ok", "wait"}
          \/ h \in Activation /\ h.pc = "wait" /\ f.pc = "wait" /\ h.op = f.op /\ h.peer = f.peer
             /\ h.idx = f.idx /\ h.term = f.term
      <3>1. CASE f.pc \in {"ok", "err"}
        BY <2>6, <3>1, StartFields
      <3>2. CASE f.pc \notin {"ok", "err"}
        <4>1. h = [f EXCEPT !.orphan = TRUE]
          BY <2>6, <3>2
        <4> HIDE DEF h
        <4>2. /\ h \in Activation
              /\ h.pc = f.pc /\ h.op = f.op /\ h.peer = f.peer
              /\ h.child = f.child /\ h.idx = f.idx /\ h.term = f.term
          BY <4>1, OrphanFields
        <4> QED
          BY <3>2, <4>2
      <3> QED
        BY <3>1, <3>2
    <2> HIDE DEF h
    <2>8. act'[a] = g /\ act'[b] = h /\ \A c \in Acts \ {a, b} : act'[c] = act[c]
      BY <1>0, <2>2, <2>4 DEF ActTypes
    <2>9. (Truth(act[b]))'
      <3>1. CASE h.pc \notin {"ok", "wait"}
        BY <1>3, <2>8, <3>1
      <3>2. CASE h \in Activation /\ h.pc = "wait" /\ f.pc = "wait" /\ h.op = f.op /\ h.peer = f.peer
             /\ h.idx = f.idx /\ h.term = f.term
        <4>1. Truth(f)
          BY <2>6 DEF ActsTruthful
        <4>2. f.peer \in Peers
          BY <1>0, <2>6, <3>2 DEF ActsKnow, Running
        <4>3. Truth(f)'
          BY <1>0, <4>1, <4>2, TruthStays
        <4> QED
          BY <2>8, <3>2, <4>3 DEF Truth, StillLeads
      <3> QED
        BY <2>7, <3>1, <3>2
    <2>10. (Truth(act[a]))'
      BY <1>3, <2>5, <2>8
    <2>11. \A c \in Acts \ {a, b} : (Truth(act[c]))'
      BY <1>2, <2>8
    <2> QED
      BY <2>9, <2>10, <2>11 DEF ActsTruthful
  <1>15. ASSUME NEW p \in Peers, Restart(p) PROVE ActsTruthful'
    <2> SUFFICES ASSUME NEW a \in Acts PROVE (Truth(act[a]))'
      BY DEF ActsTruthful
    <2>1. \/ act'[a] = Free \/ act'[a] = [Free EXCEPT !.pc = "err"]
          \/ act'[a] = [act[a] EXCEPT !.orphan = TRUE] /\ act[a].pc \notin {"ok", "err"}
          \/ act'[a] = act[a]
      BY <1>15 DEF Restart, AfterStop
    <2>2. CASE act'[a] = Free
      BY <1>3, <2>2, StartFields
    <2>3. CASE act'[a] = [Free EXCEPT !.pc = "err"]
      BY <1>3, <2>3, ErrFields
    <2>4. CASE act'[a] = [act[a] EXCEPT !.orphan = TRUE] /\ act[a].pc \notin {"ok", "err"}
      <3>1. PICK f \in Activation : f = act[a]
        BY <1>0 DEF ActTypes
      <3>2. PICK h : h = act'[a]
        OBVIOUS
      <3>3. /\ h.pc = f.pc /\ h.op = f.op /\ h.peer = f.peer
            /\ h.idx = f.idx /\ h.term = f.term
        BY <2>4, <3>1, <3>2, OrphanFields
      <3>4. Truth(f) /\ (f.pc \in Running => f.peer \in Peers)
        BY <1>0, <3>1 DEF ActsTruthful, ActsKnow
      <3>5. Truth(f)'
        BY <1>0, <3>4, TruthStays
      <3> QED
        BY <3>2, <3>3, <3>5 DEF Truth, StillLeads
    <2>5. CASE act'[a] = act[a]
      BY <1>2, <2>5
    <2> QED
      BY <2>1, <2>2, <2>3, <2>4, <2>5
  <1>16. ASSUME NEW r \in Requests, NEW p \in Peers, NEW t \in LogOpType, NEW c \in Cids,
                Request(r, p, t, c)
         PROVE  ActsTruthful'
    <2>1. PICK o \in LogOp : o = [Type |-> t, Cid |-> c, req |-> r]
      BY DEF LogOp
    <2>2. PICK a \in NextFree : act' = [act EXCEPT ![a] = Start(p, o)]
      BY <1>16, <2>1 DEF Request
    <2>3. a \in Acts
      BY FreeToTake
    <2>4. PICK g : g = Start(p, o)
      OBVIOUS
    <2>5. g.pc = "redirect"
      BY <2>4, StartFields
    <2> QED
      BY <1>4, <2>2, <2>3, <2>4, <2>5
  <1>17. ASSUME NEW r \in Requests, Return(r) PROVE ActsTruthful'
    <2>1. PICK a \in Acts : a = request[r].act
      BY <1>17 DEF Return, Links, RequestLinks
    <2>2. act' = [act EXCEPT ![a] = Free]
      BY <1>17, <2>1 DEF Return
    <2> QED
      BY <1>4, <2>2, StartFields
  <1>18. CASE UNCHANGED act
    BY <1>2, <1>18 DEF ActsTruthful
  <1>19. ASSUME NEW p \in Peers, Elect(p) \/ Learn(p) \/ Apply(p) \/ Snapshot(p)
        PROVE  UNCHANGED act
    BY <1>19 DEF Elect, Learn, Apply, Snapshot
  <1>20. StepDown \/ CommitNext \/ UNCHANGED vars => UNCHANGED act
    BY DEF StepDown, CommitNext, vars
  <1> QED
    BY <1>8, <1>9, <1>10, <1>11, <1>12, <1>13, <1>14, <1>15, <1>16, <1>17, <1>18, <1>19, <1>20
       DEF Next, LogOpStep

(* An answer is "ok" only when the activation found its operation          *)
(* committed.                                                              *)
LEMMA AckedStep ==
    ASSUME RaftTypes, Links, ActsTruthful, AckedIsCommitted, [Next]_vars
    PROVE  AckedIsCommitted'
  <1>0. Kept /\ commit \in Nat /\ commit' \in Nat /\ ReqTypes /\ RequestLinks
    BY RaftStep DEF RaftTypes, Links
  <1>1. ASSUME NEW r \in Requests, \E i \in 1 .. commit : log[i].req = r
        PROVE  \E i \in 1 .. commit' : log'[i].req = r
    <2>1. PICK i \in 1 .. commit : log[i].req = r
      BY <1>1
    <2>2. i \in 1 .. commit' /\ log'[i] = log[i]
      BY <1>0, <2>1 DEF Kept
    <2> QED
      BY <2>1, <2>2
  <1>2. ASSUME NEW r \in Requests, request'[r].res = "ok", request[r].res # "ok"
        PROVE  \E i \in 1 .. commit : log[i].req = r
    <2>1. Return(r)
      <3>1. ASSUME UNCHANGED request PROVE FALSE
        BY <1>2, <3>1
      <3>2. ASSUME NEW q \in Requests, NEW p \in Peers, NEW t \in LogOpType, NEW c \in Cids,
                   Request(q, p, t, c)
            PROVE  FALSE
        BY <1>0, <1>2, <3>2 DEF Request, ReqTypes
      <3>3. ASSUME NEW q \in Requests, Return(q), q # r
            PROVE  FALSE
        BY <1>0, <1>2, <3>3 DEF Return, ReqTypes
      <3>4. ASSUME NEW p \in Peers, Elect(p) \/ Learn(p) \/ Apply(p) \/ Snapshot(p) \/ Restart(p)
            PROVE  FALSE
        BY <3>1, <3>4 DEF Elect, Learn, Apply, Snapshot, Restart
      <3>5. ASSUME StepDown \/ CommitNext \/ UNCHANGED vars
            PROVE  FALSE
        BY <3>1, <3>5 DEF StepDown, CommitNext, vars
      <3>6. ASSUME NEW a \in Acts, LogOpStep(a) \/ AnswerLost(a)
            PROVE  FALSE
        BY <3>1, <3>6 DEF LogOpStep, RedirectToLeader, WaitedForLeader, CommitOp, CommitDone,
                          CommitLost, Answer, AnswerLost
      <3> QED
        BY <3>2, <3>3, <3>4, <3>5, <3>6 DEF Next
    <2>2. request[r].res = "running"
      BY <2>1 DEF Return
    <2>3. PICK a \in Acts : a = request[r].act
      BY <1>0, <2>2 DEF RequestLinks
    <2>4. PICK o \in LogOp : o.req = r /\ Works(a, o)
      BY <1>0, <2>2, <2>3 DEF RequestLinks
    <2>5. request' = [request EXCEPT ![r].res = act[a].pc, ![r].act = NoAct]
      BY <2>1, <2>3 DEF Return
    <2>6. act[a].pc = "ok"
      BY <1>0, <1>2, <2>5 DEF ReqTypes
    <2>7. act[a].op = o
      BY <2>4, <2>6 DEF Works
    <2>8. IsCommitted(o)
      BY <2>3, <2>6, <2>7 DEF ActsTruthful, Truth
    <2> QED
      BY <2>4, <2>8 DEF IsCommitted
  <1> SUFFICES ASSUME NEW r \in Requests, request'[r].res = "ok"
               PROVE  \E i \in 1 .. commit' : log'[i].req = r
    BY DEF AckedIsCommitted
  <1>3. \E i \in 1 .. commit : log[i].req = r
    BY <1>2 DEF AckedIsCommitted
  <1> QED
    BY <1>1, <1>3

-----------------------------------------------------------------------------
(* The theorems.                                                           *)

Inv == RaftTypes /\ Links /\ Replicas /\ ActsTruthful /\ AckedIsCommitted

(* The empty log, the idle activations and the empty copies satisfy the    *)
(* invariant.                                                              *)
LEMMA InvInit == Init => Inv
  <1> SUFFICES ASSUME Init PROVE Inv
    OBVIOUS
  <1>1. RaftTypes
    <2>1. <<>> \in Seq(LogOp) /\ Len(<<>>) = 0
      OBVIOUS
    <2> QED
      BY <2>1 DEF Init, RaftTypes
  <1>2. \A a \in Acts : act[a] = Free
    BY DEF Init
  <1>3. ActTypes
    BY StartFields DEF Init, ActTypes
  <1>4. ReqTypes /\ \A r \in Requests : request[r].res = "none"
    BY DEF Init, ReqTypes
  <1>5. ActsKnow /\ ChildLinks /\ ActsTruthful
    BY <1>2, StartFields DEF ActsKnow, Running, ChildLinks, ActsTruthful, Truth
  <1>6. RequestLinks /\ AckedIsCommitted
    BY <1>4 DEF RequestLinks, AckedIsCommitted
  <1>7. Empty \in MapState /\ \A c \in Cids : Empty[c] = NoPin
    BY DEF Empty, MapState
  <1>8. LastOpWins(Empty, 0)
    BY <1>7 DEF LastOpWins
  <1>9. ReplicaTypes
    BY <1>7 DEF Init, ReplicaTypes
  <1>10. StateIsLog
    BY <1>8 DEF Init, StateIsLog
  <1>11. SnapIsLog
    BY <1>8 DEF Init, SnapIsLog
  <1> QED
    BY <1>1, <1>3, <1>4, <1>5, <1>6, <1>9, <1>10, <1>11 DEF Inv, Links, Replicas

(* Every step of Raft, of an activation or of a peer keeps the invariant. *)
LEMMA InvNext == Inv /\ [Next]_vars => Inv'
  <1> SUFFICES ASSUME Inv, [Next]_vars PROVE Inv'
    OBVIOUS
  <1>1. RaftTypes /\ Links /\ Replicas /\ ActsTruthful /\ AckedIsCommitted
    BY DEF Inv
  <1>2. Links'
    BY <1>1, LinksStep DEF RaftTypes
  <1>3. RaftTypes'
    BY <1>1, RaftStep
  <1>4. Replicas'
    BY <1>1, ReplicasStep
  <1>5. ActsTruthful'
    BY <1>1, TruthStep
  <1>6. AckedIsCommitted'
    BY <1>1, AckedStep
  <1> QED
    BY <1>2, <1>3, <1>4, <1>5, <1>6 DEF Inv

(* Every variable keeps its type: what the leader appends is always an     *)
(* operation, and the commit index never passes the end of the log.        *)
THEOREM TypeCorrect == Spec => []TypeOK
  <1>1. Inv => TypeOK
    BY DEF Inv, RaftTypes, Links, ActTypes, ReqTypes, Replicas, ReplicaTypes, TypeOK
  <1> QED
    BY InvInit, InvNext, <1>1, PTL DEF Spec

(* Replicas agree: the MapState of every peer is what the committed        *)
(* operations it applied left, through elections that cut the log, retries *)
(* and restarts from a snapshot (LogOp.ApplyTo, MapState).                 *)
THEOREM ReplicasAgree == Spec => []StateIsLog
  <1>1. Inv => StateIsLog
    BY DEF Inv, Replicas
  <1> QED
    BY InvInit, InvNext, <1>1, PTL DEF Spec

(* LogPin and LogUnpin return nil only for an operation that is committed, *)
(* whoever it was redirected to, however often it was tried, and also when *)
(* answers are lost and peers restart (Consensus.logOpCid).                *)
THEOREM AcknowledgedIsCommitted == Spec => []AckedIsCommitted
  <1>1. Inv => AckedIsCommitted
    BY DEF Inv
  <1> QED
    BY InvInit, InvNext, <1>1, PTL DEF Spec

-----------------------------------------------------------------------------
(* The order of acknowledged requests, while no answer is lost and no peer *)
(* restarts.  Then an activation never outlives the request it works for:  *)
(* somebody waits for each of them, up to the activation of the request.   *)

Alive == \A a \in Acts : ~act[a].orphan

(* a, which works on o, belongs to the running request of o: it is its     *)
(* first activation or the child of one that works on o as well.           *)
Owner(a, o) ==
    /\ o \in LogOp /\ request[o.req].res = "running"
    /\ \/ a = request[o.req].act
       \/ \E d \in Acts : act[d].pc = "rpc" /\ act[d].child = a /\ act[d].op = o

Owned == \A a \in Acts : act[a].pc # "free" => Owner(a, act[a].op)

(* Redirections form no cycle. *)
Ranked == \E f \in [Acts -> Nat] :
              \A a \in Acts : act[a].pc = "rpc" => f[a] < f[act[a].child]

Chains == Alive /\ Owned /\ Ranked

(* A request not yet made has left nothing in the log, ... *)
Unlogged == \A r \in Requests : request[r].res = "none" =>
                \A i \in 1 .. Len(log) : log[i].req # r

(* ... and one made before another's start is answered for good. *)
AfterAcked == \A r \in Requests : \A q \in request[r].after : request[q].res = "ok"

(* A set of natural numbers has a least element. *)
LEMMA LeastNatural ==
    ASSUME NEW T, T \subseteq Nat, T # {}
    PROVE  \E x \in T : \A y \in T : x <= y
  <1> DEFINE R == OpToRel(<, Nat)
  <1>1. PICK x \in T : \A y \in T : ~(<<y, x>> \in R)
    <2>1. IsWellFoundedOn(R, Nat)
      BY NatLessThanWellFounded
    <2> HIDE DEF R
    <2> QED
      BY <2>1, WFMin
  <1>2. \A y \in T : y < x => <<y, x>> \in R
    BY DEF OpToRel
  <1>3. \A y \in T : ~(y < x)
    <2> HIDE DEF R
    <2> QED
      BY <1>1, <1>2, Zenon
  <1>4. \A y \in T : x <= y
    BY <1>3
  <1> QED
    BY <1>4

(* When the activation of a request waits for nobody it is the only one    *)
(* that works for the request.                                             *)
LEMMA Alone ==
    ASSUME Owned, Ranked, NEW r \in Requests, NEW a \in Acts, a = request[r].act,
           act[a].pc # "rpc", NEW c \in Acts, act[c].pc # "free", act[c].op.req = r
    PROVE  c = a
  <1> DEFINE S == {x \in Acts : act[x].pc # "free" /\ act[x].op.req = r /\ x # a}
  <1> SUFFICES ASSUME S # {} PROVE FALSE
    OBVIOUS
  <1>1. PICK f \in [Acts -> Nat] :
           \A x \in Acts : act[x].pc = "rpc" => f[x] < f[act[x].child]
    BY DEF Ranked
  <1>2. PICK n \in {f[x] : x \in S} : \A m \in {f[x] : x \in S} : n <= m
    <2>1. {f[x] : x \in S} \subseteq Nat /\ {f[x] : x \in S} # {}
      BY <1>1
    <2> QED
      BY <2>1, LeastNatural
  <1>3. PICK x \in S : n = f[x]
    BY <1>2
  <1>4. Owner(x, act[x].op)
    BY <1>3 DEF Owned
  <1>5. PICK d \in Acts : act[d].pc = "rpc" /\ act[d].child = x /\ act[d].op = act[x].op
    BY <1>3, <1>4 DEF Owner
  <1>6. d \in S
    BY <1>3, <1>5
  <1>7. f[d] < f[x] /\ f[d] \in Nat /\ f[x] \in Nat
    BY <1>1, <1>3, <1>5
  <1>8. f[x] <= f[d]
    BY <1>2, <1>3, <1>6
  <1> QED
    BY <1>7, <1>8

(* An activation keeps its owner while its parent waits. *)
LEMMA OwnerStays ==
    ASSUME NEW c, NEW o, Owner(c, o), request'[o.req] = request[o.req],
           \A d \in Acts : act[d].pc = "rpc" /\ act[d].child = c => act'[d] = act[d]
    PROVE  Owner(c, o)'
  <1>1. CASE c = request[o.req].act
    BY <1>1 DEF Owner
  <1>2. ASSUME NEW d \in Acts, act[d].pc = "rpc", act[d].child = c, act[d].op = o
        PROVE  Owner(c, o)'
    BY <1>2 DEF Owner
  <1> QED
    BY <1>1, <1>2 DEF Owner

(* No new redirection, no new cycle. *)
LEMMA RankedStays ==
    ASSUME Ranked, \A a \in Acts : act'[a].pc = "rpc" => act'[a] = act[a]
    PROVE  Ranked'
  <1>1. PICK f \in [Acts -> Nat] :
           \A x \in Acts : act[x].pc = "rpc" => f[x] < f[act[x].child]
    BY DEF Ranked
  <1>2. \A x \in Acts : act'[x].pc = "rpc" => f[x] < f[act'[x].child]
    BY <1>1
  <1> QED
    BY <1>2 DEF Ranked

(* An activation goes on, in its loop or out of it. *)
LEMMA GoesChains ==
    ASSUME Links, Chains, NEW a \in Acts, act[a].pc \in Running \ {"rpc"},
           NEW g, Goes(act[a], g), act' = [act EXCEPT ![a] = g], UNCHANGED request
    PROVE  Chains'
  <1>1. ActTypes /\ ChildLinks /\ Alive /\ Owned /\ Ranked
    BY DEF Links, Chains
  <1>2. ~act[a].orphan
    BY <1>1 DEF Alive
  <1>3. g.pc \notin {"rpc", "free"} /\ g.op = act[a].op /\ ~g.orphan
    BY <1>2 DEF Goes, Over
  <1>4. act'[a] = g /\ \A b \in Acts : b # a => act'[b] = act[b]
    BY <1>1 DEF ActTypes
  <1>5. Alive'
    BY <1>1, <1>3, <1>4 DEF Alive
  <1>6. Ranked'
    BY <1>1, <1>3, <1>4, RankedStays
  <1>7. Owned'
    <2> SUFFICES ASSUME NEW c \in Acts, act'[c].pc # "free" PROVE (Owner(c, act[c].op))'
      BY DEF Owned
    <2>1. act[c].pc # "free" /\ act'[c].op = act[c].op
      BY <1>3, <1>4 DEF Running
    <2>2. PICK o : o = act[c].op
      OBVIOUS
    <2>3. Owner(c, o)
      BY <1>1, <2>1, <2>2 DEF Owned
    <2>4. \A d \in Acts : act[d].pc = "rpc" /\ act[d].child = c => act'[d] = act[d]
      BY <1>4 DEF Running
    <2>5. Owner(c, o)'
      BY <2>3, <2>4, OwnerStays
    <2> QED
      BY <2>1, <2>2, <2>5 DEF Owner
  <1> QED
    BY <1>5, <1>6, <1>7 DEF Chains

(* a waits for a new activation b. *)
LEMMA RedirectChains ==
    ASSUME Links, Chains, NEW a \in Acts, act[a].pc \in Running \ {"rpc"},
           NEW q \in Peers, RedirectTo(a, q), UNCHANGED request
    PROVE  Chains'
  <1>1. ActTypes /\ ActsKnow /\ ChildLinks /\ Alive /\ Owned /\ Ranked
    BY DEF Links, Chains
  <1>2. PICK b \in NextFree :
           act' = [act EXCEPT ![a].pc = "rpc", ![a].child = b, ![b] = Start(q, act[a].op)]
    BY DEF RedirectTo
  <1>3. b \in Acts /\ act[b].pc = "free" /\ b # a
    BY FreeToTake DEF Running
  <1>4. act[a].op \in LogOp /\ act[a] \in Activation /\ ~act[a].orphan
    BY <1>1 DEF ActsKnow, ActTypes, Alive
  <1> DEFINE g == [[act[a] EXCEPT !.pc = "rpc"] EXCEPT !.child = b]
             h == Start(q, act[a].op)
  <1>5. /\ g.pc = "rpc" /\ g.child = b
        /\ g.op = act[a].op /\ g.orphan = act[a].orphan
    BY <1>3, <1>4, RpcFields
  <1>6. h.pc = "redirect" /\ h.op = act[a].op /\ h.orphan = FALSE
    BY <1>4, StartFields
  <1>7. act'[a] = g /\ act'[b] = h /\ \A c \in Acts \ {a, b} : act'[c] = act[c]
    BY <1>1, <1>2, <1>3 DEF ActTypes
  <1> HIDE DEF g, h
  <1>8. Alive'
    BY <1>1, <1>4, <1>5, <1>6, <1>7 DEF Alive
  <1>9. Ranked'
    <2>1. PICK f \in [Acts -> Nat] :
             \A x \in Acts : act[x].pc = "rpc" => f[x] < f[act[x].child]
      BY <1>1 DEF Ranked
    <2>2. PICK n \in Nat : n = f[a] + 1
      BY <2>1
    <2> DEFINE k == [f EXCEPT ![b] = n]
    <2>3. k \in [Acts -> Nat] /\ k[b] = n /\ k[a] = f[a] /\ \A x \in Acts \ {b} : k[x] = f[x]
      BY <1>3, <2>1, <2>2
    <2> HIDE DEF k
    <2>4. k[a] < k[act'[a].child]
      BY <1>5, <1>7, <2>1, <2>2, <2>3
    <2>5. ASSUME NEW x \in Acts, x # a, act'[x].pc = "rpc" PROVE k[x] < k[act'[x].child]
      <3>1. x # b /\ act'[x] = act[x] /\ act[x].pc = "rpc"
        BY <1>6, <1>7, <2>5
      <3>2. act[x].child \in Acts /\ act[x].child # b
        BY <1>1, <1>3, <3>1 DEF ChildLinks, Works
      <3> QED
        BY <2>1, <2>3, <3>1, <3>2
    <2>6. \A x \in Acts : act'[x].pc = "rpc" => k[x] < k[act'[x].child]
      BY <2>4, <2>5
    <2> QED
      BY <2>3, <2>6 DEF Ranked
  <1>10. Owned'
    <2> SUFFICES ASSUME NEW c \in Acts, act'[c].pc # "free" PROVE (Owner(c, act[c].op))'
      BY DEF Owned
    <2>1. PICK o : o = act'[c].op
      OBVIOUS
    <2>2. CASE c = b
      <3>1. o = act[a].op /\ o \in LogOp
        BY <1>4, <1>6, <1>7, <2>1, <2>2
      <3>2. request[o.req].res = "running"
        BY <1>1, <3>1 DEF Owned, Owner, Running
      <3>3. act'[a].pc = "rpc" /\ act'[a].child = c /\ act'[a].op = o
        BY <1>5, <1>7, <2>2, <3>1
      <3> QED
        BY <2>1, <3>1, <3>2, <3>3 DEF Owner
    <2>3. CASE c # b
      <3>1. act[c].pc # "free" /\ act[c].op = o
        BY <1>5, <1>7, <2>1, <2>3 DEF Running
      <3>2. Owner(c, o)
        BY <1>1, <3>1 DEF Owned
      <3>3. \A d \in Acts : act[d].pc = "rpc" /\ act[d].child = c => act'[d] = act[d]
        BY <1>3, <1>7 DEF Running
      <3>4. Owner(c, o)'
        BY <3>2, <3>3, OwnerStays
      <3> QED
        BY <2>1, <3>4 DEF Owner
    <2> QED
      BY <2>2, <2>3
  <1> QED
    BY <1>8, <1>9, <1>10 DEF Chains

(* a gets the answer of its child b, which is free again. *)
LEMMA AnswerChains ==
    ASSUME Links, Chains, NEW a \in Acts, Answer(a)
    PROVE  Chains'
  <1>1. ActTypes /\ ChildLinks /\ Alive /\ Owned /\ Ranked
    BY DEF Links, Chains
  <1>2. act[a].pc = "rpc" /\ act[a] \in Activation /\ ~act[a].orphan /\ UNCHANGED request
    BY <1>1 DEF Answer, ActTypes, Alive
  <1>3. PICK b \in Acts : b = act[a].child /\ b # a
    BY <1>1, <1>2 DEF ChildLinks
  <1>4. PICK g : g = Answered(act[a], act[b].pc)
    OBVIOUS
  <1>5. act' = [act EXCEPT ![a] = g, ![b] = Free] /\ act[b].pc \in {"ok", "err"}
    BY <1>3, <1>4 DEF Answer
  <1>6. g.pc \notin {"rpc", "free"} /\ g.op = act[a].op /\ ~g.orphan
    BY <1>2, <1>4, AnsweredOver DEF Over
  <1>7. act'[a] = g /\ act'[b] = Free /\ \A c \in Acts \ {a, b} : act'[c] = act[c]
    BY <1>1, <1>3, <1>5 DEF ActTypes
  <1>8. Free.pc = "free" /\ ~Free.orphan
    BY DEF Free
  <1>9. Alive'
    BY <1>1, <1>6, <1>7, <1>8 DEF Alive
  <1>10. Ranked'
    BY <1>1, <1>6, <1>7, <1>8, RankedStays
  <1>11. Owned'
    <2> SUFFICES ASSUME NEW c \in Acts, act'[c].pc # "free" PROVE (Owner(c, act[c].op))'
      BY DEF Owned
    <2>1. c # b /\ act[c].pc # "free" /\ act'[c].op = act[c].op
      BY <1>2, <1>6, <1>7, <1>8
    <2>2. PICK o : o = act[c].op
      OBVIOUS
    <2>3. Owner(c, o)
      BY <1>1, <2>1, <2>2 DEF Owned
    <2>4. \A d \in Acts : act[d].pc = "rpc" /\ act[d].child = c => act'[d] = act[d]
      BY <1>3, <1>5, <1>7, <2>1
    <2>5. Owner(c, o)'
      BY <1>2, <2>3, <2>4, OwnerStays
    <2> QED
      BY <2>1, <2>2, <2>5 DEF Owner
  <1> QED
    BY <1>9, <1>10, <1>11 DEF Chains

(* A user's call starts an activation. *)
LEMMA RequestChains ==
    ASSUME Links, Chains, NEW r \in Requests, NEW p \in Peers, NEW t \in LogOpType,
           NEW s \in Cids, Request(r, p, t, s)
    PROVE  Chains'
  <1>1. ActTypes /\ ReqTypes /\ Alive /\ Owned /\ Ranked
    BY DEF Links, Chains
  <1>2. PICK o \in LogOp : o = [Type |-> t, Cid |-> s, req |-> r]
    BY DEF LogOp
  <1>3. PICK b \in NextFree :
           /\ act' = [act EXCEPT ![b] = Start(p, o)]
           /\ request' = [request EXCEPT ![r] = [res |-> "running", act |-> b,
                             after |-> {q \in Requests : request[q].res = "ok"}]]
    BY <1>2 DEF Request
  <1>4. b \in Acts /\ act[b].pc = "free" /\ request[r].res = "none" /\ o.req = r
    BY <1>2, FreeToTake DEF Request
  <1>5. PICK g : g = Start(p, o)
    OBVIOUS
  <1>6. g.pc = "redirect" /\ g.op = o /\ ~g.orphan
    BY <1>5, StartFields
  <1>7. act'[b] = g /\ \A c \in Acts \ {b} : act'[c] = act[c]
    BY <1>1, <1>3, <1>4, <1>5 DEF ActTypes
  <1>8. /\ request'[r].res = "running" /\ request'[r].act = b
        /\ \A q \in Requests \ {r} : request'[q] = request[q]
    BY <1>1, <1>3 DEF ReqTypes
  <1>9. Alive'
    BY <1>1, <1>6, <1>7 DEF Alive
  <1>10. Ranked'
    BY <1>1, <1>6, <1>7, RankedStays
  <1>11. Owned'
    <2> SUFFICES ASSUME NEW c \in Acts, act'[c].pc # "free" PROVE (Owner(c, act[c].op))'
      BY DEF Owned
    <2>1. CASE c = b
      BY <1>4, <1>6, <1>7, <1>8, <2>1 DEF Owner
    <2>2. CASE c # b
      <3>1. PICK x : x = act[c].op
        OBVIOUS
      <3>2. Owner(c, x)
        BY <1>1, <1>7, <2>2, <3>1 DEF Owned
      <3>3. x.req \in Requests \ {r}
        BY <1>4, <3>2 DEF Owner, LogOp
      <3>4. \A d \in Acts : act[d].pc = "rpc" /\ act[d].child = c => act'[d] = act[d]
        BY <1>4, <1>7
      <3>5. Owner(c, x)'
        BY <1>8, <3>2, <3>3, <3>4, OwnerStays
      <3> QED
        BY <1>7, <2>2, <3>1, <3>5 DEF Owner
    <2> QED
      BY <2>1, <2>2
  <1> QED
    BY <1>9, <1>10, <1>11 DEF Chains

(* A user's call returns: nobody works for it any more. *)
LEMMA ReturnChains ==
    ASSUME Links, Chains, NEW r \in Requests, Return(r)
    PROVE  Chains'
  <1>1. ActTypes /\ ReqTypes /\ RequestLinks /\ Alive /\ Owned /\ Ranked
    BY DEF Links, Chains
  <1>2. PICK b \in Acts : b = request[r].act
    BY <1>1 DEF RequestLinks, Return
  <1>3. /\ act' = [act EXCEPT ![b] = Free] /\ act[b].pc \in {"ok", "err"}
        /\ request' = [request EXCEPT ![r].res = act[b].pc, ![r].act = NoAct]
    BY <1>2 DEF Return
  <1>4. act'[b] = Free /\ \A c \in Acts \ {b} : act'[c] = act[c]
    BY <1>1, <1>3 DEF ActTypes
  <1>5. \A q \in Requests \ {r} : request'[q] = request[q]
    BY <1>1, <1>3 DEF ReqTypes
  <1>6. Free.pc = "free" /\ ~Free.orphan
    BY DEF Free
  <1>7. Alive'
    BY <1>1, <1>4, <1>6 DEF Alive
  <1>8. Ranked'
    BY <1>1, <1>4, <1>6, RankedStays
  <1>9. Owned'
    <2> SUFFICES ASSUME NEW c \in Acts, act'[c].pc # "free" PROVE (Owner(c, act[c].op))'
      BY DEF Owned
    <2>1. c # b /\ act'[c] = act[c] /\ act[c].pc # "free"
      BY <1>4, <1>6
    <2>2. PICK x : x = act[c].op
      OBVIOUS
    <2>3. Owner(c, x)
      BY <1>1, <2>1, <2>2 DEF Owned
    <2>4. x.req # r
      BY <1>1, <1>2, <1>3, <2>1, <2>2, Alone
    <2>5. x.req \in Requests
      BY <2>3 DEF Owner, LogOp
    <2>6. \A d \in Acts : act[d].pc = "rpc" /\ act[d].child = c => act'[d] = act[d]
      BY <1>3, <1>4
    <2>7. Owner(c, x)'
      BY <1>5, <2>3, <2>4, <2>5, <2>6, OwnerStays
    <2> QED
      BY <2>1, <2>2, <2>7 DEF Owner
  <1> QED
    BY <1>7, <1>8, <1>9 DEF Chains

(* Every step keeps the chains, while nothing breaks them. *)
LEMMA ChainsStep ==
    ASSUME ~RpcFaults, MaxRestarts = 0, RaftTypes, Links, Replicas, Chains, [Next]_vars
    PROVE  Chains'
  <1>0. ActTypes /\ ActsKnow /\ ChildLinks
    BY DEF Links
  <1>1. CASE UNCHANGED <<act, request>>
    BY <1>1 DEF Chains, Alive, Owned, Owner, Ranked
  <1>2. ASSUME NEW p \in Peers, Elect(p) \/ Learn(p) \/ Apply(p) \/ Snapshot(p)
        PROVE  UNCHANGED <<act, request>>
    BY <1>2 DEF Elect, Learn, Apply, Snapshot
  <1>3. StepDown \/ CommitNext \/ UNCHANGED vars => UNCHANGED <<act, request>>
    BY DEF StepDown, CommitNext, vars
  <1>4. ASSUME NEW p \in Peers, Restart(p) PROVE FALSE
    BY <1>4 DEF Restart, Replicas, ReplicaTypes
  <1>5. ASSUME NEW a \in Acts, AnswerLost(a) PROVE FALSE
    BY <1>5 DEF AnswerLost
  <1>6. ASSUME NEW a \in Acts, act[a].pc \in Running \ {"rpc"}, UNCHANGED request,
               act' = [act EXCEPT ![a] = NextTry(@)] \/ act' = [act EXCEPT ![a] = Succeed(@)]
        PROVE  Chains'
    <2>1. act[a] \in Activation
      BY <1>0 DEF ActTypes
    <2>2. Goes(act[a], NextTry(act[a])) /\ Goes(act[a], Succeed(act[a]))
      BY <2>1, NextTryOver, SucceedOver DEF Goes
    <2> QED
      BY <1>6, <2>2, GoesChains
  <1>7. ASSUME NEW a \in Acts, RedirectToLeader(a) PROVE Chains'
    <2>1. act[a].pc = "redirect" /\ UNCHANGED request /\ act[a] \in Activation
      BY <1>0, <1>7 DEF RedirectToLeader, ActTypes
    <2>2. act[a].peer \in Peers
      BY <1>0, <2>1 DEF ActsKnow, Running
    <2>3. ASSUME NEW l \in {"commit", "noleader"}, act' = [act EXCEPT ![a].pc = l]
          PROVE  Chains'
      <3>1. PICK f \in Activation : f = act[a]
        BY <2>1
      <3> DEFINE g == [f EXCEPT !.pc = l]
      <3>2. l \in Pcs /\ l \in {"noleader", "commit", "wait"}
        BY DEF Pcs
      <3>3. /\ g \in Activation
            /\ g.pc = l /\ g.op = f.op /\ g.peer = f.peer
            /\ g.orphan = f.orphan /\ g.child = f.child
        BY <3>2, PcFields
      <3>4. act' = [act EXCEPT ![a] = g]
        BY <1>0, <2>3, <3>1 DEF ActTypes
      <3> HIDE DEF g
      <3>5. Goes(act[a], g)
        BY <3>1, <3>2, <3>3 DEF Goes
      <3> QED
        BY <2>1, <3>4, <3>5, GoesChains DEF Running
    <2>4. ASSUME view[act[a].peer] \notin {act[a].peer, NoPeer}, RedirectTo(a, view[act[a].peer])
          PROVE  Chains'
      <3>1. view[act[a].peer] \in Peers
        BY <2>2, <2>4 DEF RaftTypes
      <3> QED
        BY <2>1, <2>4, <3>1, RedirectChains DEF Running
    <2> QED
      BY <1>6, <1>7, <2>1, <2>3, <2>4 DEF RedirectToLeader, Running
  <1>8. ASSUME NEW a \in Acts, WaitedForLeader(a) PROVE Chains'
    <2>1. act[a].pc = "noleader" /\ UNCHANGED request /\ act[a].peer \in Peers
      BY <1>0, <1>8 DEF WaitedForLeader, ActsKnow, Running
    <2> QED
      BY <1>6, <1>8, <2>1, RedirectChains DEF WaitedForLeader, Running
  <1>9. ASSUME NEW a \in Acts, CommitOp(a) PROVE Chains'
    <2>1. act[a].pc = "commit" /\ UNCHANGED request /\ act[a] \in Activation
      BY <1>0, <1>9 DEF CommitOp, ActTypes
    <2>2. ASSUME act' = [act EXCEPT ![a].pc = "wait", ![a].idx = Len(log) + 1, ![a].term = term]
          PROVE  Chains'
      <3>1. PICK i \in Nat, t \in Nat : i = Len(log) + 1 /\ t = term
        BY DEF RaftTypes
      <3>2. PICK f \in Activation : f = act[a]
        BY <2>1
      <3> DEFINE g == [[[f EXCEPT !.pc = "wait"] EXCEPT !.idx = i] EXCEPT !.term = t]
      <3>3. /\ g \in Activation
            /\ g.pc = "wait" /\ g.op = f.op /\ g.peer = f.peer
            /\ g.orphan = f.orphan /\ g.child = f.child
        BY DEF Activation
      <3>4. act' = [act EXCEPT ![a] = g]
        BY <1>0, <2>2, <3>1, <3>2 DEF ActTypes
      <3> HIDE DEF g
      <3>5. Goes(act[a], g)
        BY <3>2, <3>3 DEF Goes
      <3> QED
        BY <2>1, <3>4, <3>5, GoesChains DEF Running
    <2> QED
      BY <1>6, <1>9, <2>1, <2>2 DEF CommitOp, Running
  <1>10. ASSUME NEW a \in Acts, CommitDone(a) \/ CommitLost(a) PROVE Chains'
    BY <1>6, <1>10 DEF CommitDone, CommitLost, Running
  <1> QED
    BY <1>1, <1>2, <1>3, <1>4, <1>5, <1>7, <1>8, <1>9, <1>10,
       AnswerChains, RequestChains, ReturnChains DEF Next, LogOpStep

Order == Unlogged /\ AfterAcked /\ AckOrder

(* The log is cut, or grows by an operation of a running request. *)
LEMMA LogGoes ==
    ASSUME RaftTypes, Links, Chains, [Next]_vars
    PROVE  /\ log' \in Seq(LogOp)
           /\ \/ /\ Len(log') <= Len(log)
                 /\ \A i \in 1 .. Len(log') : log'[i] = log[i]
              \/ /\ Len(log') = Len(log) + 1
                 /\ \A i \in 1 .. Len(log) : log'[i] = log[i]
                 /\ request[log'[Len(log')].req].res = "running"
                 /\ UNCHANGED request
  <1>0. log \in Seq(LogOp) /\ commit \in 0 .. Len(log) /\ log' \in Seq(LogOp)
    BY RaftStep DEF RaftTypes
  <1>1. CASE UNCHANGED log
    BY <1>0, <1>1
  <1>2. ASSUME NEW p \in Peers, Elect(p)
        PROVE  Len(log') <= Len(log) /\ \A i \in 1 .. Len(log') : log'[i] = log[i]
    <2>1. PICK k \in commit .. Len(log) : log' = SubSeq(log, 1, k)
      BY <1>2 DEF Elect
    <2>2. k \in 0 .. Len(log)
      BY <1>0
    <2> QED
      BY <1>0, <2>1, <2>2
  <1>3. ASSUME NEW a \in Acts, CommitOp(a), log' = Append(log, act[a].op)
        PROVE  /\ Len(log') = Len(log) + 1
               /\ \A i \in 1 .. Len(log) : log'[i] = log[i]
               /\ request[log'[Len(log')].req].res = "running"
               /\ UNCHANGED request
    <2>1. act[a].pc = "commit" /\ UNCHANGED request
      BY <1>3 DEF CommitOp
    <2>2. PICK o : o = act[a].op
      OBVIOUS
    <2>3. Owner(a, o)
      BY <2>1, <2>2 DEF Chains, Owned
    <2>4. o \in LogOp /\ request[o.req].res = "running"
      BY <2>3 DEF Owner
    <2>5. Len(log') = Len(log) + 1 /\ (\A i \in 1 .. Len(log) : log'[i] = log[i]) /\ log'[Len(log')] = o
      BY <1>0, <1>3, <2>2, <2>4, AppendProperties
    <2> QED
      BY <2>1, <2>4, <2>5
  <1>4. ASSUME NEW a \in Acts, CommitOp(a)
        PROVE  UNCHANGED log \/ log' = Append(log, act[a].op)
    BY <1>4 DEF CommitOp
  <1>5. ASSUME NEW p \in Peers, Learn(p) \/ Apply(p) \/ Snapshot(p) \/ Restart(p)
        PROVE  UNCHANGED log
    BY <1>5 DEF Learn, Apply, Snapshot, Restart, raft
  <1>6. StepDown \/ CommitNext \/ UNCHANGED vars => UNCHANGED log
    BY DEF StepDown, CommitNext, vars
  <1>7. ASSUME NEW a \in Acts,
               \/ RedirectToLeader(a) \/ WaitedForLeader(a) \/ CommitDone(a) \/ CommitLost(a)
               \/ Answer(a) \/ AnswerLost(a)
        PROVE  UNCHANGED log
    BY <1>7 DEF RedirectToLeader, WaitedForLeader, CommitDone, CommitLost, Answer, AnswerLost, raft
  <1>8. ASSUME NEW r \in Requests, NEW p \in Peers, NEW t \in LogOpType, NEW c \in Cids,
               Request(r, p, t, c)
        PROVE  UNCHANGED log
    BY <1>8 DEF Request, raft
  <1>9. ASSUME NEW r \in Requests, Return(r)
        PROVE  UNCHANGED log
    BY <1>9 DEF Return, raft
  <1> QED
    BY <1>0, <1>1, <1>2, <1>3, <1>4, <1>5, <1>6, <1>7, <1>8, <1>9 DEF Next, LogOpStep

(* What becomes of a request: an acknowledged one stays so, and only a     *)
(* call that starts looks at the others.                                   *)
LEMMA RequestGoes ==
    ASSUME Links, [Next]_vars, NEW r \in Requests
    PROVE  /\ request[r].res = "ok" => request'[r].res = "ok"
           /\ request'[r].res = "none" => request[r].res = "none"
           /\ \/ request'[r].after = request[r].after
              \/ /\ request[r].res = "none"
                 /\ request'[r].after = {q \in Requests : request[q].res = "ok"}
                 /\ UNCHANGED log
  <1>0. ReqTypes
    BY DEF Links
  <1>1. CASE UNCHANGED request
    BY <1>1
  <1>2. ASSUME NEW q \in Requests, NEW p \in Peers, NEW t \in LogOpType, NEW c \in Cids,
               Request(q, p, t, c)
        PROVE  /\ request'[r] = request[r] \/ q = r
               /\ request'[q].res = "running" /\ request[q].res = "none"
               /\ request'[q].after = {x \in Requests : request[x].res = "ok"}
               /\ UNCHANGED log
    <2>1. PICK S : S = {x \in Requests : request[x].res = "ok"}
      OBVIOUS
    <2>2. PICK a : request' = [request EXCEPT ![q] = [res |-> "running", act |-> a, after |-> S]]
      BY <1>2, <2>1 DEF Request
    <2> QED
      BY <1>0, <1>2, <2>1, <2>2 DEF Request, ReqTypes, raft
  <1>3. ASSUME NEW q \in Requests, Return(q)
        PROVE  /\ request'[r] = request[r] \/ q = r
               /\ request'[q].res # "none" /\ request[q].res = "running"
               /\ request'[q].after = request[q].after
    <2>1. PICK a : a = request[q].act
      OBVIOUS
    <2>2. PICK x \in {"ok", "err"} : x = act[a].pc
      BY <1>3, <2>1 DEF Return
    <2>3. request' = [request EXCEPT ![q].res = x, ![q].act = NoAct]
      BY <1>3, <2>1, <2>2 DEF Return
    <2> QED
      BY <1>0, <1>3, <2>3 DEF Return, ReqTypes
  <1>4. ASSUME NEW p \in Peers, Elect(p) \/ Learn(p) \/ Apply(p) \/ Snapshot(p) \/ Restart(p)
        PROVE  UNCHANGED request
    BY <1>4 DEF Elect, Learn, Apply, Snapshot, Restart
  <1>5. StepDown \/ CommitNext \/ UNCHANGED vars => UNCHANGED request
    BY DEF StepDown, CommitNext, vars
  <1>6. ASSUME NEW a \in Acts, LogOpStep(a) \/ AnswerLost(a)
        PROVE  UNCHANGED request
    BY <1>6 DEF LogOpStep, RedirectToLeader, WaitedForLeader, CommitOp, CommitDone,
                CommitLost, Answer, AnswerLost
  <1>7. ASSUME NEW q \in Requests, NEW p \in Peers, NEW t \in LogOpType, NEW c \in Cids,
               Request(q, p, t, c)
        PROVE  /\ request[r].res = "ok" => request'[r].res = "ok"
               /\ request'[r].res = "none" => request[r].res = "none"
               /\ \/ request'[r].after = request[r].after
                  \/ /\ request[r].res = "none"
                     /\ request'[r].after = {x \in Requests : request[x].res = "ok"}
                     /\ UNCHANGED log
    BY <1>2, <1>7
  <1>8. ASSUME NEW q \in Requests, Return(q)
        PROVE  /\ request[r].res = "ok" => request'[r].res = "ok"
               /\ request'[r].res = "none" => request[r].res = "none"
               /\ request'[r].after = request[r].after
    BY <1>3, <1>8
  <1> QED
    BY <1>1, <1>4, <1>5, <1>6, <1>7, <1>8 DEF Next

(* No step lets a request overtake one acknowledged before it began. *)
LEMMA OrderStep ==
    ASSUME RaftTypes, Links, Chains, Order, [Next]_vars
    PROVE  Order'
  <1>0. /\ Unlogged /\ AfterAcked /\ AckOrder
        /\ Len(log) \in Nat /\ Len(log') \in Nat /\ log' \in Seq(LogOp)
        /\ ReqTypes
    BY RaftStep DEF Order, RaftTypes, Links
  <1>1. \/ /\ Len(log') <= Len(log)
           /\ \A i \in 1 .. Len(log') : log'[i] = log[i]
        \/ /\ Len(log') = Len(log) + 1
           /\ \A i \in 1 .. Len(log) : log'[i] = log[i]
           /\ request[log'[Len(log')].req].res = "running"
           /\ UNCHANGED request
    BY LogGoes
  <1>2. ASSUME NEW i \in 1 .. Len(log')
        PROVE  \/ i \in 1 .. Len(log) /\ log'[i] = log[i]
               \/ /\ i = Len(log') /\ i = Len(log) + 1 /\ UNCHANGED request
                  /\ request[log'[i].req].res = "running"
    BY <1>0, <1>1
  <1>3. Unlogged'
    <2> SUFFICES ASSUME NEW r \in Requests, request'[r].res = "none",
                        NEW i \in 1 .. Len(log'), log'[i].req = r
                 PROVE  FALSE
      BY DEF Unlogged
    <2>1. request[r].res = "none"
      BY RequestGoes
    <2> QED
      BY <1>0, <1>2, <2>1 DEF Unlogged
  <1>4. AfterAcked'
    <2> SUFFICES ASSUME NEW r \in Requests, NEW q \in request'[r].after
                 PROVE  request'[q].res = "ok"
      BY DEF AfterAcked
    <2>1. request[q].res = "ok"
      BY <1>0, RequestGoes DEF AfterAcked
    <2>2. q \in Requests
      BY <1>0, RequestGoes DEF ReqTypes
    <2> QED
      BY <2>1, <2>2, RequestGoes
  <1>5. AckOrder'
    <2> SUFFICES ASSUME NEW r \in Requests, NEW q \in Requests, q \in request'[r].after,
                        NEW i \in 1 .. Len(log'), NEW j \in 1 .. Len(log'),
                        log'[i].req = q, log'[j].req = r
                 PROVE  i < j
      BY DEF AckOrder
    <2>1. CASE q \in request[r].after
      <3>1. request[q].res = "ok"
        BY <1>0, <2>1 DEF AfterAcked
      <3>2. i \in 1 .. Len(log) /\ log'[i] = log[i]
        BY <1>2, <3>1
      <3>3. CASE j \in 1 .. Len(log) /\ log'[j] = log[j]
        BY <1>0, <2>1, <3>2, <3>3 DEF AckOrder
      <3>4. CASE j = Len(log) + 1
        BY <1>0, <3>2, <3>4
      <3> QED
        BY <1>2, <3>3, <3>4
    <2>2. CASE q \notin request[r].after
      <3>1. request[r].res = "none" /\ UNCHANGED log
        BY <2>2, RequestGoes
      <3> QED
        BY <1>0, <3>1 DEF Unlogged
    <2> QED
      BY <2>1, <2>2
  <1> QED
    BY <1>3, <1>4, <1>5 DEF Order

(* While answers of redirected calls get through and no peer restarts, no  *)
(* retry of an acknowledged request is appended behind a request made      *)
(* later: an acknowledged pin cannot come back over the unpin that         *)
(* followed it (logOpCid answers only when every attempt is over).         *)
THEOREM AcknowledgedOrder ==
    ASSUME ~RpcFaults, MaxRestarts = 0
    PROVE  Spec => []AckOrder
  <1> DEFINE OInv == Inv /\ Chains /\ Order
  <1>1. Init => OInv
    <2> SUFFICES ASSUME Init PROVE OInv
      OBVIOUS
    <2>1. \A a \in Acts : act[a] = Free
      BY DEF Init
    <2>2. Free.pc = "free" /\ ~Free.orphan
      BY DEF Free
    <2>3. Alive /\ Owned
      BY <2>1, <2>2 DEF Alive, Owned
    <2>4. Ranked
      <3>1. [a \in Acts |-> 0] \in [Acts -> Nat]
        OBVIOUS
      <3> QED
        BY <2>1, <2>2, <3>1 DEF Ranked
    <2>5. log = <<>> /\ Len(log) = 0 /\ \A r \in Requests : request[r].after = {}
      BY DEF Init
    <2>6. Unlogged /\ AfterAcked /\ AckOrder
      BY <2>5 DEF Unlogged, AfterAcked, AckOrder
    <2> QED
      BY InvInit, <2>3, <2>4, <2>6 DEF Chains, Order
  <1>2. OInv /\ [Next]_vars => OInv'
    <2> SUFFICES ASSUME OInv, [Next]_vars PROVE OInv'
      OBVIOUS
    <2>1. RaftTypes /\ Links /\ Replicas
      BY DEF Inv
    <2>2. Inv'
      BY InvNext
    <2>3. Chains'
      BY <2>1, ChainsStep
    <2>4. Order'
      BY <2>1, OrderStep
    <2> QED
      BY <2>2, <2>3, <2>4
  <1>3. OInv => AckOrder
    BY DEF Order
  <1> HIDE DEF OInv
  <1> QED
    BY <1>1, <1>2, <1>3, PTL DEF Spec

-----------------------------------------------------------------------------
(* The refinement of SharedPins.  Nothing is decided that nobody asked for, *)
(* and a request is one operation wherever it turns up: in the log or in    *)
(* an activation that works on it.                                         *)

Working(o) == \E a \in Acts : act[a].pc \in Running /\ act[a].op = o
Around(o) == Working(o) \/ \E i \in 1 .. Len(log) : log[i] = o

AskedFor == \A o \in LogOp : Around(o) => request[o.req].res # "none"
AsAsked == \A o, x \in LogOp : Around(o) /\ Around(x) /\ o.req = x.req => o = x

(* A restart takes a peer back, never ahead. *)
SnapBehind == \A p \in Peers : snap[p][1] <= applied[p]

(* A step after which every activation at work has an operation on which   *)
(* one was at work before.                                                 *)
WorkKept == \A o : Working(o)' => Working(o)

LEMMA OneWorks ==
    ASSUME ActTypes, NEW a \in Acts, NEW g, act' = [act EXCEPT ![a] = g],
           g.pc \in Running => act[a].pc \in Running /\ g.op = act[a].op
    PROVE  WorkKept
  <1>1. \A x \in Acts : act'[x] = IF x = a THEN g ELSE act[x]
    BY DEF ActTypes
  <1> QED
    BY <1>1 DEF WorkKept, Working

LEMMA TwoWork ==
    ASSUME ActTypes, NEW a \in Acts, NEW b \in Acts, NEW g, NEW h,
           act' = [act EXCEPT ![a] = g, ![b] = h], a # b, act[a].pc \in Running,
           g.pc \in Running => g.op = act[a].op,
           h.pc \in Running => h.op = act[a].op \/ (act[b].pc \in Running /\ h.op = act[b].op)
    PROVE  WorkKept
  <1>1. \A x \in Acts : act'[x] = IF x = a THEN g ELSE IF x = b THEN h ELSE act[x]
    BY DEF ActTypes
  <1> QED
    BY <1>1 DEF WorkKept, Working

LEMMA OverWorks ==
    ASSUME NEW f, NEW g, Over(f, g), g.pc \in Running
    PROVE  g.op = f.op
  BY StartFields DEF Over, Running

(* The steps of activations, ... *)
LEMMA LogOpWork ==
    ASSUME Links, view \in [Peers -> Peers \cup {NoPeer}], NEW a \in Acts,
           LogOpStep(a) \/ AnswerLost(a)
    PROVE  WorkKept
  <1>0. ActTypes /\ ActsKnow /\ ChildLinks /\ act[a] \in Activation
    BY DEF Links, ActTypes
  <1>1. ASSUME act[a].pc \in Running,
               \/ act' = [act EXCEPT ![a] = NextTry(@)] \/ act' = [act EXCEPT ![a] = Succeed(@)]
        PROVE  WorkKept
    <2>1. PICK g : Over(act[a], g) /\ act' = [act EXCEPT ![a] = g]
      BY <1>0, <1>1, NextTryOver, SucceedOver
    <2> QED
      BY <1>0, <1>1, <2>1, OverWorks, OneWorks
  <1>2. ASSUME act[a].pc \in Running, NEW l \in Pcs, act' = [act EXCEPT ![a].pc = l]
        PROVE  WorkKept
    <2>1. PICK f \in Activation : f = act[a]
      BY <1>0
    <2>2. PICK g : g = [f EXCEPT !.pc = l]
      OBVIOUS
    <2>3. act' = [act EXCEPT ![a] = g]
      BY <1>0, <1>2, <2>1, <2>2 DEF ActTypes
    <2>4. g.op = act[a].op
      BY <2>1, <2>2, PcFields
    <2> QED
      BY <1>0, <1>2, <2>3, <2>4, OneWorks
  <1>3. ASSUME act[a].pc \in Running, NEW q \in Peers, RedirectTo(a, q)
        PROVE  WorkKept
    <2>1. PICK b \in NextFree :
             act' = [act EXCEPT ![a].pc = "rpc", ![a].child = b, ![b] = Start(q, act[a].op)]
      BY <1>3 DEF RedirectTo
    <2>2. b \in Acts /\ b # a /\ act[a].op \in LogOp
      BY <1>0, <1>3, FreeToTake DEF Running, ActsKnow
    <2>3. PICK f \in Activation : f = act[a]
      BY <1>0
    <2>4. PICK g : g = [[f EXCEPT !.pc = "rpc"] EXCEPT !.child = b]
      OBVIOUS
    <2>5. PICK h : h = Start(q, act[a].op)
      OBVIOUS
    <2>6. /\ g.op = act[a].op
          /\ h.op = act[a].op
      <3>1. g.op = f.op
        BY <2>2, <2>4, RpcFields
      <3>2. PICK o \in LogOp : o = act[a].op
        BY <2>2
      <3>3. h.op = o
        BY <2>5, <3>2, StartFields
      <3> QED
        BY <2>3, <3>1, <3>2, <3>3
    <2>7. act' = [act EXCEPT ![a] = g, ![b] = h]
      BY <1>0, <2>1, <2>2, <2>3, <2>4, <2>5 DEF ActTypes
    <2> QED
      BY <1>0, <1>3, <2>2, <2>6, <2>7, TwoWork
  <1>4. CASE RedirectToLeader(a)
    <2>1. act[a].pc \in Running /\ act[a].peer \in Peers
      BY <1>0, <1>4 DEF RedirectToLeader, Running, ActsKnow
    <2> QED
      BY <1>1, <1>2, <1>3, <1>4, <2>1 DEF RedirectToLeader, Pcs
  <1>5. CASE WaitedForLeader(a)
    <2>1. act[a].pc \in Running /\ act[a].peer \in Peers
      BY <1>0, <1>5 DEF WaitedForLeader, Running, ActsKnow
    <2> QED
      BY <1>1, <1>3, <1>5, <2>1 DEF WaitedForLeader
  <1>6. CASE CommitOp(a)
    <2>1. act[a].pc \in Running
      BY <1>6 DEF CommitOp, Running
    <2>2. ASSUME act' = [act EXCEPT ![a].pc = "wait", ![a].idx = Len(log) + 1, ![a].term = term]
          PROVE  WorkKept
      <3>0. PICK i, t : i = Len(log) + 1 /\ t = term
        OBVIOUS
      <3>1. PICK f \in Activation : f = act[a]
        BY <1>0
      <3>2. PICK g : g = [[[f EXCEPT !.pc = "wait"] EXCEPT !.idx = i] EXCEPT !.term = t]
        OBVIOUS
      <3>3. act' = [act EXCEPT ![a] = g]
        BY <1>0, <2>2, <3>0, <3>1, <3>2 DEF ActTypes
      <3>4. g.op = act[a].op
        BY <3>1, <3>2 DEF Activation
      <3> QED
        BY <1>0, <2>1, <3>3, <3>4, OneWorks
    <2> QED
      BY <1>1, <1>6, <2>1, <2>2 DEF CommitOp
  <1>7. CASE CommitDone(a) \/ CommitLost(a)
    BY <1>1, <1>7 DEF CommitDone, CommitLost, Running
  <1>8. CASE Answer(a)
    <2>1. PICK b \in Acts : b = act[a].child /\ b # a
      BY <1>0, <1>8 DEF Answer, ChildLinks
    <2>2. PICK g : g = Answered(act[a], act[b].pc)
      OBVIOUS
    <2>3. act' = [act EXCEPT ![a] = g, ![b] = Free] /\ act[a].pc \in Running
      BY <1>8, <2>1, <2>2 DEF Answer, Running
    <2>4. g.pc \in Running => g.op = act[a].op
      BY <1>0, <2>2, AnsweredOver, OverWorks
    <2>5. Free.pc \notin Running
      BY StartFields DEF Running
    <2> QED
      BY <1>0, <2>1, <2>3, <2>4, <2>5, TwoWork
  <1>9. CASE AnswerLost(a)
    <2>1. PICK b \in Acts : b = act[a].child /\ b # a
      BY <1>0, <1>9 DEF AnswerLost, ChildLinks
    <2>2. PICK f \in Activation : f = act[b]
      BY <1>0 DEF ActTypes
    <2>3. PICK g : g = NextTry(act[a])
      OBVIOUS
    <2>4. PICK h : h = IF act[b].pc \in {"ok", "err"} THEN Free ELSE [f EXCEPT !.orphan = TRUE]
      OBVIOUS
    <2>5. act' = [act EXCEPT ![a] = g, ![b] = h] /\ act[a].pc \in Running
      BY <1>0, <1>9, <2>1, <2>2, <2>3, <2>4 DEF AnswerLost, Running, ActTypes
    <2>6. g.pc \in Running => g.op = act[a].op
      BY <1>0, <2>3, NextTryOver, OverWorks
    <2>7. h.pc \in Running => act[b].pc \in Running /\ h.op = act[b].op
      BY <2>2, <2>4, StartFields, OrphanFields DEF Running
    <2> QED
      BY <1>0, <2>1, <2>5, <2>6, <2>7, TwoWork
  <1> QED
    BY <1>4, <1>5, <1>6, <1>7, <1>8, <1>9 DEF LogOpStep

(* ... of users and of peers that restart. *)
LEMMA ReturnWork ==
    ASSUME Links, NEW r \in Requests, Return(r)
    PROVE  WorkKept
  <1>1. ActTypes /\ request[r].act \in Acts
    BY DEF Links, RequestLinks, Return
  <1>2. act' = [act EXCEPT ![request[r].act] = Free] /\ Free.pc \notin Running
    BY StartFields DEF Return, Running
  <1> QED
    BY <1>1, <1>2, OneWorks

LEMMA RestartWork ==
    ASSUME Links, NEW p \in Peers, Restart(p)
    PROVE  WorkKept
  <1>1. ActTypes /\ act' = [a \in Acts |-> AfterStop(a, p)]
    BY DEF Links, Restart
  <1>2. ASSUME NEW a \in Acts, act'[a].pc \in Running
        PROVE  act[a].pc \in Running /\ act'[a].op = act[a].op
    <2>1. PICK f \in Activation : f = act[a]
      BY <1>1 DEF ActTypes
    <2>2. PICK g : g = [f EXCEPT !.orphan = TRUE]
      OBVIOUS
    <2>3. act'[a] \in {Free, [Free EXCEPT !.pc = "err"], g, f}
      BY <1>1, <2>1, <2>2 DEF AfterStop
    <2>4. Free.pc \notin Running /\ [Free EXCEPT !.pc = "err"].pc \notin Running
      BY StartFields, ErrFields DEF Running
    <2>5. g.pc = f.pc /\ g.op = f.op
      BY <2>2, OrphanFields
    <2> QED
      BY <1>2, <2>1, <2>3, <2>4, <2>5
  <1> QED
    BY <1>2 DEF WorkKept, Working

(* What an operation of a request may be after a step: where it was before *)
(* or, when the request has just been made, in its first activation.       *)
LEMMA AroundGoes ==
    ASSUME RaftTypes, Links, [Next]_vars
    PROVE  \/ \A o \in LogOp : Around(o)' => Around(o)
           \/ \E r \in Requests, t \in LogOpType, c \in Cids :
                /\ request[r].res = "none"
                /\ request'[r].res = "running"
                /\ \A o \in LogOp :
                     Around(o)' => Around(o) \/ o = [Type |-> t, Cid |-> c, req |-> r]
  <1>0. /\ log \in Seq(LogOp) /\ commit \in 0 .. Len(log) /\ Len(log) \in Nat
        /\ view \in [Peers -> Peers \cup {NoPeer}] /\ ActTypes /\ ReqTypes
    BY DEF RaftTypes, Links
  <1>1. ASSUME WorkKept, UNCHANGED log
        PROVE  \A o \in LogOp : Around(o)' => Around(o)
    BY <1>1 DEF WorkKept, Around
  <1>2. ASSUME UNCHANGED act
        PROVE  WorkKept
    BY <1>2 DEF WorkKept, Working
  <1>3. ASSUME NEW p \in Peers, Elect(p)
        PROVE  \A o \in LogOp : Around(o)' => Around(o)
    <2>1. PICK k \in commit .. Len(log) : log' = SubSeq(log, 1, k)
      BY <1>3 DEF Elect
    <2>2. k \in 0 .. Len(log) /\ UNCHANGED act
      BY <1>0, <1>3 DEF Elect
    <2>3. Len(log') = k /\ \A i \in 1 .. k : log'[i] = log[i]
      BY <1>0, <2>1, <2>2
    <2>4. \A i \in 1 .. Len(log') : i \in 1 .. Len(log) /\ log'[i] = log[i]
      BY <1>0, <2>2, <2>3
    <2>5. WorkKept
      BY <1>2, <2>2
    <2> QED
      BY <2>4, <2>5 DEF WorkKept, Around
  <1>4. ASSUME NEW a \in Acts, CommitOp(a)
        PROVE  \A o \in LogOp : Around(o)' => Around(o)
    <2>1. WorkKept
      BY <1>0, <1>4, LogOpWork DEF LogOpStep
    <2>2. CASE UNCHANGED log
      BY <1>1, <2>1, <2>2
    <2>3. CASE log' = Append(log, act[a].op)
      <3>1. PICK x : x = act[a].op
        OBVIOUS
      <3>2. Working(x)
        BY <1>4, <3>1 DEF CommitOp, Running, Working
      <3>3. \A i \in 1 .. Len(log') : log'[i] = x \/ (i \in 1 .. Len(log) /\ log'[i] = log[i])
        BY <1>0, <2>3, <3>1, AppendProperties
      <3> QED
        BY <2>1, <3>2, <3>3 DEF WorkKept, Around
    <2> QED
      BY <1>4, <2>2, <2>3 DEF CommitOp
  <1>5. ASSUME NEW a \in Acts, LogOpStep(a) \/ AnswerLost(a)
        PROVE  \A o \in LogOp : Around(o)' => Around(o)
    <2>1. CASE CommitOp(a)
      BY <1>4, <2>1
    <2>2. CASE ~CommitOp(a)
      <3>1. UNCHANGED log
        BY <1>5, <2>2 DEF LogOpStep, RedirectToLeader, WaitedForLeader, CommitDone, CommitLost,
                          Answer, AnswerLost, raft
      <3> QED
        BY <1>0, <1>1, <1>5, <3>1, LogOpWork
    <2> QED
      BY <2>1, <2>2
  <1>6. ASSUME NEW p \in Peers, Learn(p) \/ Apply(p) \/ Snapshot(p)
        PROVE  UNCHANGED <<log, act>>
    BY <1>6 DEF Learn, Apply, Snapshot, raft
  <1>7. StepDown \/ CommitNext \/ UNCHANGED vars => UNCHANGED <<log, act>>
    BY DEF StepDown, CommitNext, vars
  <1>8. ASSUME NEW p \in Peers, Restart(p)
        PROVE  \A o \in LogOp : Around(o)' => Around(o)
    BY <1>1, <1>8, RestartWork DEF Restart
  <1>9. ASSUME NEW r \in Requests, Return(r)
        PROVE  \A o \in LogOp : Around(o)' => Around(o)
    BY <1>1, <1>9, ReturnWork DEF Return, raft
  <1>10. ASSUME NEW r \in Requests, NEW p \in Peers, NEW t \in LogOpType, NEW c \in Cids,
                Request(r, p, t, c)
         PROVE  /\ request[r].res = "none" /\ request'[r].res = "running"
                /\ \A o \in LogOp :
                     Around(o)' => Around(o) \/ o = [Type |-> t, Cid |-> c, req |-> r]
    <2>1. PICK x \in LogOp : x = [Type |-> t, Cid |-> c, req |-> r]
      BY DEF LogOp
    <2>2. PICK S : S = {q \in Requests : request[q].res = "ok"}
      OBVIOUS
    <2>3. PICK b \in NextFree :
             /\ act' = [act EXCEPT ![b] = Start(p, x)]
             /\ request' = [request EXCEPT ![r] = [res |-> "running", act |-> b, after |-> S]]
      BY <1>10, <2>1, <2>2 DEF Request
    <2>4. request[r].res = "none" /\ request'[r].res = "running" /\ UNCHANGED log
      BY <1>0, <1>10, <2>3 DEF Request, ReqTypes, raft
    <2>5. b \in Acts /\ Start(p, x).op = x
      BY FreeToTake, StartFields
    <2>6. \A a \in Acts : act'[a].op = x \/ act'[a] = act[a]
      BY <1>0, <2>3, <2>5 DEF ActTypes
    <2>7. ASSUME NEW o \in LogOp, Around(o)', o # x
          PROVE  Around(o)
      BY <2>4, <2>6, <2>7 DEF Around, Working
    <2> QED
      BY <2>1, <2>4, <2>7
  <1>11. CASE \E r \in Requests, p \in Peers, t \in LogOpType, c \in Cids : Request(r, p, t, c)
    BY <1>10, <1>11
  <1>12. ASSUME UNCHANGED <<log, act>>
         PROVE  \A o \in LogOp : Around(o)' => Around(o)
    BY <1>1, <1>2, <1>12
  <1> QED
    BY <1>3, <1>5, <1>6, <1>7, <1>8, <1>9, <1>11, <1>12 DEF Next

LEMMA AskedStep ==
    ASSUME RaftTypes, Links, AskedFor, AsAsked, [Next]_vars
    PROVE  AskedFor' /\ AsAsked'
  <1>1. \A o \in LogOp : o.req \in Requests
    BY DEF LogOp
  <1>2. \A r \in Requests : request'[r].res = "none" => request[r].res = "none"
    BY RequestGoes
  <1>3. CASE \A o \in LogOp : Around(o)' => Around(o)
    BY <1>1, <1>2, <1>3 DEF AskedFor, AsAsked
  <1>4. ASSUME NEW r \in Requests, NEW x \in LogOp, x.req = r,
               request[r].res = "none", request'[r].res = "running",
               \A o \in LogOp : Around(o)' => Around(o) \/ o = x
        PROVE  AskedFor' /\ AsAsked'
    <2>1. \A o \in LogOp : Around(o) => o.req # r
      BY <1>4 DEF AskedFor
    <2>2. AskedFor'
      BY <1>1, <1>2, <1>4 DEF AskedFor
    <2>3. AsAsked'
      BY <1>4, <2>1 DEF AsAsked
    <2> QED
      BY <2>2, <2>3
  <1>5. ASSUME NEW r \in Requests, NEW t \in LogOpType, NEW c \in Cids
        PROVE  \E x \in LogOp : x = [Type |-> t, Cid |-> c, req |-> r] /\ x.req = r
    <2>1. [Type |-> t, Cid |-> c, req |-> r] \in LogOp
      BY DEF LogOp
    <2> QED
      BY <2>1
  <1> QED
    BY <1>3, <1>4, <1>5, AroundGoes

LEMMA SnapBehindStep ==
    ASSUME ReplicaTypes, SnapBehind, [Next]_vars
    PROVE  SnapBehind'
  <1>0. /\ applied \in [Peers -> Nat] /\ snap \in [Peers -> Nat \X MapState]
        /\ \A p \in Peers : snap[p][1] \in Nat /\ snap[p][1] <= applied[p]
    BY DEF ReplicaTypes, SnapBehind
  <1>1. CASE UNCHANGED <<applied, snap>>
    BY <1>0, <1>1 DEF SnapBehind
  <1>2. ASSUME NEW p \in Peers, Apply(p) PROVE SnapBehind'
    BY <1>0, <1>2 DEF Apply, SnapBehind
  <1>3. ASSUME NEW p \in Peers, Snapshot(p) PROVE SnapBehind'
    <2>1. PICK n, s : n = applied[p] /\ s = <<n, state[p]>>
      OBVIOUS
    <2>2. snap' = [snap EXCEPT ![p] = s] /\ s[1] = n /\ UNCHANGED applied
      BY <1>3, <2>1 DEF Snapshot
    <2> QED
      BY <1>0, <2>1, <2>2 DEF SnapBehind
  <1>4. ASSUME NEW p \in Peers, Restart(p) PROVE SnapBehind'
    BY <1>0, <1>4 DEF Restart, RestoredIndex, SnapBehind
  <1>5. ASSUME NEW p \in Peers, Elect(p) \/ Learn(p) PROVE UNCHANGED <<applied, snap>>
    BY <1>5 DEF Elect, Learn, replica
  <1>6. StepDown \/ CommitNext \/ UNCHANGED vars => UNCHANGED <<applied, snap>>
    BY DEF StepDown, CommitNext, vars, replica
  <1>7. ASSUME NEW a \in Acts, LogOpStep(a) \/ AnswerLost(a) PROVE UNCHANGED <<applied, snap>>
    BY <1>7 DEF LogOpStep, RedirectToLeader, WaitedForLeader, CommitOp, CommitDone,
                CommitLost, Answer, AnswerLost, replica
  <1>8. ASSUME NEW r \in Requests, NEW p \in Peers, NEW t \in LogOpType, NEW c \in Cids,
               Request(r, p, t, c)
        PROVE  UNCHANGED <<applied, snap>>
    BY <1>8 DEF Request, replica
  <1>9. ASSUME NEW r \in Requests, Return(r) PROVE UNCHANGED <<applied, snap>>
    BY <1>9 DEF Return, replica
  <1> QED
    BY <1>1, <1>2, <1>3, <1>4, <1>5, <1>6, <1>7, <1>8, <1>9 DEF Next

-----------------------------------------------------------------------------
(* The refinement mapping.                                                 *)

Decided == SubSeq(log, 1, commit)
Results == [r \in Requests |-> request[r].res]

LEMMA DecidedIs ==
    ASSUME RaftTypes
    PROVE  /\ Decided \in Seq(LogOp) /\ Len(Decided) = commit /\ commit \in Nat
           /\ \A i \in 1 .. commit : Decided[i] = log[i]
  BY DEF RaftTypes, Decided

(* The decisions stay when no operation is committed. *)
LEMMA DecidedStays ==
    ASSUME RaftTypes, RaftTypes', Kept, commit' = commit
    PROVE  Decided' = Decided
  <1>1. /\ log \in Seq(LogOp) /\ commit \in 0 .. Len(log)
        /\ log' \in Seq(LogOp) /\ commit \in 0 .. Len(log')
        /\ \A i \in 1 .. commit : log'[i] = log[i]
    BY DEF RaftTypes, Kept
  <1>2. PICK n \in Nat, k \in Seq(LogOp), l \in Seq(LogOp) : n = commit /\ k = log' /\ l = log
    BY <1>1
  <1>3. SubSeq(k, 1, n) = [i \in 1 .. n |-> k[i]] /\ SubSeq(l, 1, n) = [i \in 1 .. n |-> l[i]]
    BY <1>1, <1>2
  <1> QED
    BY <1>1, <1>2, <1>3 DEF Decided

(* What LastOpWins says of a MapState determines it. *)
LEMMA OutcomeIs ==
    ASSUME RaftTypes, NEW s \in MapState, NEW n \in 0 .. commit, LastOpWins(s, n)
    PROVE  s = Pins!Outcome(n)
  <1>0. commit \in Nat /\ \A i \in 1 .. n : Decided[i] = log[i]
    BY DecidedIs
  <1> DEFINE T(c) == {i \in 1 .. n : Decided[i].Cid = c}
             Val(c) == IF T(c) = {} THEN NoPin ELSE Pins!Left(Decided[Pins!Latest(T(c))])
  <1>1. Pins!Outcome(n) = [c \in Cids |-> Val(c)]
    BY DEF Pins!Outcome, Pins!Touching, Decided
  <1>2. ASSUME NEW c \in Cids
        PROVE  s[c] = Val(c)
    <2>1. CASE s[c] = NoPin /\ \A i \in 1 .. n : log[i].Cid # c
      <3>1. T(c) = {}
        BY <1>0, <2>1
      <3> QED
        BY <2>1, <3>1
    <2>2. ASSUME NEW i \in 1 .. n, log[i].Cid = c, \A j \in i + 1 .. n : log[j].Cid # c,
                 s[c] = IF log[i].Type = "LogOpPin" THEN log[i].req ELSE NoPin
          PROVE  s[c] = Val(c)
      <3>1. i \in T(c) /\ T(c) \subseteq 1 .. n
        BY <1>0, <2>2
      <3>2. \A j \in T(c) : j <= i
        <4> SUFFICES ASSUME NEW j \in 1 .. n, Decided[j].Cid = c, j > i PROVE FALSE
          BY <3>1
        <4>1. j \in i + 1 .. n
          OBVIOUS
        <4> QED
          BY <1>0, <2>2, <4>1
      <3> HIDE DEF T
      <3>3. PICK l : l = Pins!Latest(T(c))
        OBVIOUS
      <3>4. l \in T(c) /\ \A j \in T(c) : j <= l
        BY <3>1, <3>2, <3>3 DEF Pins!Latest
      <3>5. l = i
        BY <3>1, <3>2, <3>4
      <3>6. Val(c) = Pins!Left(log[i])
        BY <1>0, <3>1, <3>3, <3>5
      <3> QED
        BY <2>2, <3>6 DEF Pins!Left
    <2> QED
      BY <2>1, <2>2 DEF LastOpWins
  <1>3. s = [c \in Cids |-> s[c]]
    BY DEF MapState
  <1> HIDE DEF Val
  <1> QED
    BY <1>1, <1>2, <1>3

(* Every step is one of SharedPins or changes nothing there.               *)
LEMMA RefinedStep ==
    ASSUME Inv, AskedFor, AsAsked, SnapBehind, [Next]_vars
    PROVE  [Pins!Next]_(Pins!pvars)
  <1>0. /\ RaftTypes /\ RaftTypes' /\ Kept /\ Links /\ ReqTypes
        /\ ReplicaTypes /\ ReplicaTypes' /\ StateIsLog /\ StateIsLog' /\ SnapIsLog
        /\ AckedIsCommitted'
    BY InvNext, RaftStep DEF Inv, Links, Replicas
  <1>1. ASSUME Decided' = Decided, UNCHANGED <<applied, state, request>>
        PROVE  UNCHANGED Pins!pvars
    BY <1>1 DEF Pins!pvars, Decided
  <1>2. ASSUME UNCHANGED <<commit, applied, state, request>>
        PROVE  UNCHANGED Pins!pvars
    BY <1>0, <1>1, <1>2, DecidedStays
  <1>3. CASE CommitNext
    <2>1. /\ log \in Seq(LogOp) /\ commit \in Nat /\ commit < Len(log) /\ Len(log) \in Nat
          /\ log' = log /\ commit' = commit + 1 /\ UNCHANGED <<applied, state, request>>
      BY <1>0, <1>3 DEF RaftTypes, CommitNext, replica
    <2>2. PICK o \in LogOp : o = log[commit + 1]
      BY <2>1
    <2>3. Around(o) /\ \A i \in 1 .. commit : log[i] \in LogOp /\ Around(log[i])
      BY <2>1, <2>2 DEF Around
    <2>4. o.req \in Requests /\ request[o.req].res # "none"
      BY <2>3 DEF AskedFor, LogOp
    <2>5. \A i \in 1 .. Len(Decided) : Decided[i].req = o.req => Decided[i] = o
      BY <1>0, <2>3, DecidedIs DEF AsAsked
    <2>6. Decided' = Append(Decided, o)
      <3>1. PICK n \in Nat, l \in Seq(LogOp) : n = commit /\ l = log
        BY <2>1
      <3>2. SubSeq(l, 1, n + 1) = Append(SubSeq(l, 1, n), l[n + 1])
        BY <2>1, <3>1
      <3> QED
        BY <2>1, <2>2, <3>1, <3>2 DEF Decided
    <2>7. Pins!Decide(o)
      BY <2>1, <2>4, <2>5, <2>6 DEF Pins!Decide, Decided
    <2>8. o \in Pins!Operations
      BY DEF LogOp, LogOpType, Pins!Operations
    <2> QED
      BY <2>7, <2>8 DEF Pins!Next
  <1>4. ASSUME NEW p \in Peers, NEW n \in 0 .. commit, NEW s \in MapState, LastOpWins(s, n),
               n <= applied[p] + 1,
               applied' = [applied EXCEPT ![p] = n], state' = [state EXCEPT ![p] = s],
               UNCHANGED <<log, commit, request>>
        PROVE  Pins!Next
    <2>1. s = Pins!Outcome(n) /\ n \in 0 .. Len(Decided)
      BY <1>0, <1>4, OutcomeIs, DecidedIs
    <2>2. Pins!Follow(p, n)
      BY <1>4, <2>1 DEF Pins!Follow
    <2> QED
      BY <2>1, <2>2 DEF Pins!Next, Decided
  <1>5. ASSUME NEW p \in Peers, Apply(p)
        PROVE  Pins!Next
    <2>1. /\ applied \in [Peers -> Nat] /\ commit \in Nat /\ applied[p] < commit
          /\ state \in [Peers -> MapState] /\ state' \in [Peers -> MapState]
          /\ UNCHANGED <<log, commit, request>>
      BY <1>0, <1>5 DEF ReplicaTypes, RaftTypes, Apply, raft
    <2>2. PICK n \in 0 .. commit : n = applied[p] + 1
      BY <2>1
    <2>3. PICK s : s = ApplyTo(log[applied[p] + 1], state[p])
      OBVIOUS
    <2>4. /\ applied' = [applied EXCEPT ![p] = n] /\ state' = [state EXCEPT ![p] = s]
          /\ applied'[p] = n /\ state'[p] = s
      BY <1>5, <2>1, <2>2, <2>3 DEF Apply
    <2>5. LastOpWins(s, n)
      BY <1>0, <2>1, <2>4 DEF StateIsLog, LastOpWins
    <2>6. s \in MapState /\ n <= applied[p] + 1
      BY <2>1, <2>2, <2>4
    <2> QED
      BY <1>4, <2>1, <2>2, <2>4, <2>5, <2>6
  <1>6. ASSUME NEW p \in Peers, Restart(p)
        PROVE  Pins!Next
    <2>1. /\ applied \in [Peers -> Nat] /\ commit \in Nat
          /\ UNCHANGED <<log, commit, request>>
      BY <1>0, <1>6 DEF ReplicaTypes, RaftTypes, Restart
    <2>2. PICK n \in Nat, s \in MapState : n = snap[p][1] /\ s = snap[p][2]
      BY <1>0 DEF ReplicaTypes
    <2>3. n \in 0 .. commit /\ n <= applied[p] + 1 /\ LastOpWins(s, n)
      BY <1>0, <2>1, <2>2 DEF SnapIsLog, SnapBehind
    <2>4. applied' = [applied EXCEPT ![p] = n] /\ state' = [state EXCEPT ![p] = s]
      BY <1>6, <2>2 DEF Restart, RestoredIndex
    <2> QED
      BY <1>4, <2>1, <2>3, <2>4
  <1>7. ASSUME NEW r \in Requests, NEW x \in {"running", "ok", "err"},
               \A q \in Requests : request'[q].res = IF q = r THEN x ELSE request[q].res
        PROVE  Results' = [Results EXCEPT ![r] = x]
    BY <1>7 DEF Results
  <1>8. ASSUME NEW r \in Requests, NEW p \in Peers, NEW t \in LogOpType, NEW c \in Cids,
               Request(r, p, t, c)
        PROVE  Pins!Next
    <2>1. PICK v : v.res = "running" /\ request' = [request EXCEPT ![r] = v]
      BY <1>8 DEF Request
    <2>2. Results' = [Results EXCEPT ![r] = "running"] /\ Results[r] = "none"
      BY <1>0, <1>7, <1>8, <2>1 DEF ReqTypes, Results, Request
    <2>3. Decided' = Decided /\ UNCHANGED <<applied, state>>
      BY <1>8 DEF Request, raft, replica, Decided
    <2>4. Pins!Ask(r)
      BY <2>2, <2>3 DEF Pins!Ask, Results, Decided
    <2> QED
      BY <2>4 DEF Pins!Next
  <1>9. ASSUME NEW r \in Requests, Return(r)
        PROVE  Pins!Next
    <2>1. PICK x \in {"ok", "err"} : x = act[request[r].act].pc
      BY <1>9 DEF Return
    <2>2. request' = [request EXCEPT ![r].res = x, ![r].act = NoAct]
      BY <1>9, <2>1 DEF Return
    <2>3. \A q \in Requests : request'[q].res = IF q = r THEN x ELSE request[q].res
      BY <1>0, <2>2 DEF ReqTypes
    <2>4. Results' = [Results EXCEPT ![r] = x] /\ Results[r] = "running"
      BY <1>7, <1>9, <2>3 DEF Results, Return
    <2>5. Decided' = Decided /\ UNCHANGED <<log, commit, applied, state>>
      BY <1>9 DEF Return, raft, replica, Decided
    <2>6. x = "ok" => \E i \in 1 .. Len(Decided) : Decided[i].req = r
      BY <1>0, <2>3, <2>5, DecidedIs DEF AckedIsCommitted
    <2>7. Pins!Reply(r, x)
      BY <2>4, <2>5, <2>6 DEF Pins!Reply, Results, Decided
    <2> QED
      BY <2>7 DEF Pins!Next
  <1>10. ASSUME NEW p \in Peers, Elect(p) \/ Learn(p) \/ Snapshot(p)
         PROVE  UNCHANGED <<commit, applied, state, request>>
    BY <1>10 DEF Elect, Learn, Snapshot, raft, replica
  <1>11. StepDown \/ UNCHANGED vars => UNCHANGED <<commit, applied, state, request>>
    BY DEF StepDown, vars, replica
  <1>12. ASSUME NEW a \in Acts, LogOpStep(a) \/ AnswerLost(a)
         PROVE  UNCHANGED <<commit, applied, state, request>>
    BY <1>12 DEF LogOpStep, RedirectToLeader, WaitedForLeader, CommitOp, CommitDone,
                 CommitLost, Answer, AnswerLost, raft, replica
  <1> QED
    BY <1>2, <1>3, <1>5, <1>6, <1>8, <1>9, <1>10, <1>11, <1>12 DEF Next

(* Whatever elections, redirections, retries, lost answers and restarts    *)
(* do, what users and peers see is one sequence of decided operations:     *)
(* the committed log only grows, by what was asked for and as it was asked *)
(* for, MapState follows it, and LogPin and LogUnpin return nil only for a *)
(* decided operation (consensus.go, log_op.go, state/mapstate).            *)
THEOREM SharedPinsImplemented == Spec => ImplementsSharedPins
  <1> DEFINE PInv == Inv /\ AskedFor /\ AsAsked /\ SnapBehind
  <1>1. Init => PInv /\ Pins!Init
    <2> SUFFICES ASSUME Init PROVE PInv /\ Pins!Init
      OBVIOUS
    <2>1. Inv /\ RaftTypes /\ log = <<>> /\ Len(log) = 0 /\ commit = 0
      BY InvInit DEF Init, Inv
    <2>2. \A a \in Acts : act[a].pc \notin Running
      BY StartFields DEF Init, Running
    <2>3. AskedFor /\ AsAsked
      BY <2>1, <2>2 DEF AskedFor, AsAsked, Around, Working
    <2>4. SnapBehind
      BY DEF Init, SnapBehind
    <2>5. Decided = <<>>
      BY <2>1, DecidedIs DEF Decided
    <2>6. Empty \in MapState /\ LastOpWins(Empty, 0)
      BY DEF Empty, MapState, LastOpWins
    <2>7. Empty = Pins!Outcome(0)
      BY <2>1, <2>6, OutcomeIs
    <2>8. Pins!Init
      BY <2>5, <2>7 DEF Init, Pins!Init, Decided
    <2> QED
      BY <2>1, <2>3, <2>4, <2>8
  <1>2. PInv /\ [Next]_vars => PInv'
    <2> SUFFICES ASSUME PInv, [Next]_vars PROVE PInv'
      OBVIOUS
    <2>1. RaftTypes /\ Links /\ ReplicaTypes
      BY DEF Inv, Replicas
    <2> QED
      BY <2>1, InvNext, AskedStep, SnapBehindStep
  <1>3. PInv /\ [Next]_vars => [Pins!Next]_(Pins!pvars)
    BY RefinedStep
  <1> HIDE DEF PInv
  <1> QED
    BY <1>1, <1>2, <1>3, PTL DEF Spec, ImplementsSharedPins, Pins!Spec
=============================================================================
