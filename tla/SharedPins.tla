----------------------------- MODULE SharedPins -----------------------------
(***************************************************************************)
(* What the shared state promises to those who call LogPin and LogUnpin:   *)
(* one sequence of operations, decided once and for all, that every peer   *)
(* follows from the start.  The pins a peer holds are the outcome of a     *)
(* prefix; a peer goes on one operation at a time, or back to an earlier   *)
(* prefix when it is started again.  A call that is answered without an    *)
(* error has been decided.  One that failed may have been decided, or be   *)
(* so later, and any call may be decided more than once, but always as the *)
(* operation it is.  ConsensusLog implements this with Raft, redirections  *)
(* and retries.                                                            *)
(***************************************************************************)
EXTENDS Naturals, Sequences

CONSTANTS
    Peers,
    Cids, NoPin,   \* a Cid, and what a peer holds for one that is not pinned
    Requests       \* the calls

VARIABLES
    ops,      \* the operations decided so far
    place,    \* place[p]: how many of them p follows
    pins,     \* pins[p][c]: the call that pinned c, as p sees it
    result    \* result[r]: none, running, ok, err

pvars == <<ops, place, pins, result>>

Operations == [Type : {"LogOpPin", "LogOpUnpin"}, Cid : Cids, req : Requests]

(* The last operation on each Cid among the first n decides. *)
Touching(c, n) == {i \in 1 .. n : ops[i].Cid = c}
Latest(s) == CHOOSE i \in s : \A j \in s : j <= i
Left(o) == IF o.Type = "LogOpPin" THEN o.req ELSE NoPin
Outcome(n) ==
    [c \in Cids |-> IF Touching(c, n) = {} THEN NoPin ELSE Left(ops[Latest(Touching(c, n))])]

Ask(r) ==
    /\ result[r] = "none"
    /\ result' = [result EXCEPT ![r] = "running"]
    /\ UNCHANGED <<ops, place, pins>>

Decide(o) ==
    /\ result[o.req] # "none"
    /\ \A i \in 1 .. Len(ops) : ops[i].req = o.req => ops[i] = o
    /\ ops' = Append(ops, o)
    /\ UNCHANGED <<place, pins, result>>

Follow(p, n) ==
    /\ n <= place[p] + 1
    /\ place' = [place EXCEPT ![p] = n]
    /\ pins' = [pins EXCEPT ![p] = Outcome(n)]
    /\ UNCHANGED <<ops, result>>

Reply(r, res) ==
    /\ result[r] = "running"
    /\ res = "ok" => \E i \in 1 .. Len(ops) : ops[i].req = r
    /\ result' = [result EXCEPT ![r] = res]
    /\ UNCHANGED <<ops, place, pins>>

Init ==
    /\ ops = << >>
    /\ place = [p \in Peers |-> 0]
    /\ pins = [p \in Peers |-> Outcome(0)]
    /\ result = [r \in Requests |-> "none"]

Next ==
    \/ \E r \in Requests : Ask(r) \/ \E res \in {"ok", "err"} : Reply(r, res)
    \/ \E o \in Operations : Decide(o)
    \/ \E p \in Peers, n \in 0 .. Len(ops) : Follow(p, n)

Spec == Init /\ [][Next]_pvars
=============================================================================
