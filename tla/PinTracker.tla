----------------------------- MODULE PinTracker -----------------------------
(***************************************************************************)
(* MapPinTracker (map_pin_tracker.go) of one cluster peer, together with   *)
(* the part of IPFSHTTPConnector it drives (Pin, Unpin, PinLs, PinLsCid).  *)
(*                                                                         *)
(* The tracker keeps a status per Cid and two bounded channels, each read  *)
(* by one worker goroutine.  Track, Untrack, Sync, SyncAll and Recover run *)
(* in the goroutine of whoever called them.  The mutex is held for one     *)
(* get, set or setError only, so what is atomic here is exactly one of     *)
(* these, one channel operation, or one HTTP request to the daemon; every  *)
(* interleaving of them is a behaviour.                                    *)
(*                                                                         *)
(* A goroutine is (pc, op, arg, seen, todo): the next atomic step, the     *)
(* operation it runs, the Cid that step is about, the pin listing it got   *)
(* from the daemon and the Cids SyncAll has still to visit.  A pc named    *)
(* Set... is a write decided by an earlier read and not performed yet.     *)
(***************************************************************************)
EXTENDS Naturals, Sequences, FiniteSets

CONSTANTS
    Cids,         \* the Cids that may be tracked
    Peers, Self,  \* the cluster's peers, and the one this tracker belongs to
    Callers,      \* goroutines that call the tracker (RPC handlers)
    PinWorker, UnpinWorker,  \* the two goroutines NewMapPinTracker starts
    NoCid,        \* argument of a goroutine that has none
    PinQueueSize, \* capacity of pinCh and of unpinCh
    Faults,       \* TRUE: requests to the daemon may fail
    DriftKinds,   \* the pin kinds other users of the daemon may leave
    Calls,        \* the operations that are called
    Overlap       \* TRUE: calls about one Cid may overlap

Workers == {PinWorker, UnpinWorker}
Threads == Callers \cup Workers

ASSUME PinQueueSizeAssumption == PinQueueSize \in Nat \ {0}
ASSUME ThreadsAssumption == /\ PinWorker # UnpinWorker
                            /\ PinWorker \notin Callers
                            /\ UnpinWorker \notin Callers
ASSUME NoCidAssumption == NoCid \notin Cids
ASSUME SelfAssumption == Self \in Peers
ASSUME FlagsAssumption == {Faults, Overlap} \subseteq BOOLEAN

VARIABLES
    status,    \* mpt.status: a Cid that has no entry is "Unpinned"
    pinCh, unpinCh,
    ctxDone,   \* mpt.ctx was cancelled by Shutdown
    ipfs,      \* the kind of pin the daemon holds on each Cid
    pc, op, arg, seen, todo

chans == <<pinCh, unpinCh>>
thread == <<pc, op, arg, seen, todo>>
vars == <<status, pinCh, unpinCh, ctxDone, ipfs, pc, op, arg, seen, todo>>

TrackerStatus == {"Unpinned", "Unpinning", "UnpinError",
                  "Pinned", "Pinning", "PinError", "Remote"}
IPFSPinStatus == {"unpinned", "indirect", "direct", "recursive"}

ASSUME DriftAssumption == DriftKinds \subseteq IPFSPinStatus

(* What the callers pass to Track. *)
CidArg == [Cid : Cids, Everywhere : BOOLEAN, Allocations : SUBSET Peers]

Pcs == {"Idle", "Exited",
        "Send", "SendUnpin",                    \* between set and channel
        "Pin", "PinLs", "PinAdd",               \* pin()
        "UnpinLs", "PinRm",                     \* unpin()
        "StatusAll", "SyncNext", "SyncGet",     \* SyncAll(), syncStatus()
        "SetPinned", "SetUnpinned", "SetRemote", "SetError", "SetErrorAll"}
Ops == {"none", "Track", "TrackRemote", "Untrack", "Sync", "SyncAll",
        "Recover", "PinWorker", "UnpinWorker"}

-----------------------------------------------------------------------------
(* Pure parts of the code. *)

isRemote(c) == ~c.Everywhere /\ Self \notin c.Allocations

IsPinned(ips) == ips \in {"direct", "recursive"}

(* unsafeSetError: the error follows the direction of the current status;  *)
(* a remote Cid takes no error.                                            *)
errorOf_PinningKept(s) == IF s \in {"Pinned", "PinError"} THEN "PinError"
                          ELSE IF s \in {"Pinning", "Remote"} THEN s
                          ELSE "UnpinError"
errorOf_UnpinningKept(s) == IF s \in {"Unpinned", "UnpinError"} THEN "UnpinError"
                            ELSE IF s \in {"Unpinning", "Remote"} THEN s
                            ELSE "PinError"
errorOf_OneKind(s) == "PinError"
errorOf(s) == CASE s \in {"Pinned", "Pinning", "PinError"} -> "PinError"
                [] s \in {"Unpinned", "Unpinning", "UnpinError"} -> "UnpinError"
                [] OTHER -> s

(* syncStatus: the write chosen for a Cid found in status s when the       *)
(* daemon was seen (not) pinning it; "none" where nothing is written.  The *)
(* age of the entry is not modelled: a timeout may always have expired.    *)
syncWrites_IgnoresDaemon(s, isPinned) ==
    CASE s \in {"Pinning", "PinError"} -> {"SetPinned"}
      [] s \in {"Unpinning", "UnpinError"} -> {"SetUnpinned"}
      [] OTHER -> {"none"}
syncWrites(s, isPinned) ==
    IF isPinned
    THEN CASE s \in {"Pinning", "PinError"} -> {"SetPinned"}
           [] s = "Unpinning"               -> {"SetError", "none"}
           [] s = "Unpinned"                -> {"SetError"}
           [] OTHER                         -> {"none"}
    ELSE CASE s = "Pinned"                       -> {"SetError"}
           [] s = "Pinning"                      -> {"SetError", "none"}
           [] s \in {"Unpinning", "UnpinError"}  -> {"SetUnpinned"}
           [] OTHER                              -> {"none"}

(* The first step of Track on a remote Cid found in status s. *)
remoteStep(s) == IF s = "Pinned" THEN "UnpinLs" ELSE "SetRemote"

(* A send on a buffered channel would not block. *)
HasRoom_OffByOne(ch) == Len(ch) <= PinQueueSize
HasRoom(ch) == Len(ch) < PinQueueSize

-----------------------------------------------------------------------------
(* Moving a goroutine.                                                     *)

At(t, l, c) == pc[t] = l /\ arg[t] = c

Goto(t, l) == /\ pc' = [pc EXCEPT ![t] = l]
              /\ UNCHANGED <<op, arg, seen, todo>>

Return(t) == /\ pc' = [pc EXCEPT ![t] = "Idle"]
             /\ op' = [op EXCEPT ![t] = "none"]
             /\ arg' = [arg EXCEPT ![t] = NoCid]
             /\ seen' = [seen EXCEPT ![t] = {}]
             /\ todo' = [todo EXCEPT ![t] = {}]

(* A call of operation o on Cid c has reached step l having seen `listing'. *)
Enter(t, o, c, l, listing) ==
    /\ pc[t] = "Idle"
    /\ pc' = [pc EXCEPT ![t] = l]
    /\ op' = [op EXCEPT ![t] = o]
    /\ arg' = [arg EXCEPT ![t] = c]
    /\ seen' = [seen EXCEPT ![t] = listing]
    /\ UNCHANGED todo

(* After its write: SyncAll visits the next Cid, Track of a remote Cid goes *)
(* on from unpin() to set(Remote), every other call is over.               *)
Continue(t) ==
    CASE op[t] = "SyncAll" -> Goto(t, "SyncNext")
      [] op[t] = "TrackRemote" /\ pc[t] # "SetRemote" -> Goto(t, "SetRemote")
      [] OTHER -> Return(t)

Queued(ch, c) == \E i \in DOMAIN ch : ch[i] = c

(* No call about c is being served or queued. *)
Quiet(c) == /\ \A t \in Threads : arg[t] # c /\ op[t] # "SyncAll"
            /\ ~Queued(pinCh, c) /\ ~Queued(unpinCh, c)

MayCall(c) == Overlap \/ Quiet(c)

-----------------------------------------------------------------------------
(* The daemon, external: what a request may answer.                        *)

(* PinLsCid: a refused request reads as "not pinned", a lost one is an     *)
(* error.                                                                  *)
PinLsCid(c) == {IF IsPinned(ipfs[c]) THEN "pinned" ELSE "unpinned"}
               \cup (IF Faults THEN {"unpinned", "error"} ELSE {})

(* PinLs("recursive"): the Cids it lists. *)
PinLsRecursive == {c \in Cids : ipfs[c] = "recursive"}

(* A request that changes the pin of c to `to': done and answered, or,     *)
(* with faults, answered with an error after being done or not.            *)
Request(t, c, to, ok) ==
    \/ /\ ipfs' = [ipfs EXCEPT ![c] = to]
       /\ Goto(t, ok)
    \/ /\ Faults
       /\ \/ ipfs' = [ipfs EXCEPT ![c] = to]
          \/ UNCHANGED ipfs
       /\ Goto(t, "SetError")

(* Somebody else pins or unpins on the daemon. *)
DaemonDrifts ==
    /\ \E c \in Cids, ips \in DriftKinds : ipfs' = [ipfs EXCEPT ![c] = ips]
    /\ UNCHANGED <<status, chans, ctxDone, thread>>

-----------------------------------------------------------------------------
(* Steps of pin(), unpin() and the status writes, in any goroutine.        *)

set(c, s) == status' = [status EXCEPT ![c] = s]

Pin(t, c) ==
    /\ At(t, "Pin", c)
    /\ set(c, "Pinning")
    /\ Goto(t, "PinLs")
    /\ UNCHANGED <<chans, ctxDone, ipfs>>

PinLs(t, c) ==
    /\ At(t, "PinLs", c)
    /\ \E r \in PinLsCid(c) :
          Goto(t, CASE r = "pinned" -> "SetPinned"
                    [] r = "unpinned" -> "PinAdd"
                    [] r = "error" -> "SetError")
    /\ UNCHANGED <<status, chans, ctxDone, ipfs>>

PinAdd(t, c) ==
    /\ At(t, "PinAdd", c)
    /\ Request(t, c, "recursive", "SetPinned")
    /\ UNCHANGED <<status, chans, ctxDone>>

UnpinLs(t, c) ==
    /\ At(t, "UnpinLs", c)
    /\ \E r \in PinLsCid(c) :
          Goto(t, CASE r = "pinned" -> "PinRm"
                    [] r = "unpinned" -> "SetUnpinned"
                    [] r = "error" -> "SetError")
    /\ UNCHANGED <<status, chans, ctxDone, ipfs>>

(* The daemon refuses to remove a pin that is no longer there. *)
PinRm(t, c) ==
    /\ At(t, "PinRm", c)
    /\ \/ IsPinned(ipfs[c]) /\ Request(t, c, "unpinned", "SetUnpinned")
       \/ ~IsPinned(ipfs[c]) /\ Goto(t, "SetError") /\ UNCHANGED ipfs
    /\ UNCHANGED <<status, chans, ctxDone>>

SetPinned(t, c) ==
    /\ At(t, "SetPinned", c)
    /\ set(c, "Pinned")
    /\ Continue(t)
    /\ UNCHANGED <<chans, ctxDone, ipfs>>

SetUnpinned(t, c) ==
    /\ At(t, "SetUnpinned", c)
    /\ set(c, "Unpinned")
    /\ Continue(t)
    /\ UNCHANGED <<chans, ctxDone, ipfs>>

SetRemote(t, c) ==
    /\ At(t, "SetRemote", c)
    /\ set(c, "Remote")
    /\ Continue(t)
    /\ UNCHANGED <<chans, ctxDone, ipfs>>

SetError(t, c) ==
    /\ At(t, "SetError", c)
    /\ set(c, errorOf(status[c]))
    /\ Continue(t)
    /\ UNCHANGED <<chans, ctxDone, ipfs>>

-----------------------------------------------------------------------------
(* The workers.                                                            *)

PinWorkerRecv ==
    /\ pinCh # <<>>
    /\ Enter(PinWorker, "PinWorker", Head(pinCh), "Pin", {})
    /\ pinCh' = Tail(pinCh)
    /\ UNCHANGED <<status, unpinCh, ctxDone, ipfs>>

UnpinWorkerRecv ==
    /\ unpinCh # <<>>
    /\ Enter(UnpinWorker, "UnpinWorker", Head(unpinCh), "UnpinLs", {})
    /\ unpinCh' = Tail(unpinCh)
    /\ UNCHANGED <<status, pinCh, ctxDone, ipfs>>

WorkerExit_DrainsFirst(t) ==
    /\ ctxDone
    /\ t \in Workers
    /\ pc[t] = "Idle"
    /\ pinCh = <<>> /\ unpinCh = <<>>
    /\ Goto(t, "Exited")
    /\ UNCHANGED <<status, chans, ctxDone, ipfs>>

(* select has ctx.Done() ready: it may win over a queued Cid. *)
WorkerExit(t) ==
    /\ ctxDone
    /\ t \in Workers
    /\ pc[t] = "Idle"
    /\ Goto(t, "Exited")
    /\ UNCHANGED <<status, chans, ctxDone, ipfs>>

-----------------------------------------------------------------------------
(* The operations, up to and including their first atomic step.            *)

Track(t, c) ==
    /\ MayCall(c.Cid)
    /\ \/ /\ ~isRemote(c)
          /\ set(c.Cid, "Pinning")
          /\ Enter(t, "Track", c.Cid, "Send", {})
       \/ /\ isRemote(c)
          /\ Enter(t, "TrackRemote", c.Cid, remoteStep(status[c.Cid]), {})
          /\ UNCHANGED status
    /\ UNCHANGED <<chans, ctxDone, ipfs>>

(* A non-blocking send: a full channel turns into an error. *)
TrackSend(t, c) ==
    /\ At(t, "Send", c)
    /\ \/ /\ HasRoom(pinCh)
          /\ pinCh' = Append(pinCh, c)
          /\ Return(t)
       \/ /\ ~HasRoom(pinCh)
          /\ Goto(t, "SetError")
          /\ UNCHANGED pinCh
    /\ UNCHANGED <<status, unpinCh, ctxDone, ipfs>>

Untrack(t, c) ==
    /\ MayCall(c)
    /\ set(c, "Unpinning")
    /\ Enter(t, "Untrack", c, "SendUnpin", {})
    /\ UNCHANGED <<chans, ctxDone, ipfs>>

UntrackSend(t, c) ==
    /\ At(t, "SendUnpin", c)
    /\ \/ /\ HasRoom(unpinCh)
          /\ unpinCh' = Append(unpinCh, c)
          /\ Return(t)
       \/ /\ ~HasRoom(unpinCh)
          /\ Goto(t, "SetError")
          /\ UNCHANGED unpinCh
    /\ UNCHANGED <<status, pinCh, ctxDone, ipfs>>

Sync(t, c) ==
    /\ MayCall(c)
    /\ \E r \in PinLsCid(c) :
          Enter(t, "Sync", c, IF r = "error" THEN "SetError" ELSE "SyncGet",
                IF r = "pinned" THEN {c} ELSE {})
    /\ UNCHANGED <<status, chans, ctxDone, ipfs>>

(* syncStatus reads the status; its write, if any, is a later step. *)
SyncGet(t, c) ==
    /\ At(t, "SyncGet", c)
    /\ \E w \in syncWrites(status[c], c \in seen[t]) :
          IF w = "none" THEN Continue(t) ELSE Goto(t, w)
    /\ UNCHANGED <<status, chans, ctxDone, ipfs>>

SyncAll(t) ==
    /\ \A c \in Cids : MayCall(c)
    /\ \/ Enter(t, "SyncAll", NoCid, "StatusAll", PinLsRecursive)
       \/ Faults /\ Enter(t, "SyncAll", NoCid, "SetErrorAll", {})
    /\ UNCHANGED <<status, chans, ctxDone, ipfs>>

(* The daemon cannot be reached: one locked loop over every entry. *)
SetErrorAll(t) ==
    /\ pc[t] = "SetErrorAll"
    /\ status' = [c \in Cids |-> IF status[c] = "Unpinned" THEN "Unpinned"
                                 ELSE errorOf(status[c])]
    /\ Return(t)
    /\ UNCHANGED <<chans, ctxDone, ipfs>>

StatusAll(t) ==
    /\ pc[t] = "StatusAll"
    /\ todo' = [todo EXCEPT ![t] = {c \in Cids : status[c] # "Unpinned"}]
    /\ pc' = [pc EXCEPT ![t] = "SyncNext"]
    /\ UNCHANGED <<status, chans, ctxDone, ipfs, op, arg, seen>>

(* The next Cid of the snapshot, in the random order of a Go map. *)
SyncNext(t) ==
    /\ pc[t] = "SyncNext"
    /\ \/ todo[t] = {} /\ Return(t)
       \/ \E c \in todo[t] :
             /\ todo' = [todo EXCEPT ![t] = @ \ {c}]
             /\ arg' = [arg EXCEPT ![t] = c]
             /\ pc' = [pc EXCEPT ![t] = "SyncGet"]
             /\ UNCHANGED <<op, seen>>
    /\ UNCHANGED <<status, chans, ctxDone, ipfs>>

(* A Cid that is not in error is left alone. *)
Recover(t, c) ==
    /\ MayCall(c)
    /\ \/ status[c] = "PinError" /\ Enter(t, "Recover", c, "Pin", {})
       \/ status[c] = "UnpinError" /\ Enter(t, "Recover", c, "UnpinLs", {})
    /\ UNCHANGED <<status, chans, ctxDone, ipfs>>

(* Shutdown does not wait for the workers (nothing is added to mpt.wg) and *)
(* later calls are still served.                                           *)
Shutdown ==
    /\ ~ctxDone
    /\ ctxDone' = TRUE
    /\ UNCHANGED <<status, chans, ipfs, thread>>

-----------------------------------------------------------------------------
NewMapPinTracker ==
    /\ status = [c \in Cids |-> "Unpinned"]
    /\ pinCh = <<>>
    /\ unpinCh = <<>>
    /\ ctxDone = FALSE
    /\ pc = [t \in Threads |-> "Idle"]
    /\ op = [t \in Threads |-> "none"]
    /\ arg = [t \in Threads |-> NoCid]
    /\ seen = [t \in Threads |-> {}]
    /\ todo = [t \in Threads |-> {}]

(* The daemon may hold pins from an earlier run of the peer. *)
Init == /\ NewMapPinTracker
        /\ ipfs \in [Cids -> DriftKinds \cup {"unpinned"}]

Call(t) == \/ "Track" \in Calls /\ \E c \in CidArg : Track(t, c)
           \/ "Untrack" \in Calls /\ \E c \in Cids : Untrack(t, c)
           \/ "Sync" \in Calls /\ \E c \in Cids : Sync(t, c)
           \/ "SyncAll" \in Calls /\ SyncAll(t)
           \/ "Recover" \in Calls /\ \E c \in Cids : Recover(t, c)

(* A goroutine goes on with the call it is serving. *)
Step(t) ==
    \/ \E c \in Cids :
          \/ Pin(t, c) \/ PinLs(t, c) \/ PinAdd(t, c)
          \/ UnpinLs(t, c) \/ PinRm(t, c)
          \/ SetPinned(t, c) \/ SetUnpinned(t, c)
          \/ SetRemote(t, c) \/ SetError(t, c)
          \/ TrackSend(t, c) \/ UntrackSend(t, c)
          \/ SyncGet(t, c)
    \/ StatusAll(t) \/ SyncNext(t) \/ SetErrorAll(t)

Next == \/ \E t \in Callers : Call(t)
        \/ \E t \in Threads : Step(t)
        \/ PinWorkerRecv \/ UnpinWorkerRecv
        \/ \E t \in Workers : WorkerExit(t)
        \/ "Shutdown" \in Calls /\ Shutdown
        \/ DaemonDrifts

(* Every goroutine that can go on does (the daemon answers), and a worker  *)
(* that reaches its select with ctx.Done() ready again and again does not  *)
(* lose that choice for ever.                                              *)
Fairness == /\ \A t \in Threads : WF_vars(Step(t))
            /\ WF_vars(PinWorkerRecv) /\ WF_vars(UnpinWorkerRecv)
            /\ \A t \in Workers : SF_vars(WorkerExit(t))

Spec == Init /\ [][Next]_vars
FairSpec == Spec /\ Fairness

-----------------------------------------------------------------------------
(* Properties.                                                             *)

(* Every variable has its type and the channels respect their capacity.    *)
TypeOK ==
    /\ status \in [Cids -> TrackerStatus]
    /\ pinCh \in Seq(Cids) /\ Len(pinCh) <= PinQueueSize
    /\ unpinCh \in Seq(Cids) /\ Len(unpinCh) <= PinQueueSize
    /\ ctxDone \in BOOLEAN
    /\ ipfs \in [Cids -> IPFSPinStatus]
    /\ pc \in [Threads -> Pcs]
    /\ op \in [Threads -> Ops]
    /\ arg \in [Threads -> Cids \cup {NoCid}]
    /\ seen \in [Threads -> SUBSET Cids]
    /\ todo \in [Threads -> SUBSET Cids]

(* Goroutine t is still to write the outcome of a pin of c. *)
PinOwner(t, c) ==
    /\ arg[t] = c
    /\ op[t] \in {"Track", "PinWorker", "Recover"}
    /\ pc[t] \in {"Send", "Pin", "PinLs", "PinAdd", "SetPinned", "SetError"}

(* Goroutine t is still to write the outcome of an Untrack of c. *)
UnpinOwner(t, c) ==
    /\ arg[t] = c
    /\ op[t] \in {"Untrack", "UnpinWorker"}
    /\ pc[t] \in {"SendUnpin", "UnpinLs", "PinRm", "SetUnpinned", "SetError"}

(* No Cid is stuck in Pinning: whatever the interleaving of Track, the     *)
(* workers, Sync and Recover, a Cid shown as Pinning is in pinCh or has a  *)
(* goroutine that will still write the outcome of its pin.                 *)
PinningHasOwner ==
    \A c \in Cids :
        status[c] = "Pinning" =>
            Queued(pinCh, c) \/ \E t \in Threads : PinOwner(t, c)

(* No Cid is stuck in Unpinning: it is in unpinCh, or the goroutine that   *)
(* will write the outcome of its unpin is still running.                   *)
UnpinningHasOwner ==
    \A c \in Cids :
        status[c] = "Unpinning" =>
            Queued(unpinCh, c) \/ \E t \in Threads : UnpinOwner(t, c)

(* unsafeSetError never turns a Cid around: only a Cid that is (being)     *)
(* pinned gets a pin error, only one that is not pinned or being unpinned  *)
(* gets an unpin error, and a remote Cid gets none, even though setError   *)
(* runs after the status was read and may find it changed.                 *)
ErrorKeepsDirection ==
    [][\A c \in Cids :
          /\ status'[c] = "PinError" =>
                status[c] \in {"Pinned", "Pinning", "PinError"}
          /\ status'[c] = "UnpinError" =>
                status[c] \in {"Unpinned", "Unpinning", "UnpinError"}]_vars

(* api/types.go on TrackerStatusPinned: "The IPFS daemon has pinned the    *)
(* item", once no call about the Cid is being served.                      *)
PinnedMeansPinned ==
    \A c \in Cids : Quiet(c) /\ status[c] = "Pinned" => IsPinned(ipfs[c])

(* api/types.go on TrackerStatusUnpinned: "The IPFS daemon is not pinning  *)
(* the item", once no call about the Cid is being served.                  *)
UnpinnedMeansNotPinned ==
    \A c \in Cids : Quiet(c) /\ status[c] = "Unpinned" => ~IsPinned(ipfs[c])

(* A Cid does not stay in Pinning: the worker, or whoever runs pin(),      *)
(* takes it to another status, unless the tracker is shut down.            *)
PinningResolves ==
    \A c \in Cids : status[c] = "Pinning" ~> (status[c] # "Pinning" \/ ctxDone)

(* A Cid does not stay in Unpinning, unless the tracker is shut down.      *)
UnpinningResolves ==
    \A c \in Cids : status[c] = "Unpinning" ~> (status[c] # "Unpinning" \/ ctxDone)

(* Both workers end after Shutdown, however many calls keep arriving.      *)
WorkersExit == ctxDone ~> \A t \in Workers : pc[t] = "Exited"

=============================================================================
