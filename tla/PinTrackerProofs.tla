-------------------------- MODULE PinTrackerProofs --------------------------
(***************************************************************************)
(* Proofs about PinTracker for any set of Cids, any set of calling         *)
(* goroutines and any queue size: its types, the ownership of the          *)
(* transient statuses, the direction of errors, and statuses that agree    *)
(* with the daemon while calls about one Cid do not overlap.               *)
(***************************************************************************)
EXTENDS PinTracker, TLAPS

(* The types of what belongs to the goroutines. *)
ThreadTypes ==
    /\ pc \in [Threads -> Pcs]
    /\ op \in [Threads -> Ops]
    /\ arg \in [Threads -> Cids \cup {NoCid}]
    /\ seen \in [Threads -> SUBSET Cids]
    /\ todo \in [Threads -> SUBSET Cids]

(* Each way to move a goroutine keeps the types: first, entering a call. *)
LEMMA EnterTypes ==
    ASSUME ThreadTypes, NEW t \in Threads, NEW o \in Ops,
           NEW c \in Cids \cup {NoCid}, NEW l \in Pcs, NEW listing \in SUBSET Cids,
           Enter(t, o, c, l, listing)
    PROVE  ThreadTypes'
  BY DEF Enter, ThreadTypes

(* Going on to another step of the same call. *)
LEMMA GotoTypes ==
    ASSUME ThreadTypes, NEW t \in Threads, NEW l \in Pcs, Goto(t, l)
    PROVE  ThreadTypes'
  BY DEF Goto, ThreadTypes

(* Ending a call. *)
LEMMA ReturnTypes ==
    ASSUME ThreadTypes, NEW t \in Threads, Return(t)
    PROVE  ThreadTypes'
  BY DEF Return, ThreadTypes, Pcs, Ops

(* What may follow a status write. *)
LEMMA ContinueCases ==
    ASSUME NEW t, Continue(t)
    PROVE  Return(t) \/ Goto(t, "SyncNext") \/ Goto(t, "SetRemote")
  BY DEF Continue

(* Continue keeps the types. *)
LEMMA ContinueTypes ==
    ASSUME ThreadTypes, NEW t \in Threads, Continue(t)
    PROVE  ThreadTypes'
  BY ContinueCases, ReturnTypes, GotoTypes DEF Pcs

(* unsafeSetError writes a status, and never leaves Pinning or Unpinning. *)
LEMMA ErrorStatus ==
    ASSUME NEW s \in TrackerStatus
    PROVE  errorOf(s) \in TrackerStatus \ {"Pinning", "Unpinning"}
  BY DEF errorOf, TrackerStatus

(* A send that finds room respects the capacity of the channel. *)
LEMMA SendTypes ==
    ASSUME NEW ch \in Seq(Cids), NEW c \in Cids, HasRoom(ch)
    PROVE  Append(ch, c) \in Seq(Cids) /\ Len(Append(ch, c)) <= PinQueueSize
  BY PinQueueSizeAssumption DEF HasRoom

(* Every step keeps the types. *)
LEMMA TypeStep == TypeOK /\ [Next]_vars => TypeOK'
  <1> SUFFICES ASSUME TypeOK, [Next]_vars PROVE TypeOK'
    OBVIOUS
  <1>0. ThreadTypes
    BY DEF TypeOK, ThreadTypes
  <1> USE <1>0 DEF chans, thread
  <1>1. ASSUME NEW t \in Callers, NEW c \in CidArg, Track(t, c)
        PROVE  TypeOK'
    <2>1. c.Cid \in Cids /\ t \in Threads
      BY DEF CidArg, Threads
    <2>2. remoteStep(status[c.Cid]) \in Pcs /\ "Send" \in Pcs
      BY DEF remoteStep, Pcs
    <2>3. ThreadTypes'
      BY <1>1, <2>1, <2>2, EnterTypes DEF Track, Ops
    <2> QED BY <1>1, <2>1, <2>3
            DEF Track, set, TypeOK, ThreadTypes, TrackerStatus
  <1>2. ASSUME NEW t \in Callers, NEW c \in Cids, Untrack(t, c)
        PROVE  TypeOK'
    <2>1. ThreadTypes'
      BY <1>2, EnterTypes DEF Untrack, Ops, Pcs, Threads
    <2> QED BY <1>2, <2>1 DEF Untrack, set, TypeOK, ThreadTypes, TrackerStatus
  <1>3. ASSUME NEW t \in Callers, NEW c \in Cids, Sync(t, c)
        PROVE  TypeOK'
    <2>1. PICK r \in PinLsCid(c) :
             Enter(t, "Sync", c, IF r = "error" THEN "SetError" ELSE "SyncGet",
                   IF r = "pinned" THEN {c} ELSE {})
      BY <1>3 DEF Sync
    <2>2. ThreadTypes'
      BY <2>1, EnterTypes DEF Ops, Pcs, Threads
    <2> QED BY <1>3, <2>2 DEF Sync, TypeOK, ThreadTypes
  <1>4. ASSUME NEW t \in Callers, SyncAll(t)
        PROVE  TypeOK'
    <2>1. ThreadTypes'
      BY <1>4, EnterTypes DEF SyncAll, PinLsRecursive, Ops, Pcs, Threads
    <2> QED BY <1>4, <2>1 DEF SyncAll, TypeOK, ThreadTypes
  <1>5. ASSUME NEW t \in Callers, NEW c \in Cids, Recover(t, c)
        PROVE  TypeOK'
    <2>1. ThreadTypes'
      BY <1>5, EnterTypes DEF Recover, Ops, Pcs, Threads
    <2> QED BY <1>5, <2>1 DEF Recover, TypeOK, ThreadTypes
  <1>6. ASSUME NEW t \in Threads, NEW c \in Cids, Pin(t, c)
        PROVE  TypeOK'
    BY <1>6, GotoTypes DEF Pin, set, TypeOK, ThreadTypes, Pcs, TrackerStatus
  <1>7. ASSUME NEW t \in Threads, NEW c \in Cids, PinLs(t, c) \/ UnpinLs(t, c)
        PROVE  TypeOK'
    <2>1. ThreadTypes'
      BY <1>7, GotoTypes DEF PinLs, UnpinLs, PinLsCid, Pcs
    <2> QED BY <1>7, <2>1 DEF PinLs, UnpinLs, TypeOK, ThreadTypes
  <1>8. ASSUME NEW t \in Threads, NEW c \in Cids, PinAdd(t, c) \/ PinRm(t, c)
        PROVE  TypeOK'
    <2>1. ThreadTypes'
      BY <1>8, GotoTypes DEF PinAdd, PinRm, Request, Pcs
    <2>2. ipfs' \in [Cids -> IPFSPinStatus]
      BY <1>8 DEF PinAdd, PinRm, Request, TypeOK, IPFSPinStatus
    <2> QED BY <1>8, <2>1, <2>2 DEF PinAdd, PinRm, TypeOK, ThreadTypes
  <1>9. ASSUME NEW t \in Threads, NEW c \in Cids,
               SetPinned(t, c) \/ SetUnpinned(t, c) \/ SetRemote(t, c)
        PROVE  TypeOK'
    BY <1>9, ContinueTypes DEF SetPinned, SetUnpinned, SetRemote, set, TypeOK,
       ThreadTypes, TrackerStatus
  <1>10. ASSUME NEW t \in Threads, NEW c \in Cids, SetError(t, c)
         PROVE  TypeOK'
    BY <1>10, ContinueTypes, ErrorStatus DEF SetError, set, TypeOK, ThreadTypes
  <1>11. ASSUME NEW t \in Threads, NEW c \in Cids, TrackSend(t, c)
         PROVE  TypeOK'
    <2>1. ThreadTypes'
      BY <1>11, ReturnTypes, GotoTypes DEF TrackSend, Pcs
    <2>2. pinCh' \in Seq(Cids) /\ Len(pinCh') <= PinQueueSize
      BY <1>11, SendTypes DEF TrackSend, TypeOK
    <2> QED BY <1>11, <2>1, <2>2 DEF TrackSend, TypeOK, ThreadTypes
  <1>12. ASSUME NEW t \in Threads, NEW c \in Cids, UntrackSend(t, c)
         PROVE  TypeOK'
    <2>1. ThreadTypes'
      BY <1>12, ReturnTypes, GotoTypes DEF UntrackSend, Pcs
    <2>2. unpinCh' \in Seq(Cids) /\ Len(unpinCh') <= PinQueueSize
      BY <1>12, SendTypes DEF UntrackSend, TypeOK
    <2> QED BY <1>12, <2>1, <2>2 DEF UntrackSend, TypeOK, ThreadTypes
  <1>13. ASSUME NEW t \in Threads, NEW c \in Cids, SyncGet(t, c)
         PROVE  TypeOK'
    <2>1. ThreadTypes'
      BY <1>13, ContinueTypes, GotoTypes DEF SyncGet, syncWrites, Pcs
    <2> QED BY <1>13, <2>1 DEF SyncGet, TypeOK, ThreadTypes
  <1>14. ASSUME NEW t \in Threads, StatusAll(t)
         PROVE  TypeOK'
    BY <1>14 DEF StatusAll, TypeOK, Pcs
  <1>15. ASSUME NEW t \in Threads, SyncNext(t)
         PROVE  TypeOK'
    <2>1. CASE Return(t)
      BY <1>15, <2>1, ReturnTypes DEF SyncNext, TypeOK, ThreadTypes
    <2>2. ASSUME NEW c \in todo[t],
                 todo' = [todo EXCEPT ![t] = @ \ {c}],
                 arg' = [arg EXCEPT ![t] = c],
                 pc' = [pc EXCEPT ![t] = "SyncGet"],
                 UNCHANGED <<op, seen>>
          PROVE  TypeOK'
      BY <1>15, <2>2 DEF SyncNext, TypeOK, Pcs
    <2> QED BY <1>15, <2>1, <2>2 DEF SyncNext
  <1>16. ASSUME NEW t \in Threads, SetErrorAll(t)
         PROVE  TypeOK'
    <2>1. status' \in [Cids -> TrackerStatus]
      BY <1>16, ErrorStatus DEF SetErrorAll, TypeOK
    <2> QED BY <1>16, <2>1, ReturnTypes DEF SetErrorAll, TypeOK, ThreadTypes
  <1>17. CASE PinWorkerRecv
    <2>1. /\ Head(pinCh) \in Cids /\ Tail(pinCh) \in Seq(Cids)
          /\ Len(Tail(pinCh)) <= PinQueueSize
      BY <1>17, PinQueueSizeAssumption DEF PinWorkerRecv, TypeOK
    <2>2. ThreadTypes'
      <3>1. /\ PinWorker \in Threads /\ "PinWorker" \in Ops /\ "Pin" \in Pcs
            /\ Head(pinCh) \in Cids \cup {NoCid} /\ {} \in SUBSET Cids
        BY <2>1 DEF Threads, Workers, Ops, Pcs
      <3>2. Enter(PinWorker, "PinWorker", Head(pinCh), "Pin", {})
        BY <1>17 DEF PinWorkerRecv
      <3> QED BY <3>1, <3>2, EnterTypes
    <2> QED BY <1>17, <2>1, <2>2 DEF PinWorkerRecv, TypeOK, ThreadTypes
  <1>18. CASE UnpinWorkerRecv
    <2>1. /\ Head(unpinCh) \in Cids /\ Tail(unpinCh) \in Seq(Cids)
          /\ Len(Tail(unpinCh)) <= PinQueueSize
      BY <1>18, PinQueueSizeAssumption DEF UnpinWorkerRecv, TypeOK
    <2>2. ThreadTypes'
      <3>1. /\ UnpinWorker \in Threads /\ "UnpinWorker" \in Ops /\ "UnpinLs" \in Pcs
            /\ Head(unpinCh) \in Cids \cup {NoCid} /\ {} \in SUBSET Cids
        BY <2>1 DEF Threads, Workers, Ops, Pcs
      <3>2. Enter(UnpinWorker, "UnpinWorker", Head(unpinCh), "UnpinLs", {})
        BY <1>18 DEF UnpinWorkerRecv
      <3> QED BY <3>1, <3>2, EnterTypes
    <2> QED BY <1>18, <2>1, <2>2 DEF UnpinWorkerRecv, TypeOK, ThreadTypes
  <1>19. ASSUME NEW t \in Workers, WorkerExit(t)
         PROVE  TypeOK'
    BY <1>19, GotoTypes DEF WorkerExit, Threads, TypeOK, ThreadTypes, Pcs
  <1>20. CASE Shutdown
    BY <1>20 DEF Shutdown, TypeOK
  <1>21. CASE DaemonDrifts
    BY <1>21, DriftAssumption DEF DaemonDrifts, TypeOK
  <1>22. CASE UNCHANGED vars
    BY <1>22 DEF vars, TypeOK
  <1> QED
    BY <1>1, <1>2, <1>3, <1>4, <1>5, <1>6, <1>7, <1>8, <1>9, <1>10, <1>11,
       <1>12, <1>13, <1>14, <1>15, <1>16, <1>17, <1>18, <1>19, <1>20, <1>21,
       <1>22
       DEF Next, Call, Step

(* Every variable of the tracker keeps its type and neither channel ever   *)
(* holds more than PinQueueSize Cids.                                      *)
THEOREM TypeCorrect == Spec => []TypeOK
  <1>1. Init => TypeOK
    <2> SUFFICES ASSUME Init PROVE TypeOK
      OBVIOUS
    <2>1. /\ status \in [Cids -> TrackerStatus]
          /\ ipfs \in [Cids -> IPFSPinStatus]
      BY DriftAssumption DEF Init, NewMapPinTracker, TrackerStatus, IPFSPinStatus
    <2>2. /\ pinCh \in Seq(Cids) /\ Len(pinCh) <= PinQueueSize
          /\ unpinCh \in Seq(Cids) /\ Len(unpinCh) <= PinQueueSize
      BY PinQueueSizeAssumption DEF Init, NewMapPinTracker
    <2>3. ThreadTypes
      BY DEF Init, NewMapPinTracker, ThreadTypes, Pcs, Ops
    <2>4. ctxDone \in BOOLEAN
      BY DEF Init, NewMapPinTracker
    <2> QED BY <2>1, <2>2, <2>3, <2>4 DEF TypeOK, ThreadTypes
  <1> QED BY <1>1, TypeStep, PTL DEF Spec

-----------------------------------------------------------------------------
(* Ownership of the transient statuses.                                    *)

Others(t) == \A u \in Threads \ {t} :
                pc'[u] = pc[u] /\ op'[u] = op[u] /\ arg'[u] = arg[u]

(* A goroutine moves only itself. *)
LEMMA MovesOne ==
    ASSUME ThreadTypes, NEW t \in Threads, NEW l, NEW o, NEW c, NEW listing,
           \/ Goto(t, l)
           \/ Return(t)
           \/ Continue(t)
           \/ Enter(t, o, c, l, listing)
    PROVE  Others(t)
  <1>1. CASE Goto(t, l)
    BY <1>1 DEF Goto, Others, ThreadTypes
  <1>2. CASE Return(t)
    BY <1>2 DEF Return, Others, ThreadTypes
  <1>3. CASE Continue(t)
    BY <1>3, ContinueCases DEF Goto, Return, Others, ThreadTypes
  <1>4. CASE Enter(t, o, c, l, listing)
    BY <1>4 DEF Enter, Others, ThreadTypes
  <1> QED BY <1>1, <1>2, <1>3, <1>4

PinOwned(d) == Queued(pinCh, d) \/ \E t \in Threads : PinOwner(t, d)
UnpinOwned(d) == Queued(unpinCh, d) \/ \E t \in Threads : UnpinOwner(t, d)

(* A Cid keeps its owner in a step of goroutine t unless t was the owner   *)
(* and stops being it.                                                     *)
LEMMA PinKept ==
    ASSUME NEW t \in Threads, NEW d, PinOwned(d), Others(t),
           Queued(pinCh, d) => Queued(pinCh', d),
           PinOwner(t, d) => PinOwned(d)'
    PROVE  PinOwned(d)'
  BY DEF PinOwned, PinOwner, Others

(* The same for an unpin. *)
LEMMA UnpinKept ==
    ASSUME NEW t \in Threads, NEW d, UnpinOwned(d), Others(t),
           Queued(unpinCh, d) => Queued(unpinCh', d),
           UnpinOwner(t, d) => UnpinOwned(d)'
    PROVE  UnpinOwned(d)'
  BY DEF UnpinOwned, UnpinOwner, Others

(* Sending keeps what is queued and adds the Cid. *)
LEMMA QueuedAppend ==
    ASSUME NEW ch \in Seq(Cids), NEW c \in Cids, NEW d
    PROVE  /\ Queued(ch, d) => Queued(Append(ch, c), d)
           /\ Queued(Append(ch, c), c)
  <1>1. /\ Len(Append(ch, c)) = Len(ch) + 1
        /\ \A i \in 1 .. Len(ch) : Append(ch, c)[i] = ch[i]
        /\ Append(ch, c)[Len(ch) + 1] = c
        /\ DOMAIN ch = 1 .. Len(ch)
        /\ DOMAIN Append(ch, c) = 1 .. Len(ch) + 1
        /\ Len(ch) \in Nat
    OBVIOUS
  <1>2. ASSUME NEW i \in DOMAIN ch, ch[i] = d PROVE Queued(Append(ch, c), d)
    <2>1. i \in DOMAIN Append(ch, c) /\ Append(ch, c)[i] = d
      BY <1>1, <1>2
    <2> QED BY <2>1 DEF Queued
  <1>3. Queued(Append(ch, c), c)
    <2>1. Len(ch) + 1 \in DOMAIN Append(ch, c)
      BY <1>1
    <2> QED BY <1>1, <2>1 DEF Queued
  <1> QED BY <1>2, <1>3 DEF Queued

(* Receiving takes the head and leaves the rest queued. *)
LEMMA QueuedTail ==
    ASSUME NEW ch \in Seq(Cids), ch # <<>>, NEW d, Queued(ch, d), d # Head(ch)
    PROVE  Queued(Tail(ch), d)
  <1>1. PICK i \in DOMAIN ch : ch[i] = d
    BY DEF Queued
  <1>2. /\ Head(ch) = ch[1] /\ Len(ch) \in Nat \ {0}
        /\ DOMAIN ch = 1 .. Len(ch)
        /\ DOMAIN Tail(ch) = 1 .. Len(ch) - 1
        /\ \A k \in 1 .. Len(ch) - 1 : Tail(ch)[k] = ch[k + 1]
    OBVIOUS
  <1>3. i # 1
    BY <1>1, <1>2
  <1>4. i - 1 \in 1 .. Len(ch) - 1
    BY <1>1, <1>2, <1>3
  <1>5. i - 1 \in DOMAIN Tail(ch) /\ Tail(ch)[i - 1] = d
    BY <1>1, <1>2, <1>4
  <1> QED BY <1>5 DEF Queued

(* pin() runs in the pin worker or in Recover. *)
PinRunners == \A t \in Threads :
                 pc[t] = "Pin" => op[t] \in {"PinWorker", "Recover"}

(* Every step keeps it so. *)
LEMMA PinRunnersStep == TypeOK /\ PinRunners /\ [Next]_vars => PinRunners'
  <1> SUFFICES ASSUME TypeOK, PinRunners, [Next]_vars,
                      NEW u \in Threads, pc'[u] = "Pin"
               PROVE  op'[u] \in {"PinWorker", "Recover"}
    BY DEF PinRunners
  <1>0. ThreadTypes
    BY DEF TypeOK, ThreadTypes
  <1>1. ASSUME pc[u] = "Pin", op'[u] = op[u]
        PROVE  op'[u] \in {"PinWorker", "Recover"}
    BY <1>1 DEF PinRunners
  <1> USE <1>0 DEF thread
  <1>2. ASSUME NEW t \in Callers, Call(t)
        PROVE  op'[u] \in {"PinWorker", "Recover"}
    <2>1. t \in Threads
      BY DEF Threads
    <2>2. CASE u = t
      BY <1>2, <2>1, <2>2 DEF Call, Track, Untrack, Sync, SyncAll, Recover,
         Enter, remoteStep, ThreadTypes
    <2>3. CASE u # t
      <3>1. Others(t)
        BY <1>2, <2>1, MovesOne DEF Call, Track, Untrack, Sync, SyncAll, Recover
      <3> QED BY <1>1, <2>3, <3>1 DEF Others
    <2> QED BY <2>2, <2>3
  <1>3. ASSUME NEW t \in Threads, Step(t)
        PROVE  op'[u] \in {"PinWorker", "Recover"}
    <2>1. CASE StatusAll(t) \/ SyncNext(t)
      BY <1>1, <2>1 DEF StatusAll, SyncNext, Return, ThreadTypes
    <2>2. CASE SetErrorAll(t)
      BY <1>1, <2>2 DEF SetErrorAll, Return, ThreadTypes
    <2>3. ASSUME NEW c \in Cids, TrackSend(t, c) \/ UntrackSend(t, c)
          PROVE  op'[u] \in {"PinWorker", "Recover"}
      BY <1>1, <2>3 DEF TrackSend, UntrackSend, Return, Goto, ThreadTypes
    <2>4. ASSUME NEW c \in Cids,
                 \/ SetPinned(t, c) \/ SetUnpinned(t, c)
                 \/ SetRemote(t, c) \/ SetError(t, c)
          PROVE  op'[u] \in {"PinWorker", "Recover"}
      <3>1. Return(t) \/ Goto(t, "SyncNext") \/ Goto(t, "SetRemote")
        BY <2>4, ContinueCases DEF SetPinned, SetUnpinned, SetRemote, SetError
      <3> QED BY <1>1, <3>1 DEF Return, Goto, ThreadTypes
    <2>5. ASSUME NEW c \in Cids,
                 \/ Pin(t, c) \/ PinLs(t, c) \/ PinAdd(t, c)
                 \/ UnpinLs(t, c) \/ PinRm(t, c)
          PROVE  op'[u] \in {"PinWorker", "Recover"}
      <3>1. \E l \in Pcs \ {"Pin"} : Goto(t, l)
        BY <2>5 DEF Pin, PinLs, PinAdd, UnpinLs, PinRm, PinLsCid, Request, Pcs
      <3> QED BY <1>1, <3>1 DEF Goto, ThreadTypes
    <2>6. ASSUME NEW c \in Cids, SyncGet(t, c)
          PROVE  op'[u] \in {"PinWorker", "Recover"}
      <3>1. PICK w \in syncWrites(status[c], c \in seen[t]) :
               IF w = "none" THEN Continue(t) ELSE Goto(t, w)
        BY <2>6 DEF SyncGet
      <3>2. w # "Pin"
        BY <3>1 DEF syncWrites
      <3>3. CASE w # "none"
        BY <1>1, <3>1, <3>2, <3>3 DEF Goto, ThreadTypes
      <3>4. CASE w = "none"
        BY <1>1, <3>1, <3>4, ContinueCases DEF Return, Goto, ThreadTypes
      <3> QED BY <3>3, <3>4
    <2> QED BY <1>3, <2>1, <2>2, <2>3, <2>4, <2>5, <2>6 DEF Step
  <1>4. CASE PinWorkerRecv
    BY <1>1, <1>4 DEF PinWorkerRecv, Enter, ThreadTypes
  <1>5. CASE UnpinWorkerRecv
    BY <1>1, <1>5 DEF UnpinWorkerRecv, Enter, ThreadTypes
  <1>6. ASSUME NEW t \in Workers, WorkerExit(t)
        PROVE  op'[u] \in {"PinWorker", "Recover"}
    BY <1>1, <1>6 DEF WorkerExit, Goto, ThreadTypes
  <1>7. CASE Shutdown \/ DaemonDrifts \/ UNCHANGED vars
    BY <1>1, <1>7 DEF Shutdown, DaemonDrifts, vars
  <1> QED BY <1>2, <1>3, <1>4, <1>5, <1>6, <1>7 DEF Next

(* Every step keeps an owner for each Cid in Pinning. *)
LEMMA PinningStep ==
    TypeOK /\ PinRunners /\ PinningHasOwner /\ [Next]_vars => PinningHasOwner'
  <1> SUFFICES ASSUME TypeOK, PinRunners, PinningHasOwner, [Next]_vars,
                      NEW d \in Cids, status'[d] = "Pinning"
               PROVE  PinOwned(d)'
    BY DEF PinningHasOwner, PinOwned
  <1>0. ThreadTypes /\ (status[d] = "Pinning" => PinOwned(d))
    BY DEF TypeOK, ThreadTypes, PinningHasOwner, PinOwned
  <1> USE <1>0 DEF chans, thread
  <1>1. ASSUME NEW t \in Callers, NEW c \in CidArg, Track(t, c)
        PROVE  PinOwned(d)'
    <2>1. t \in Threads /\ c.Cid \in Cids /\ ~PinOwner(t, d)
      BY <1>1 DEF Threads, CidArg, Track, Enter, PinOwner
    <2>2. Others(t) /\ pinCh' = pinCh
      BY <1>1, <2>1, MovesOne DEF Track
    <2>3. CASE status[d] = "Pinning"
      BY <2>1, <2>2, <2>3, PinKept
    <2>4. CASE status[d] # "Pinning"
      <3>1. PinOwner(t, d)'
        BY <1>1, <2>1, <2>4
           DEF Track, set, Enter, PinOwner, TypeOK, ThreadTypes
      <3> QED BY <2>1, <3>1 DEF PinOwned
    <2> QED BY <2>3, <2>4
  <1>2. ASSUME NEW t \in Callers, NEW c \in Cids,
               Untrack(t, c) \/ Sync(t, c) \/ Recover(t, c)
        PROVE  PinOwned(d)'
    <2>1. /\ t \in Threads /\ ~PinOwner(t, d) /\ status[d] = "Pinning"
          /\ pinCh' = pinCh
      BY <1>2 DEF Threads, Untrack, Sync, Recover, Enter, set, PinOwner, TypeOK
    <2>2. Others(t)
      BY <1>2, <2>1, MovesOne DEF Untrack, Sync, Recover
    <2> QED BY <2>1, <2>2, PinKept
  <1>3. ASSUME NEW t \in Callers, SyncAll(t)
        PROVE  PinOwned(d)'
    <2>1. /\ t \in Threads /\ ~PinOwner(t, d) /\ status[d] = "Pinning"
          /\ pinCh' = pinCh
      BY <1>3 DEF Threads, SyncAll, Enter, PinOwner
    <2>2. Others(t)
      BY <1>3, <2>1, MovesOne DEF SyncAll
    <2> QED BY <2>1, <2>2, PinKept
  <1>4. ASSUME NEW t \in Threads, NEW c \in Cids, Pin(t, c)
        PROVE  PinOwned(d)'
    <2>1. Others(t) /\ pinCh' = pinCh
      BY <1>4, MovesOne DEF Pin
    <2>2. PinOwner(t, c)'
      BY <1>4 DEF Pin, At, Goto, PinOwner, PinRunners, ThreadTypes
    <2>3. CASE d = c
      BY <2>2, <2>3 DEF PinOwned
    <2>4. CASE d # c
      <3>1. status[d] = "Pinning" /\ ~PinOwner(t, d)
        BY <1>4, <2>4 DEF Pin, At, set, PinOwner, TypeOK
      <3> QED BY <2>1, <3>1, PinKept
    <2> QED BY <2>3, <2>4
  <1>5. ASSUME NEW t \in Threads, NEW c \in Cids, PinLs(t, c) \/ PinAdd(t, c)
        PROVE  PinOwned(d)'
    <2>1. status[d] = "Pinning" /\ pinCh' = pinCh
      BY <1>5 DEF PinLs, PinAdd
    <2>2. PICK l \in {"PinAdd", "SetPinned", "SetError"} : Goto(t, l)
      BY <1>5 DEF PinLs, PinLsCid, PinAdd, Request
    <2>3. Others(t)
      BY <2>2, MovesOne
    <2>4. PinOwner(t, d) => PinOwner(t, d)'
      BY <2>2 DEF Goto, PinOwner, ThreadTypes
    <2> QED BY <2>1, <2>3, <2>4, PinKept DEF PinOwned
  <1>6. ASSUME NEW t \in Threads, NEW c \in Cids, UnpinLs(t, c) \/ PinRm(t, c)
        PROVE  PinOwned(d)'
    <2>1. status[d] = "Pinning" /\ pinCh' = pinCh /\ ~PinOwner(t, d)
      BY <1>6 DEF UnpinLs, PinRm, At, PinOwner
    <2>2. Others(t)
      BY <1>6, MovesOne DEF UnpinLs, PinRm, Request
    <2> QED BY <2>1, <2>2, PinKept
  <1>7. ASSUME NEW t \in Threads, NEW c \in Cids,
               \/ SetPinned(t, c) \/ SetUnpinned(t, c)
               \/ SetRemote(t, c) \/ SetError(t, c)
        PROVE  PinOwned(d)'
    <2>1. Others(t) /\ pinCh' = pinCh /\ arg[t] = c
      BY <1>7, MovesOne DEF SetPinned, SetUnpinned, SetRemote, SetError, At
    <2>2. status'[c] # "Pinning"
      BY <1>7, ErrorStatus
         DEF SetPinned, SetUnpinned, SetRemote, SetError, set, TypeOK
    <2>3. status[d] = "Pinning" /\ ~PinOwner(t, d)
      BY <1>7, <2>1, <2>2 DEF SetPinned, SetUnpinned, SetRemote, SetError, set,
         PinOwner, TypeOK
    <2> QED BY <2>1, <2>3, PinKept
  <1>8. ASSUME NEW t \in Threads, NEW c \in Cids, TrackSend(t, c)
        PROVE  PinOwned(d)'
    <2>1. status[d] = "Pinning" /\ Others(t) /\ arg[t] = c
      BY <1>8, MovesOne DEF TrackSend, At
    <2>2. CASE pinCh' = Append(pinCh, c)
      <3>1. /\ Queued(pinCh, d) => Queued(pinCh', d)
            /\ Queued(pinCh', c)
        BY <2>2, QueuedAppend DEF TypeOK
      <3>2. PinOwner(t, d) => PinOwned(d)'
        BY <2>1, <3>1 DEF PinOwner, PinOwned
      <3> QED BY <2>1, <3>1, <3>2, PinKept
    <2>3. CASE pinCh' = pinCh /\ Goto(t, "SetError")
      <3>1. PinOwner(t, d) => PinOwner(t, d)'
        BY <2>3 DEF Goto, PinOwner, ThreadTypes
      <3> QED BY <2>1, <2>3, <3>1, PinKept DEF PinOwned
    <2> QED BY <1>8, <2>2, <2>3 DEF TrackSend
  <1>9. ASSUME NEW t \in Threads, NEW c \in Cids, UntrackSend(t, c)
        PROVE  PinOwned(d)'
    <2>1. status[d] = "Pinning" /\ pinCh' = pinCh /\ ~PinOwner(t, d)
      BY <1>9 DEF UntrackSend, At, PinOwner
    <2>2. Others(t)
      BY <1>9, MovesOne DEF UntrackSend
    <2> QED BY <2>1, <2>2, PinKept
  <1>10. ASSUME NEW t \in Threads, NEW c \in Cids, SyncGet(t, c)
         PROVE  PinOwned(d)'
    <2>1. status[d] = "Pinning" /\ pinCh' = pinCh /\ ~PinOwner(t, d)
      BY <1>10 DEF SyncGet, At, PinOwner
    <2>2. Others(t)
      BY <1>10, MovesOne DEF SyncGet
    <2> QED BY <2>1, <2>2, PinKept
  <1>11. ASSUME NEW t \in Threads, StatusAll(t) \/ SyncNext(t)
         PROVE  PinOwned(d)'
    <2>1. status[d] = "Pinning" /\ pinCh' = pinCh /\ ~PinOwner(t, d)
      BY <1>11 DEF StatusAll, SyncNext, PinOwner
    <2>2. Others(t)
      BY <1>11, MovesOne DEF StatusAll, SyncNext, Others, ThreadTypes
    <2> QED BY <2>1, <2>2, PinKept
  <1>12. ASSUME NEW t \in Threads, SetErrorAll(t)
         PROVE  PinOwned(d)'
    <2>1. status'[d] # "Pinning"
      BY <1>12, ErrorStatus DEF SetErrorAll, TypeOK
    <2> QED BY <2>1
  <1>13. CASE PinWorkerRecv
    <2>1. /\ PinWorker \in Threads /\ status[d] = "Pinning"
          /\ ~PinOwner(PinWorker, d)
      BY <1>13 DEF PinWorkerRecv, Enter, PinOwner, Threads, Workers
    <2>2. Others(PinWorker)
      BY <1>13, <2>1, MovesOne DEF PinWorkerRecv
    <2>3. CASE d = Head(pinCh)
      <3>1. PinOwner(PinWorker, d)'
        BY <1>13, <2>1, <2>3 DEF PinWorkerRecv, Enter, PinOwner, ThreadTypes
      <3> QED BY <2>1, <3>1 DEF PinOwned
    <2>4. CASE d # Head(pinCh)
      <3>1. Queued(pinCh, d) => Queued(pinCh', d)
        BY <1>13, <2>4, QueuedTail DEF PinWorkerRecv, TypeOK
      <3> QED BY <2>1, <2>2, <3>1, PinKept
    <2> QED BY <2>3, <2>4
  <1>14. CASE UnpinWorkerRecv
    <2>1. /\ UnpinWorker \in Threads /\ status[d] = "Pinning"
          /\ pinCh' = pinCh /\ ~PinOwner(UnpinWorker, d)
      BY <1>14 DEF UnpinWorkerRecv, Enter, PinOwner, Threads, Workers
    <2>2. Others(UnpinWorker)
      BY <1>14, <2>1, MovesOne DEF UnpinWorkerRecv
    <2> QED BY <2>1, <2>2, PinKept
  <1>15. ASSUME NEW t \in Workers, WorkerExit(t)
         PROVE  PinOwned(d)'
    <2>1. /\ t \in Threads /\ status[d] = "Pinning" /\ pinCh' = pinCh
          /\ ~PinOwner(t, d)
      BY <1>15 DEF WorkerExit, PinOwner, Threads
    <2>2. Others(t)
      BY <1>15, <2>1, MovesOne DEF WorkerExit
    <2> QED BY <2>1, <2>2, PinKept
  <1>16. CASE Shutdown \/ DaemonDrifts \/ UNCHANGED vars
    BY <1>16 DEF Shutdown, DaemonDrifts, vars, PinOwned, PinOwner
  <1> QED
    BY <1>1, <1>2, <1>3, <1>4, <1>5, <1>6, <1>7, <1>8, <1>9, <1>10, <1>11,
       <1>12, <1>13, <1>14, <1>15, <1>16
       DEF Next, Call, Step

(* Every step keeps an owner for each Cid in Unpinning. *)
LEMMA UnpinningStep ==
    TypeOK /\ UnpinningHasOwner /\ [Next]_vars => UnpinningHasOwner'
  <1> SUFFICES ASSUME TypeOK, UnpinningHasOwner, [Next]_vars,
                      NEW d \in Cids, status'[d] = "Unpinning"
               PROVE  UnpinOwned(d)'
    BY DEF UnpinningHasOwner, UnpinOwned
  <1>0. ThreadTypes /\ (status[d] = "Unpinning" => UnpinOwned(d))
    BY DEF TypeOK, ThreadTypes, UnpinningHasOwner, UnpinOwned
  <1> USE <1>0 DEF chans, thread
  <1>1. ASSUME NEW t \in Callers, NEW c \in CidArg, Track(t, c)
        PROVE  UnpinOwned(d)'
    <2>1. /\ t \in Threads /\ c.Cid \in Cids /\ ~UnpinOwner(t, d)
          /\ unpinCh' = unpinCh
      BY <1>1 DEF Threads, CidArg, Track, Enter, UnpinOwner
    <2>2. status[d] = "Unpinning"
      BY <1>1, <2>1 DEF Track, set, TypeOK
    <2>3. Others(t)
      BY <1>1, <2>1, MovesOne DEF Track
    <2> QED BY <2>1, <2>2, <2>3, UnpinKept
  <1>2. ASSUME NEW t \in Callers, NEW c \in Cids, Untrack(t, c)
        PROVE  UnpinOwned(d)'
    <2>1. t \in Threads /\ ~UnpinOwner(t, d) /\ unpinCh' = unpinCh
      BY <1>2 DEF Threads, Untrack, Enter, UnpinOwner
    <2>2. Others(t)
      BY <1>2, <2>1, MovesOne DEF Untrack
    <2>3. CASE status[d] = "Unpinning"
      BY <2>1, <2>2, <2>3, UnpinKept
    <2>4. CASE status[d] # "Unpinning"
      <3>1. UnpinOwner(t, d)'
        BY <1>2, <2>1, <2>4
           DEF Untrack, set, Enter, UnpinOwner, TypeOK, ThreadTypes
      <3> QED BY <2>1, <3>1 DEF UnpinOwned
    <2> QED BY <2>3, <2>4
  <1>3. ASSUME NEW t \in Callers, NEW c \in Cids, Sync(t, c) \/ Recover(t, c)
        PROVE  UnpinOwned(d)'
    <2>1. /\ t \in Threads /\ ~UnpinOwner(t, d) /\ status[d] = "Unpinning"
          /\ unpinCh' = unpinCh
      BY <1>3 DEF Threads, Sync, Recover, Enter, UnpinOwner
    <2>2. Others(t)
      BY <1>3, <2>1, MovesOne DEF Sync, Recover
    <2> QED BY <2>1, <2>2, UnpinKept
  <1>4. ASSUME NEW t \in Callers, SyncAll(t)
        PROVE  UnpinOwned(d)'
    <2>1. /\ t \in Threads /\ ~UnpinOwner(t, d) /\ status[d] = "Unpinning"
          /\ unpinCh' = unpinCh
      BY <1>4 DEF Threads, SyncAll, Enter, UnpinOwner
    <2>2. Others(t)
      BY <1>4, <2>1, MovesOne DEF SyncAll
    <2> QED BY <2>1, <2>2, UnpinKept
  <1>5. ASSUME NEW t \in Threads, NEW c \in Cids,
               Pin(t, c) \/ PinLs(t, c) \/ PinAdd(t, c)
        PROVE  UnpinOwned(d)'
    <2>1. unpinCh' = unpinCh /\ ~UnpinOwner(t, d)
      BY <1>5 DEF Pin, PinLs, PinAdd, At, UnpinOwner
    <2>2. status[d] = "Unpinning"
      BY <1>5 DEF Pin, PinLs, PinAdd, set, TypeOK
    <2>3. Others(t)
      BY <1>5, MovesOne DEF Pin, PinLs, PinAdd, Request
    <2> QED BY <2>1, <2>2, <2>3, UnpinKept
  <1>6. ASSUME NEW t \in Threads, NEW c \in Cids, UnpinLs(t, c) \/ PinRm(t, c)
        PROVE  UnpinOwned(d)'
    <2>1. status[d] = "Unpinning" /\ unpinCh' = unpinCh
      BY <1>6 DEF UnpinLs, PinRm
    <2>2. PICK l \in {"PinRm", "SetUnpinned", "SetError"} : Goto(t, l)
      BY <1>6 DEF UnpinLs, PinLsCid, PinRm, Request
    <2>3. Others(t)
      BY <2>2, MovesOne
    <2>4. UnpinOwner(t, d) => UnpinOwner(t, d)'
      BY <2>2 DEF Goto, UnpinOwner, ThreadTypes
    <2> QED BY <2>1, <2>3, <2>4, UnpinKept DEF UnpinOwned
  <1>7. ASSUME NEW t \in Threads, NEW c \in Cids,
               \/ SetPinned(t, c) \/ SetUnpinned(t, c)
               \/ SetRemote(t, c) \/ SetError(t, c)
        PROVE  UnpinOwned(d)'
    <2>1. Others(t) /\ unpinCh' = unpinCh /\ arg[t] = c
      BY <1>7, MovesOne DEF SetPinned, SetUnpinned, SetRemote, SetError, At
    <2>2. status'[c] # "Unpinning"
      BY <1>7, ErrorStatus
         DEF SetPinned, SetUnpinned, SetRemote, SetError, set, TypeOK
    <2>3. status[d] = "Unpinning" /\ ~UnpinOwner(t, d)
      BY <1>7, <2>1, <2>2 DEF SetPinned, SetUnpinned, SetRemote, SetError, set,
         UnpinOwner, TypeOK
    <2> QED BY <2>1, <2>3, UnpinKept
  <1>8. ASSUME NEW t \in Threads, NEW c \in Cids, UntrackSend(t, c)
        PROVE  UnpinOwned(d)'
    <2>1. status[d] = "Unpinning" /\ Others(t) /\ arg[t] = c
      BY <1>8, MovesOne DEF UntrackSend, At
    <2>2. CASE unpinCh' = Append(unpinCh, c)
      <3>1. /\ Queued(unpinCh, d) => Queued(unpinCh', d)
            /\ Queued(unpinCh', c)
        BY <2>2, QueuedAppend DEF TypeOK
      <3>2. UnpinOwner(t, d) => UnpinOwned(d)'
        BY <2>1, <3>1 DEF UnpinOwner, UnpinOwned
      <3> QED BY <2>1, <3>1, <3>2, UnpinKept
    <2>3. CASE unpinCh' = unpinCh /\ Goto(t, "SetError")
      <3>1. UnpinOwner(t, d) => UnpinOwner(t, d)'
        BY <2>3 DEF Goto, UnpinOwner, ThreadTypes
      <3> QED BY <2>1, <2>3, <3>1, UnpinKept DEF UnpinOwned
    <2> QED BY <1>8, <2>2, <2>3 DEF UntrackSend
  <1>9. ASSUME NEW t \in Threads, NEW c \in Cids, TrackSend(t, c) \/ SyncGet(t, c)
        PROVE  UnpinOwned(d)'
    <2>1. status[d] = "Unpinning" /\ unpinCh' = unpinCh /\ ~UnpinOwner(t, d)
      BY <1>9 DEF TrackSend, SyncGet, At, UnpinOwner
    <2>2. Others(t)
      BY <1>9, MovesOne DEF TrackSend, SyncGet
    <2> QED BY <2>1, <2>2, UnpinKept
  <1>10. ASSUME NEW t \in Threads, StatusAll(t) \/ SyncNext(t)
         PROVE  UnpinOwned(d)'
    <2>1. status[d] = "Unpinning" /\ unpinCh' = unpinCh /\ ~UnpinOwner(t, d)
      BY <1>10 DEF StatusAll, SyncNext, UnpinOwner
    <2>2. Others(t)
      BY <1>10, MovesOne DEF StatusAll, SyncNext, Others, ThreadTypes
    <2> QED BY <2>1, <2>2, UnpinKept
  <1>11. ASSUME NEW t \in Threads, SetErrorAll(t)
         PROVE  UnpinOwned(d)'
    <2>1. status'[d] # "Unpinning"
      BY <1>11, ErrorStatus DEF SetErrorAll, TypeOK
    <2> QED BY <2>1
  <1>12. CASE UnpinWorkerRecv
    <2>1. /\ UnpinWorker \in Threads /\ status[d] = "Unpinning"
          /\ ~UnpinOwner(UnpinWorker, d)
      BY <1>12 DEF UnpinWorkerRecv, Enter, UnpinOwner, Threads, Workers
    <2>2. Others(UnpinWorker)
      BY <1>12, <2>1, MovesOne DEF UnpinWorkerRecv
    <2>3. CASE d = Head(unpinCh)
      <3>1. UnpinOwner(UnpinWorker, d)'
        BY <1>12, <2>1, <2>3 DEF UnpinWorkerRecv, Enter, UnpinOwner, ThreadTypes
      <3> QED BY <2>1, <3>1 DEF UnpinOwned
    <2>4. CASE d # Head(unpinCh)
      <3>1. Queued(unpinCh, d) => Queued(unpinCh', d)
        BY <1>12, <2>4, QueuedTail DEF UnpinWorkerRecv, TypeOK
      <3> QED BY <2>1, <2>2, <3>1, UnpinKept
    <2> QED BY <2>3, <2>4
  <1>13. CASE PinWorkerRecv
    <2>1. /\ PinWorker \in Threads /\ status[d] = "Unpinning"
          /\ unpinCh' = unpinCh /\ ~UnpinOwner(PinWorker, d)
      BY <1>13 DEF PinWorkerRecv, Enter, UnpinOwner, Threads, Workers
    <2>2. Others(PinWorker)
      BY <1>13, <2>1, MovesOne DEF PinWorkerRecv
    <2> QED BY <2>1, <2>2, UnpinKept
  <1>14. ASSUME NEW t \in Workers, WorkerExit(t)
         PROVE  UnpinOwned(d)'
    <2>1. /\ t \in Threads /\ status[d] = "Unpinning" /\ unpinCh' = unpinCh
          /\ ~UnpinOwner(t, d)
      BY <1>14 DEF WorkerExit, UnpinOwner, Threads
    <2>2. Others(t)
      BY <1>14, <2>1, MovesOne DEF WorkerExit
    <2> QED BY <2>1, <2>2, UnpinKept
  <1>15. CASE Shutdown \/ DaemonDrifts \/ UNCHANGED vars
    BY <1>15 DEF Shutdown, DaemonDrifts, vars, UnpinOwned, UnpinOwner
  <1> QED
    BY <1>1, <1>2, <1>3, <1>4, <1>5, <1>6, <1>7, <1>8, <1>9, <1>10, <1>11,
       <1>12, <1>13, <1>14, <1>15
       DEF Next, Call, Step

(* No Cid is ever stuck in Pinning: while it is shown as Pinning it waits  *)
(* in pinCh or a goroutine is still to write the outcome of its pin.       *)
THEOREM PinningOwned == Spec => []PinningHasOwner
  <1>1. Init => PinRunners /\ PinningHasOwner
    BY DEF Init, NewMapPinTracker, PinRunners, PinningHasOwner
  <1> QED BY <1>1, TypeCorrect, PinRunnersStep, PinningStep, PTL DEF Spec

(* No Cid is ever stuck in Unpinning: it waits in unpinCh or a goroutine   *)
(* is still to write the outcome of its Untrack.                           *)
THEOREM UnpinningOwned == Spec => []UnpinningHasOwner
  <1>1. Init => UnpinningHasOwner
    BY DEF Init, NewMapPinTracker, UnpinningHasOwner
  <1> QED BY <1>1, TypeCorrect, UnpinningStep, PTL DEF Spec

-----------------------------------------------------------------------------
(* The direction of errors.                                                *)

Direction ==
    \A c \in Cids :
        /\ status'[c] = "PinError" =>
              status[c] \in {"Pinned", "Pinning", "PinError"}
        /\ status'[c] = "UnpinError" =>
              status[c] \in {"Unpinned", "Unpinning", "UnpinError"}

(* One setError keeps the direction of the Cid. *)
LEMMA ErrorDirection ==
    ASSUME NEW s \in TrackerStatus
    PROVE  /\ errorOf(s) = "PinError" => s \in {"Pinned", "Pinning", "PinError"}
           /\ errorOf(s) = "UnpinError" =>
                 s \in {"Unpinned", "Unpinning", "UnpinError"}
  BY DEF errorOf, TrackerStatus

(* An error follows the direction the Cid was going in, and a remote Cid   *)
(* takes none: no step of any goroutine turns a pin into an unpin error or *)
(* the other way round.                                                    *)
THEOREM ErrorsKeepDirection == Spec => ErrorKeepsDirection
  <1>1. TypeOK /\ [Next]_vars => [Direction]_vars
    <2> SUFFICES ASSUME TypeOK, Next, NEW d \in Cids
                 PROVE  /\ status'[d] = "PinError" =>
                              status[d] \in {"Pinned", "Pinning", "PinError"}
                        /\ status'[d] = "UnpinError" =>
                              status[d] \in {"Unpinned", "Unpinning", "UnpinError"}
      BY DEF Direction
    <2>1. CASE status' = status
      BY <2>1
    <2>2. ASSUME NEW c \in Cids, NEW s \in TrackerStatus,
                 set(c, s), s \notin {"PinError", "UnpinError"}
          PROVE  /\ status'[d] = "PinError" =>
                       status[d] \in {"Pinned", "Pinning", "PinError"}
                 /\ status'[d] = "UnpinError" =>
                       status[d] \in {"Unpinned", "Unpinning", "UnpinError"}
      BY <2>2 DEF set, TypeOK
    <2>3. ASSUME NEW t \in Threads, NEW c \in Cids, SetError(t, c)
          PROVE  /\ status'[d] = "PinError" =>
                       status[d] \in {"Pinned", "Pinning", "PinError"}
                 /\ status'[d] = "UnpinError" =>
                       status[d] \in {"Unpinned", "Unpinning", "UnpinError"}
      BY <2>3, ErrorDirection DEF SetError, set, TypeOK
    <2>4. ASSUME NEW t \in Threads, SetErrorAll(t)
          PROVE  /\ status'[d] = "PinError" =>
                       status[d] \in {"Pinned", "Pinning", "PinError"}
                 /\ status'[d] = "UnpinError" =>
                       status[d] \in {"Unpinned", "Unpinning", "UnpinError"}
      BY <2>4, ErrorDirection DEF SetErrorAll, TypeOK
    <2>5. ASSUME NEW t \in Callers, Call(t)
          PROVE  \/ status' = status
                 \/ \E c \in Cids : set(c, "Pinning") \/ set(c, "Unpinning")
      BY <2>5 DEF Call, Track, Untrack, Sync, SyncAll, Recover, CidArg
    <2>6. ASSUME NEW t \in Threads, Step(t),
                 ~SetErrorAll(t), \A c \in Cids : ~SetError(t, c)
          PROVE  \/ status' = status
                 \/ \E c \in Cids, s \in {"Pinning", "Pinned", "Unpinned", "Remote"} :
                       set(c, s)
      BY <2>6 DEF Step, Pin, PinLs, PinAdd, UnpinLs, PinRm, SetPinned,
         SetUnpinned, SetRemote, TrackSend, UntrackSend, SyncGet, StatusAll,
         SyncNext
    <2>7. ASSUME PinWorkerRecv \/ UnpinWorkerRecv \/ Shutdown \/ DaemonDrifts
                 \/ \E t \in Workers : WorkerExit(t)
          PROVE  status' = status
      BY <2>7 DEF PinWorkerRecv, UnpinWorkerRecv, Shutdown, DaemonDrifts, WorkerExit
    <2> QED BY <2>1, <2>2, <2>3, <2>4, <2>5, <2>6, <2>7 DEF Next, TrackerStatus
  <1> QED BY <1>1, TypeCorrect, PTL DEF Spec, ErrorKeepsDirection, Direction

-----------------------------------------------------------------------------
(* Truthful statuses, when calls about one Cid do not overlap and nobody   *)
(* else uses the daemon.  A daemon that fails may answer that a pinned Cid *)
(* is not, so what is said of a Cid that is not pinned needs ~Faults.      *)

(* A goroutine that works on c; SyncAll works on every Cid. *)
Involved(t, c) == arg[t] = c \/ op[t] = "SyncAll"

(* At most one goroutine or queue entry is about a Cid. *)
Exclusive ==
    \A c \in Cids :
        /\ \A t, u \in Threads : Involved(t, c) /\ Involved(u, c) => t = u
        /\ \A t \in Threads : Involved(t, c) => ~Queued(pinCh, c) /\ ~Queued(unpinCh, c)
        /\ ~(Queued(pinCh, c) /\ Queued(unpinCh, c))

Once(ch) == \A i, j \in DOMAIN ch : ch[i] = ch[j] => i = j

(* A listing that is right about c. *)
Saw(c, listing) == /\ c \in listing => IsPinned(ipfs[c])
                   /\ c \notin listing => Faults \/ ~IsPinned(ipfs[c])

(* What t is about to write, or saw of the daemon, is still so. *)
UpToDate(t) ==
    /\ pc[t] = "SetPinned" => IsPinned(ipfs[arg[t]])
    /\ pc[t] = "SetUnpinned" => Faults \/ ~IsPinned(ipfs[arg[t]])
    /\ pc[t] = "SyncGet" => Saw(arg[t], seen[t])
    /\ op[t] = "SyncAll" => \A c \in Cids : Saw(c, seen[t])
    /\ pc[t] \in {"StatusAll", "SyncNext"} => op[t] = "SyncAll"
    /\ pc[t] \in {"SetPinned", "SetUnpinned", "SyncGet"} => arg[t] \in Cids
    /\ pc[t] \in {"Pin", "PinLs", "PinAdd", "UnpinLs", "PinRm"} => op[t] # "SyncAll"

(* The outcome on c is still to be written. *)
Pending(c) == \E t \in Threads : arg[t] = c /\ pc[t] \in {"SetPinned", "SetUnpinned", "SetError"}

Agrees(c) ==
    \/ Pending(c)
    \/ /\ status[c] = "Pinned" => IsPinned(ipfs[c])
       /\ status[c] = "Unpinned" => Faults \/ ~IsPinned(ipfs[c])

Serial ==
    /\ Exclusive /\ Once(pinCh) /\ Once(unpinCh)
    /\ \A t \in Threads : UpToDate(t)
    /\ \A c \in Cids : Agrees(c) /\ ipfs[c] \in {"unpinned", "recursive"}

(* A goroutine moves only what it has seen itself. *)
SeenOthers(t) == \A u \in Threads \ {t} : seen'[u] = seen[u]

(* However it moves, the others keep the listing they have. *)
LEMMA SeesForItself ==
    ASSUME ThreadTypes, NEW t \in Threads, NEW l, NEW o, NEW c, NEW listing,
           Goto(t, l) \/ Return(t) \/ Continue(t) \/ Enter(t, o, c, l, listing)
    PROVE  SeenOthers(t)
  <1>1. CASE Goto(t, l) \/ Return(t) \/ Enter(t, o, c, l, listing)
    BY <1>1 DEF Goto, Return, Enter, SeenOthers, ThreadTypes
  <1>2. CASE Continue(t)
    BY <1>2, ContinueCases DEF Goto, Return, SeenOthers, ThreadTypes
  <1> QED BY <1>1, <1>2

(* A goroutine takes on a Cid only when it is quiet. *)
LEMMA ExclusiveKept ==
    ASSUME Exclusive, NEW t \in Threads, Others(t), UNCHANGED chans,
           \A c \in Cids : (Involved(t, c))' => Involved(t, c) \/ Quiet(c)
    PROVE  Exclusive'
  <1> SUFFICES ASSUME NEW c \in Cids
               PROVE  /\ \A v, u \in Threads : (Involved(v, c))' /\ (Involved(u, c))' => v = u
                      /\ \A u \in Threads : (Involved(u, c))' => ~Queued(pinCh', c) /\ ~Queued(unpinCh', c)
                      /\ ~(Queued(pinCh', c) /\ Queued(unpinCh', c))
    BY DEF Exclusive
  <1>1. \A u \in Threads : u # t => ((Involved(u, c))' <=> Involved(u, c))
    BY DEF Others, Involved
  <1>2. pinCh' = pinCh /\ unpinCh' = unpinCh
    BY DEF chans
  <1>3. CASE Quiet(c)
    <2>1. /\ \A u \in Threads : ~Involved(u, c)
          /\ ~Queued(pinCh, c) /\ ~Queued(unpinCh, c)
      BY <1>3 DEF Quiet, Involved
    <2> QED BY <1>1, <1>2, <2>1
  <1>4. CASE ~Quiet(c)
    BY <1>1, <1>2, <1>4 DEF Exclusive
  <1> QED BY <1>3, <1>4

(* What the others are about to write does not depend on the Cid that t    *)
(* works on.                                                               *)
LEMMA OthersUpToDate ==
    ASSUME Serial, NEW t \in Threads, Others(t), SeenOthers(t),
           \/ ipfs' = ipfs
           \/ \E c \in Cids : Involved(t, c) /\ \A d \in Cids : d # c => ipfs'[d] = ipfs[d]
    PROVE  \A u \in Threads : u # t => (UpToDate(u))'
  <1> SUFFICES ASSUME NEW u \in Threads, u # t
               PROVE  (UpToDate(u))'
    OBVIOUS
  <1>1. /\ pc'[u] = pc[u] /\ op'[u] = op[u] /\ arg'[u] = arg[u] /\ seen'[u] = seen[u]
        /\ UpToDate(u)
    BY DEF Others, SeenOthers, Serial
  <1>2. CASE ipfs' = ipfs
    BY <1>1, <1>2 DEF UpToDate, Saw
  <1>3. ASSUME NEW c \in Cids, Involved(t, c), \A d \in Cids : d # c => ipfs'[d] = ipfs[d]
        PROVE  (UpToDate(u))'
    <2>1. arg[u] # c /\ op[u] # "SyncAll"
      BY <1>3 DEF Serial, Exclusive, Involved
    <2> QED BY <1>1, <1>3, <2>1 DEF UpToDate, Saw
  <1> QED BY <1>2, <1>3

(* A step that writes neither a status, nor the daemon, nor a channel. *)
LEMMA QuietStep ==
    ASSUME Serial, NEW t \in Threads, Others(t), SeenOthers(t), UNCHANGED <<status, ipfs, chans>>,
           pc[t] \notin {"SetPinned", "SetUnpinned", "SetError"},
           \A c \in Cids : (Involved(t, c))' => Involved(t, c) \/ Quiet(c),
           (UpToDate(t))'
    PROVE  Serial'
  <1>1. Exclusive'
    BY ExclusiveKept DEF Serial
  <1>2. \A u \in Threads : (UpToDate(u))'
    BY OthersUpToDate
  <1>3. ASSUME NEW c \in Cids PROVE (Agrees(c))'
    <2>1. Pending(c) => (Pending(c))'
      BY DEF Pending, Others
    <2> QED BY <2>1 DEF Agrees, Serial
  <1>4. Once(pinCh') /\ Once(unpinCh')
    BY DEF Serial, chans
  <1> QED BY <1>1, <1>2, <1>3, <1>4 DEF Serial

(* A step that sets the status of the Cid that it is about. *)
LEMMA WriteStep ==
    ASSUME TypeOK, Serial, NEW t \in Threads, Others(t), SeenOthers(t), UNCHANGED <<ipfs, chans>>,
           NEW c \in Cids, NEW s, set(c, s),
           arg[t] = c \/ pc[t] \notin {"SetPinned", "SetUnpinned", "SetError"},
           s = "Pinned" => IsPinned(ipfs[c]), s = "Unpinned" => Faults \/ ~IsPinned(ipfs[c]),
           \A d \in Cids : (Involved(t, d))' => Involved(t, d) \/ Quiet(d),
           (UpToDate(t))'
    PROVE  Serial'
  <1>1. Exclusive'
    BY ExclusiveKept DEF Serial
  <1>2. \A u \in Threads : (UpToDate(u))'
    BY OthersUpToDate
  <1>3. status'[c] = s /\ \A d \in Cids : d # c => status'[d] = status[d]
    BY DEF set, TypeOK
  <1>4. ASSUME NEW d \in Cids PROVE (Agrees(d))'
    <2>1. CASE d = c
      BY <1>3, <2>1 DEF Agrees
    <2>2. CASE d # c
      <3>1. Pending(d) => (Pending(d))'
        BY <2>2 DEF Pending, Others
      <3> QED BY <1>3, <2>2, <3>1 DEF Agrees, Serial
    <2> QED BY <2>1, <2>2
  <1>5. Once(pinCh') /\ Once(unpinCh')
    BY DEF Serial, chans
  <1> QED BY <1>1, <1>2, <1>4, <1>5 DEF Serial

(* A request that changes the pin of c, with its outcome to be written. *)
LEMMA RequestStep ==
    ASSUME TypeOK, Serial, NEW t \in Threads, NEW c \in Cids, arg[t] = c, UNCHANGED <<status, chans>>,
           NEW to \in {"unpinned", "recursive"}, ipfs' = [ipfs EXCEPT ![c] = to],
           NEW ok, ok \in {IF to = "recursive" THEN "SetPinned" ELSE "SetUnpinned", "SetError"}, Goto(t, ok),
           op[t] # "SyncAll", pc[t] \notin {"SetPinned", "SetUnpinned", "SetError"}
    PROVE  Serial'
  <1>0. ThreadTypes
    BY DEF TypeOK, ThreadTypes
  <1>1. Others(t) /\ SeenOthers(t)
    BY <1>0, MovesOne, SeesForItself
  <1>2. pc'[t] = ok /\ op'[t] = op[t] /\ arg'[t] = c
    BY <1>0 DEF Goto, ThreadTypes
  <1>3. ipfs'[c] = to /\ \A d \in Cids : d # c => ipfs'[d] = ipfs[d]
    BY DEF TypeOK
  <1>4. (UpToDate(t))'
    BY <1>2, <1>3 DEF UpToDate, IsPinned
  <1>5. \A u \in Threads : (UpToDate(u))'
    BY <1>1, <1>3, <1>4, OthersUpToDate DEF Involved
  <1>6. Exclusive'
    BY <1>1, <1>2, ExclusiveKept DEF Serial, Involved
  <1>7. ASSUME NEW d \in Cids PROVE (Agrees(d))' /\ ipfs'[d] \in {"unpinned", "recursive"}
    <2>1. CASE d = c
      <3>1. (Pending(d))'
        BY <1>2, <2>1 DEF Pending
      <3> QED BY <1>3, <2>1, <3>1 DEF Agrees
    <2>2. CASE d # c
      <3>1. Pending(d) => (Pending(d))'
        BY <1>1, <2>2 DEF Pending, Others
      <3> QED BY <1>3, <2>2, <3>1 DEF Agrees, Serial
    <2> QED BY <2>1, <2>2
  <1>8. Once(pinCh') /\ Once(unpinCh')
    BY DEF Serial, chans
  <1> QED BY <1>5, <1>6, <1>7, <1>8 DEF Serial

(* The next step after a write, or none, is up to date. *)
LEMMA ContinueUpToDate ==
    ASSUME ThreadTypes, NEW t \in Threads, UpToDate(t), Continue(t), UNCHANGED ipfs
    PROVE  /\ (UpToDate(t))' /\ Others(t) /\ SeenOthers(t)
           /\ \A c \in Cids : (Involved(t, c))' => Involved(t, c)
  <1>1. Others(t) /\ SeenOthers(t)
    BY MovesOne, SeesForItself
  <1>2. CASE op[t] = "SyncAll"
    <2>1. Goto(t, "SyncNext")
      BY <1>2 DEF Continue
    <2> QED BY <1>1, <1>2, <2>1 DEF Goto, ThreadTypes, UpToDate, Saw, Involved
  <1>3. CASE op[t] # "SyncAll" /\ Goto(t, "SetRemote")
    BY <1>1, <1>3 DEF Goto, ThreadTypes, UpToDate, Involved
  <1>4. CASE Return(t)
    <2>1. pc'[t] = "Idle" /\ op'[t] = "none" /\ arg'[t] = NoCid
      BY <1>4 DEF Return, ThreadTypes
    <2> QED BY <1>1, <2>1, NoCidAssumption DEF UpToDate, Involved
  <1> QED BY <1>2, <1>3, <1>4 DEF Continue

(* A call enters at a step that has nothing to be up to date about, on a   *)
(* quiet Cid.                                                              *)
LEMMA EnterStep ==
    ASSUME ThreadTypes, NEW t \in Threads, NEW o \in Ops \ {"SyncAll"}, NEW c \in Cids, NEW l \in Pcs,
           NEW listing, Enter(t, o, c, l, listing), Quiet(c),
           l \notin {"SetPinned", "SetUnpinned", "SyncGet", "StatusAll", "SyncNext"}
    PROVE  /\ (UpToDate(t))' /\ Others(t) /\ SeenOthers(t)
           /\ pc[t] = "Idle"
           /\ \A d \in Cids : (Involved(t, d))' => Involved(t, d) \/ Quiet(d)
  <1>1. Others(t) /\ SeenOthers(t)
    BY MovesOne, SeesForItself
  <1>2. pc[t] = "Idle" /\ pc'[t] = l /\ op'[t] = o /\ arg'[t] = c
    BY DEF Enter, ThreadTypes
  <1> QED BY <1>1, <1>2 DEF UpToDate, Involved

(* The calls. *)
LEMMA SerialCall ==
    ASSUME ~Overlap, TypeOK, Serial, NEW t \in Callers, Call(t)
    PROVE  Serial'
  <1>0. ThreadTypes /\ t \in Threads
    BY DEF TypeOK, ThreadTypes, Threads
  <1>1. ASSUME NEW c \in CidArg, Track(t, c) PROVE Serial'
    <2>1. PICK d \in Cids : d = c.Cid
      BY DEF CidArg
    <2>2. Quiet(d) /\ UNCHANGED <<ipfs, chans>>
      BY <1>1, <2>1 DEF Track, MayCall
    <2>3. CASE set(d, "Pinning") /\ Enter(t, "Track", d, "Send", {})
      <3>1. /\ (UpToDate(t))' /\ Others(t) /\ SeenOthers(t) /\ pc[t] = "Idle"
            /\ \A e \in Cids : (Involved(t, e))' => Involved(t, e) \/ Quiet(e)
        BY <1>0, <2>2, <2>3, EnterStep DEF Ops, Pcs
      <3> QED BY <1>0, <2>2, <2>3, <3>1, WriteStep
    <2>4. CASE Enter(t, "TrackRemote", d, remoteStep(status[d]), {}) /\ UNCHANGED status
      <3>1. PICK l \in {"UnpinLs", "SetRemote"} : l = remoteStep(status[d])
        BY DEF remoteStep
      <3>2. /\ (UpToDate(t))' /\ Others(t) /\ SeenOthers(t) /\ pc[t] = "Idle"
            /\ \A e \in Cids : (Involved(t, e))' => Involved(t, e) \/ Quiet(e)
        BY <1>0, <2>2, <2>4, <3>1, EnterStep DEF Ops, Pcs
      <3> QED BY <1>0, <2>2, <2>4, <3>2, QuietStep
    <2> QED BY <1>1, <2>1, <2>3, <2>4 DEF Track
  <1>2. ASSUME NEW c \in Cids, Untrack(t, c) PROVE Serial'
    <2>1. Quiet(c) /\ set(c, "Unpinning") /\ Enter(t, "Untrack", c, "SendUnpin", {}) /\ UNCHANGED <<ipfs, chans>>
      BY <1>2 DEF Untrack, MayCall
    <2>2. /\ (UpToDate(t))' /\ Others(t) /\ SeenOthers(t) /\ pc[t] = "Idle"
          /\ \A e \in Cids : (Involved(t, e))' => Involved(t, e) \/ Quiet(e)
      BY <1>0, <2>1, EnterStep DEF Ops, Pcs
    <2> QED BY <1>0, <2>1, <2>2, WriteStep
  <1>3. ASSUME NEW c \in Cids, Sync(t, c) PROVE Serial'
    <2>1. Quiet(c) /\ UNCHANGED <<status, ipfs, chans>>
      BY <1>3 DEF Sync, MayCall
    <2>2. PICK r \in PinLsCid(c) :
             Enter(t, "Sync", c, IF r = "error" THEN "SetError" ELSE "SyncGet",
                   IF r = "pinned" THEN {c} ELSE {})
      BY <1>3 DEF Sync
    <2>4. PICK l \in {"SetError", "SyncGet"} : l = IF r = "error" THEN "SetError" ELSE "SyncGet"
      OBVIOUS
    <2>5. PICK S : S = IF r = "pinned" THEN {c} ELSE {}
      OBVIOUS
    <2>6. Enter(t, "Sync", c, l, S)
      BY <2>2, <2>4, <2>5
    <2>7. Others(t) /\ SeenOthers(t)
      BY <1>0, <2>6, MovesOne, SeesForItself
    <2>8. pc[t] = "Idle" /\ pc'[t] = l /\ op'[t] = "Sync" /\ arg'[t] = c /\ seen'[t] = S
      BY <1>0, <2>6 DEF Enter, ThreadTypes
    <2>9. Saw(c, S)
      <3>1. r = "pinned" => IsPinned(ipfs[c])
        BY DEF PinLsCid
      <3>2. r # "pinned" => Faults \/ ~IsPinned(ipfs[c])
        BY DEF PinLsCid
      <3> QED BY <2>5, <3>1, <3>2 DEF Saw
    <2>10. (UpToDate(t))' /\ \A e \in Cids : (Involved(t, e))' => Involved(t, e) \/ Quiet(e)
      BY <2>1, <2>8, <2>9 DEF UpToDate, Involved, Saw
    <2> QED BY <1>0, <2>1, <2>7, <2>8, <2>10, QuietStep
  <1>4. ASSUME SyncAll(t) PROVE Serial'
    <2>1. /\ \A c \in Cids : Quiet(c)
          /\ UNCHANGED <<status, ipfs, chans>>
      BY <1>4 DEF SyncAll, MayCall
    <2>2. ASSUME NEW l \in {"StatusAll", "SetErrorAll"}, NEW S,
                 Enter(t, "SyncAll", NoCid, l, S), \A c \in Cids : Saw(c, S)
          PROVE  Serial'
      <3>1. Others(t) /\ SeenOthers(t)
        BY <1>0, <2>2, MovesOne, SeesForItself
      <3>2. pc[t] = "Idle" /\ pc'[t] = l /\ op'[t] = "SyncAll" /\ seen'[t] = S
        BY <1>0, <2>2 DEF Enter, ThreadTypes
      <3>3. (UpToDate(t))'
        BY <2>1, <2>2, <3>2 DEF UpToDate, Saw
      <3> QED BY <1>0, <2>1, <3>1, <3>2, <3>3, QuietStep
    <2>3. \A c \in Cids : Saw(c, PinLsRecursive)
      BY DEF PinLsRecursive, IsPinned, Serial, Saw
    <2>4. Faults => \A c \in Cids : Saw(c, {})
      BY DEF Saw
    <2>5. \/ Enter(t, "SyncAll", NoCid, "StatusAll", PinLsRecursive)
          \/ Faults /\ Enter(t, "SyncAll", NoCid, "SetErrorAll", {})
      BY <1>4 DEF SyncAll
    <2> QED BY <2>2, <2>3, <2>4, <2>5
  <1>5. ASSUME NEW c \in Cids, Recover(t, c) PROVE Serial'
    <2>1. /\ Quiet(c) /\ UNCHANGED <<status, ipfs, chans>>
          /\ Enter(t, "Recover", c, "Pin", {}) \/ Enter(t, "Recover", c, "UnpinLs", {})
      BY <1>5 DEF Recover, MayCall
    <2>2. /\ (UpToDate(t))' /\ Others(t) /\ SeenOthers(t) /\ pc[t] = "Idle"
          /\ \A e \in Cids : (Involved(t, e))' => Involved(t, e) \/ Quiet(e)
      BY <1>0, <2>1, EnterStep DEF Ops, Pcs
    <2> QED BY <1>0, <2>1, <2>2, QuietStep
  <1> QED BY <1>1, <1>2, <1>3, <1>4, <1>5 DEF Call

(* Going on to a step that keeps the Cid. *)
LEMMA GotoKeeps ==
    ASSUME ThreadTypes, NEW t \in Threads, NEW l, Goto(t, l)
    PROVE  /\ Others(t) /\ SeenOthers(t)
           /\ pc'[t] = l /\ op'[t] = op[t] /\ arg'[t] = arg[t] /\ seen'[t] = seen[t]
           /\ \A c \in Cids : (Involved(t, c))' => Involved(t, c)
  <1>1. Others(t) /\ SeenOthers(t)
    BY MovesOne, SeesForItself
  <1>2. pc'[t] = l /\ op'[t] = op[t] /\ arg'[t] = arg[t] /\ seen'[t] = seen[t]
    BY DEF Goto, ThreadTypes
  <1> QED BY <1>1, <1>2 DEF Involved

(* pin() and unpin(). *)
LEMMA SerialPin ==
    ASSUME TypeOK, Serial, NEW t \in Threads, NEW c \in Cids,
           Pin(t, c) \/ PinLs(t, c) \/ PinAdd(t, c) \/ UnpinLs(t, c) \/ PinRm(t, c)
    PROVE  Serial'
  <1>0. ThreadTypes /\ UpToDate(t) /\ arg[t] = c
    BY DEF TypeOK, ThreadTypes, Serial, Pin, PinLs, PinAdd, UnpinLs, PinRm, At
  <1>1. op[t] # "SyncAll" /\ pc[t] \notin {"SetPinned", "SetUnpinned", "SetError"}
    BY <1>0 DEF UpToDate, Pin, PinLs, PinAdd, UnpinLs, PinRm, At
  <1>2. CASE Pin(t, c)
    <2>1. set(c, "Pinning") /\ Goto(t, "PinLs") /\ UNCHANGED <<ipfs, chans>>
      BY <1>2 DEF Pin
    <2>2. (UpToDate(t))'
      BY <1>0, <1>1, <2>1, GotoKeeps DEF UpToDate
    <2> QED BY <1>0, <1>1, <2>1, <2>2, GotoKeeps, WriteStep
  <1>3. CASE PinLs(t, c) \/ UnpinLs(t, c)
    <2>1. UNCHANGED <<status, ipfs, chans>>
      BY <1>3 DEF PinLs, UnpinLs
    <2>2. ASSUME NEW l \in {"SetPinned", "PinAdd", "PinRm", "SetUnpinned", "SetError"}, Goto(t, l),
                 l = "SetPinned" => IsPinned(ipfs[c]),
                 l = "SetUnpinned" => Faults \/ ~IsPinned(ipfs[c])
          PROVE  Serial'
      <3>1. (UpToDate(t))'
        BY <1>0, <1>1, <2>1, <2>2, GotoKeeps DEF UpToDate
      <3> QED BY <1>0, <1>1, <2>1, <2>2, <3>1, GotoKeeps, QuietStep
    <2>3. PICK r \in PinLsCid(c) :
             \/ Goto(t, CASE r = "pinned" -> "SetPinned"
                          [] r = "unpinned" -> "PinAdd"
                          [] r = "error" -> "SetError")
             \/ Goto(t, CASE r = "pinned" -> "PinRm"
                          [] r = "unpinned" -> "SetUnpinned"
                          [] r = "error" -> "SetError")
      BY <1>3 DEF PinLs, UnpinLs
    <2>4. /\ r \in {"pinned", "unpinned", "error"}
          /\ r = "pinned" => IsPinned(ipfs[c])
          /\ r = "unpinned" => Faults \/ ~IsPinned(ipfs[c])
      BY DEF PinLsCid
    <2>5. CASE r = "pinned"
      <3>1. Goto(t, "SetPinned") \/ Goto(t, "PinRm")
        BY <2>3, <2>5
      <3> QED BY <2>2, <2>4, <2>5, <3>1
    <2>6. CASE r = "unpinned"
      <3>1. Goto(t, "PinAdd") \/ Goto(t, "SetUnpinned")
        BY <2>3, <2>6
      <3> QED BY <2>2, <2>4, <2>6, <3>1
    <2>7. CASE r = "error"
      <3>1. Goto(t, "SetError")
        BY <2>3, <2>7
      <3> QED BY <2>2, <3>1
    <2> QED BY <2>4, <2>5, <2>6, <2>7
  <1>4. CASE PinAdd(t, c) \/ PinRm(t, c)
    <2>1. UNCHANGED <<status, chans>>
      BY <1>4 DEF PinAdd, PinRm
    <2>2. ASSUME Goto(t, "SetError"), UNCHANGED ipfs PROVE Serial'
      <3>1. (UpToDate(t))'
        BY <1>0, <1>1, <2>2, GotoKeeps DEF UpToDate
      <3> QED BY <1>0, <1>1, <2>1, <2>2, <3>1, GotoKeeps, QuietStep
    <2>3. ASSUME NEW to \in {"unpinned", "recursive"}, NEW ok,
                 ok = IF to = "recursive" THEN "SetPinned" ELSE "SetUnpinned",
                 Request(t, c, to, ok)
          PROVE  Serial'
      <3>1. CASE ipfs' = [ipfs EXCEPT ![c] = to] /\ Goto(t, ok)
        BY <1>0, <1>1, <2>1, <2>3, <3>1, RequestStep
      <3>2. CASE ipfs' = [ipfs EXCEPT ![c] = to] /\ Goto(t, "SetError")
        BY <1>0, <1>1, <2>1, <2>3, <3>2, RequestStep
      <3> QED BY <2>2, <2>3, <3>1, <3>2 DEF Request
    <2>4. \/ Request(t, c, "recursive", "SetPinned")
          \/ Request(t, c, "unpinned", "SetUnpinned")
          \/ Goto(t, "SetError") /\ UNCHANGED ipfs
      BY <1>4 DEF PinAdd, PinRm
    <2> QED BY <2>2, <2>3, <2>4
  <1> QED BY <1>2, <1>3, <1>4

(* The writes of an outcome. *)
LEMMA SerialWrite ==
    ASSUME TypeOK, Serial, NEW t \in Threads, NEW c \in Cids,
           SetPinned(t, c) \/ SetUnpinned(t, c) \/ SetRemote(t, c) \/ SetError(t, c)
    PROVE  Serial'
  <1>0. ThreadTypes /\ UpToDate(t) /\ arg[t] = c /\ Continue(t) /\ UNCHANGED <<ipfs, chans>>
    BY DEF TypeOK, ThreadTypes, Serial, SetPinned, SetUnpinned, SetRemote, SetError, At
  <1>1. \E s \in TrackerStatus : /\ set(c, s)
                                 /\ s = "Pinned" => IsPinned(ipfs[c])
                                 /\ s = "Unpinned" => Faults \/ ~IsPinned(ipfs[c])
    <2>1. CASE SetPinned(t, c)
      BY <1>0, <2>1 DEF SetPinned, UpToDate, At, TrackerStatus
    <2>2. CASE SetUnpinned(t, c)
      BY <1>0, <2>2 DEF SetUnpinned, UpToDate, At, TrackerStatus
    <2>3. CASE SetRemote(t, c)
      BY <2>3 DEF SetRemote, TrackerStatus
    <2>4. CASE SetError(t, c)
      <3>1. status[c] \in TrackerStatus
        BY DEF TypeOK
      <3>2. errorOf(status[c]) \in {"PinError", "UnpinError", "Remote"}
        BY <3>1 DEF errorOf, TrackerStatus
      <3> QED BY <2>4, <3>2 DEF SetError, TrackerStatus
    <2> QED BY <2>1, <2>2, <2>3, <2>4
  <1>2. /\ (UpToDate(t))' /\ Others(t) /\ SeenOthers(t)
        /\ \A d \in Cids : (Involved(t, d))' => Involved(t, d)
    BY <1>0, ContinueUpToDate
  <1> QED BY <1>0, <1>1, <1>2, WriteStep

(* Sync, and SyncAll's walk over its snapshot. *)
LEMMA SerialSync ==
    ASSUME TypeOK, Serial, NEW t \in Threads,
           (\E c \in Cids : SyncGet(t, c)) \/ StatusAll(t) \/ SyncNext(t)
    PROVE  Serial'
  <1>0. ThreadTypes /\ UpToDate(t) /\ UNCHANGED <<status, ipfs, chans>>
    BY DEF TypeOK, ThreadTypes, Serial, SyncGet, StatusAll, SyncNext
  <1>1. ASSUME NEW c \in Cids, SyncGet(t, c) PROVE Serial'
    <2>1. pc[t] = "SyncGet" /\ arg[t] = c /\ Saw(c, seen[t])
      BY <1>0, <1>1 DEF SyncGet, At, UpToDate
    <2>2. PICK w \in syncWrites(status[c], c \in seen[t]) :
             IF w = "none" THEN Continue(t) ELSE Goto(t, w)
      BY <1>1 DEF SyncGet
    <2>3. CASE w = "none"
      <3>1. /\ (UpToDate(t))' /\ Others(t) /\ SeenOthers(t)
            /\ \A d \in Cids : (Involved(t, d))' => Involved(t, d)
        BY <1>0, <2>2, <2>3, ContinueUpToDate
      <3> QED BY <1>0, <2>1, <3>1, QuietStep
    <2>4. CASE w # "none"
      <3>1. /\ w \in {"SetPinned", "SetUnpinned", "SetError"}
            /\ w = "SetPinned" => IsPinned(ipfs[c])
            /\ w = "SetUnpinned" => Faults \/ ~IsPinned(ipfs[c])
        BY <2>1, <2>2, <2>4 DEF syncWrites, Saw
      <3>2. Goto(t, w)
        BY <2>2, <2>4
      <3>3. (UpToDate(t))'
        BY <1>0, <2>1, <3>1, <3>2, GotoKeeps DEF UpToDate, Saw
      <3> QED BY <1>0, <2>1, <3>2, <3>3, GotoKeeps, QuietStep
    <2> QED BY <2>3, <2>4
  <1>2. ASSUME pc[t] \in {"StatusAll", "SyncNext"}, pc'[t] \in {"SyncNext", "SyncGet"},
               op' = op, seen' = seen, Others(t), pc'[t] = "SyncGet" => arg'[t] \in Cids
        PROVE  Serial'
    <2>1. op[t] = "SyncAll" /\ \A c \in Cids : Saw(c, seen[t])
      BY <1>0, <1>2 DEF UpToDate
    <2>2. (UpToDate(t))'
      BY <1>0, <1>2, <2>1 DEF UpToDate, Saw
    <2>3. SeenOthers(t)
      BY <1>2 DEF SeenOthers
    <2>4. \A c \in Cids : Involved(t, c)
      BY <2>1 DEF Involved
    <2> QED BY <1>0, <1>2, <2>2, <2>3, <2>4, QuietStep
  <1>3. CASE StatusAll(t)
    BY <1>0, <1>2, <1>3 DEF StatusAll, Others, ThreadTypes
  <1>4. CASE SyncNext(t)
    <2>1. CASE Return(t)
      <3>1. pc'[t] = "Idle" /\ op'[t] = "none" /\ arg'[t] = NoCid
        BY <1>0, <2>1 DEF Return, ThreadTypes
      <3>2. (UpToDate(t))' /\ \A c \in Cids : ~(Involved(t, c))'
        BY <3>1, NoCidAssumption DEF UpToDate, Involved
      <3>3. pc[t] = "SyncNext" /\ Others(t) /\ SeenOthers(t)
        BY <1>0, <1>4, <2>1, MovesOne, SeesForItself DEF SyncNext
      <3> QED BY <1>0, <3>2, <3>3, QuietStep
    <2>2. ASSUME NEW c \in todo[t],
                 arg' = [arg EXCEPT ![t] = c], pc' = [pc EXCEPT ![t] = "SyncGet"],
                 UNCHANGED <<op, seen>>
          PROVE  Serial'
      <3>1. c \in Cids
        BY DEF TypeOK
      <3> QED BY <1>0, <1>2, <1>4, <2>2, <3>1 DEF SyncNext, Others, ThreadTypes
    <2> QED BY <1>4, <2>1, <2>2 DEF SyncNext
  <1> QED BY <1>1, <1>3, <1>4

(* SyncAll with the daemon away: an error is neither Pinned nor Unpinned. *)
LEMMA SerialErrorAll ==
    ASSUME TypeOK, Serial, NEW t \in Threads, SetErrorAll(t)
    PROVE  Serial'
  <1>0. ThreadTypes /\ pc[t] = "SetErrorAll" /\ Return(t) /\ UNCHANGED <<ipfs, chans>>
    BY DEF TypeOK, ThreadTypes, SetErrorAll
  <1>1. pc'[t] = "Idle" /\ op'[t] = "none" /\ arg'[t] = NoCid /\ Others(t) /\ SeenOthers(t)
    BY <1>0, MovesOne, SeesForItself DEF Return, ThreadTypes
  <1>2. (UpToDate(t))' /\ \A c \in Cids : ~(Involved(t, c))'
    BY <1>1, NoCidAssumption DEF UpToDate, Involved
  <1>3. Exclusive' /\ \A u \in Threads : (UpToDate(u))'
    BY <1>0, <1>1, <1>2, ExclusiveKept, OthersUpToDate DEF Serial
  <1>4. ASSUME NEW c \in Cids PROVE (Agrees(c))'
    <2>1. status'[c] # "Pinned" /\ (status'[c] = "Unpinned" => status[c] = "Unpinned")
      <3>1. status[c] \in TrackerStatus
        BY DEF TypeOK
      <3>2. errorOf(status[c]) \in {"PinError", "UnpinError", "Remote"}
        BY <3>1 DEF errorOf, TrackerStatus
      <3> QED BY <3>2 DEF SetErrorAll
    <2>2. Pending(c) => (Pending(c))'
      BY <1>0, <1>1 DEF Pending, Others
    <2> QED BY <1>0, <2>1, <2>2 DEF Agrees, Serial
  <1>5. Once(pinCh') /\ Once(unpinCh')
    BY <1>0 DEF Serial, chans
  <1> QED BY <1>0, <1>3, <1>4, <1>5 DEF Serial

(* What a send adds to a channel. *)
LEMMA SendAdds ==
    ASSUME NEW ch \in Seq(Cids), NEW c \in Cids
    PROVE  /\ \A d \in Cids : Queued(Append(ch, c), d) => Queued(ch, d) \/ d = c
           /\ Once(ch) /\ ~Queued(ch, c) => Once(Append(ch, c))
  <1>1. /\ Len(ch) \in Nat /\ DOMAIN ch = 1 .. Len(ch) /\ DOMAIN Append(ch, c) = 1 .. Len(ch) + 1
        /\ \A i \in 1 .. Len(ch) : Append(ch, c)[i] = ch[i]
        /\ Append(ch, c)[Len(ch) + 1] = c
    OBVIOUS
  <1>2. \A i \in 1 .. Len(ch) + 1 : i \in 1 .. Len(ch) \/ i = Len(ch) + 1
    BY <1>1
  <1>3. \A d \in Cids : Queued(Append(ch, c), d) => Queued(ch, d) \/ d = c
    BY <1>1, <1>2 DEF Queued
  <1>4. ASSUME Once(ch), ~Queued(ch, c) PROVE Once(Append(ch, c))
    BY <1>1, <1>2, <1>4 DEF Queued, Once
  <1> QED BY <1>3, <1>4

(* What a receive takes from a channel. *)
LEMMA ReceiveTakes ==
    ASSUME NEW ch \in Seq(Cids), ch # <<>>
    PROVE  /\ Head(ch) \in Cids /\ Queued(ch, Head(ch))
           /\ \A d \in Cids : Queued(Tail(ch), d) => Queued(ch, d)
           /\ Once(ch) => ~Queued(Tail(ch), Head(ch)) /\ Once(Tail(ch))
  <1>1. /\ Len(ch) \in Nat \ {0} /\ DOMAIN ch = 1 .. Len(ch) /\ DOMAIN Tail(ch) = 1 .. Len(ch) - 1
        /\ \A i \in 1 .. Len(ch) - 1 : Tail(ch)[i] = ch[i + 1]
        /\ Head(ch) = ch[1] /\ Head(ch) \in Cids
    OBVIOUS
  <1>2. 1 \in 1 .. Len(ch) /\ \A i \in 1 .. Len(ch) - 1 : i + 1 \in 1 .. Len(ch) /\ i + 1 # 1
    BY <1>1
  <1>3. Head(ch) \in Cids /\ Queued(ch, Head(ch))
    BY <1>1, <1>2 DEF Queued
  <1>4. \A d \in Cids : Queued(Tail(ch), d) => Queued(ch, d)
    BY <1>1, <1>2 DEF Queued
  <1>5. ASSUME Once(ch) PROVE ~Queued(Tail(ch), Head(ch)) /\ Once(Tail(ch))
    <2>1. ~Queued(Tail(ch), Head(ch))
      BY <1>1, <1>2, <1>5 DEF Queued, Once
    <2>2. ASSUME NEW i \in 1 .. Len(ch) - 1, NEW j \in 1 .. Len(ch) - 1, Tail(ch)[i] = Tail(ch)[j]
          PROVE  i = j
      <3>1. i + 1 = j + 1
        BY <1>1, <1>2, <1>5, <2>2 DEF Once
      <3> QED BY <3>1
    <2> QED BY <1>1, <2>1, <2>2 DEF Once
  <1> QED BY <1>3, <1>4, <1>5

(* A channel operation: no status and no pin changes. *)
LEMMA ChannelStep ==
    ASSUME Serial, NEW t \in Threads, Others(t), SeenOthers(t), UNCHANGED <<status, ipfs>>,
           pc[t] \notin {"SetPinned", "SetUnpinned", "SetError"}, (UpToDate(t))',
           Exclusive', Once(pinCh'), Once(unpinCh')
    PROVE  Serial'
  <1>1. \A u \in Threads : (UpToDate(u))'
    BY OthersUpToDate
  <1>2. ASSUME NEW c \in Cids PROVE (Agrees(c))'
    <2>1. Pending(c) => (Pending(c))'
      BY DEF Pending, Others
    <2> QED BY <2>1 DEF Agrees, Serial
  <1> QED BY <1>1, <1>2 DEF Serial

(* The sends of Track and Untrack hand the Cid over to the channel. *)
LEMMA SerialSend ==
    ASSUME TypeOK, Serial, NEW t \in Threads, NEW c \in Cids, TrackSend(t, c) \/ UntrackSend(t, c)
    PROVE  Serial'
  <1>0. /\ ThreadTypes /\ UpToDate(t) /\ arg[t] = c /\ pc[t] \in {"Send", "SendUnpin"}
        /\ UNCHANGED <<status, ipfs>>
    BY DEF TypeOK, ThreadTypes, Serial, TrackSend, UntrackSend, At
  <1>1. CASE Goto(t, "SetError") /\ UNCHANGED chans
    <2>1. (UpToDate(t))'
      BY <1>0, <1>1, GotoKeeps DEF UpToDate, Saw
    <2> QED BY <1>0, <1>1, <2>1, GotoKeeps, QuietStep
  <1>2. CASE /\ Return(t)
             /\ \/ pinCh' = Append(pinCh, c) /\ unpinCh' = unpinCh
                \/ unpinCh' = Append(unpinCh, c) /\ pinCh' = pinCh
    <2>1. pc'[t] = "Idle" /\ op'[t] = "none" /\ arg'[t] = NoCid /\ Others(t) /\ SeenOthers(t)
      BY <1>0, <1>2, MovesOne, SeesForItself DEF Return, ThreadTypes
    <2>2. (UpToDate(t))' /\ \A d \in Cids : ~(Involved(t, d))'
      BY <2>1, NoCidAssumption DEF UpToDate, Involved
    <2>3. \A u \in Threads : u # t => \A d \in Cids : (Involved(u, d))' <=> Involved(u, d)
      BY <2>1 DEF Others, Involved
    <2>4. /\ ~Queued(pinCh, c) /\ ~Queued(unpinCh, c)
          /\ \A u \in Threads : u # t => ~Involved(u, c)
      BY <1>0 DEF Serial, Exclusive, Involved
    <2>5. pinCh \in Seq(Cids) /\ unpinCh \in Seq(Cids) /\ Once(pinCh) /\ Once(unpinCh)
      BY DEF TypeOK, Serial
    <2>6. /\ \A d \in Cids : Queued(pinCh', d) => Queued(pinCh, d) \/ d = c
          /\ \A d \in Cids : Queued(unpinCh', d) => Queued(unpinCh, d) \/ d = c
          /\ Once(pinCh') /\ Once(unpinCh')
          /\ ~(Queued(pinCh', c) /\ Queued(unpinCh', c))
      BY <1>2, <2>4, <2>5, SendAdds
    <2>7. Exclusive'
      <3> SUFFICES ASSUME NEW d \in Cids
                   PROVE  /\ \A v, u \in Threads : (Involved(v, d))' /\ (Involved(u, d))' => v = u
                          /\ \A u \in Threads : (Involved(u, d))' => ~Queued(pinCh', d) /\ ~Queued(unpinCh', d)
                          /\ ~(Queued(pinCh', d) /\ Queued(unpinCh', d))
        BY DEF Exclusive
      <3>1. CASE d = c
        BY <2>2, <2>3, <2>4, <2>6, <3>1
      <3>2. CASE d # c
        BY <2>2, <2>3, <2>6, <3>2 DEF Serial, Exclusive
      <3> QED BY <3>1, <3>2
    <2> QED BY <1>0, <2>1, <2>2, <2>6, <2>7, ChannelStep
  <1> QED BY <1>1, <1>2 DEF TrackSend, UntrackSend, chans

(* The workers take it over from there. *)
LEMMA SerialRecv ==
    ASSUME TypeOK, Serial, PinWorkerRecv \/ UnpinWorkerRecv
    PROVE  Serial'
  <1>0. /\ ThreadTypes /\ UNCHANGED <<status, ipfs>>
        /\ pinCh \in Seq(Cids) /\ unpinCh \in Seq(Cids) /\ Once(pinCh) /\ Once(unpinCh)
    BY DEF TypeOK, ThreadTypes, Serial, PinWorkerRecv, UnpinWorkerRecv
  <1>1. ASSUME NEW t \in Threads, NEW c \in Cids, NEW o \in {"PinWorker", "UnpinWorker"}, NEW l \in {"Pin", "UnpinLs"},
               Enter(t, o, c, l, {}),
               Queued(pinCh, c) \/ Queued(unpinCh, c),
               ~Queued(pinCh', c), ~Queued(unpinCh', c), Once(pinCh'), Once(unpinCh'),
               \A d \in Cids : Queued(pinCh', d) => Queued(pinCh, d),
               \A d \in Cids : Queued(unpinCh', d) => Queued(unpinCh, d)
        PROVE  Serial'
    <2>1. Others(t) /\ SeenOthers(t)
      BY <1>0, <1>1, MovesOne, SeesForItself
    <2>2. pc[t] = "Idle" /\ pc'[t] = l /\ op'[t] = o /\ arg'[t] = c
      BY <1>0, <1>1 DEF Enter, ThreadTypes
    <2>3. (UpToDate(t))' /\ \A d \in Cids : (Involved(t, d))' <=> d = c
      BY <1>1, <2>2 DEF UpToDate, Involved
    <2>4. \A u \in Threads : u # t => \A d \in Cids : (Involved(u, d))' <=> Involved(u, d)
      BY <2>1 DEF Others, Involved
    <2>5. \A u \in Threads : ~Involved(u, c)
      BY <1>1 DEF Serial, Exclusive
    <2>6. Exclusive'
      <3> SUFFICES ASSUME NEW d \in Cids
                   PROVE  /\ \A v, u \in Threads : (Involved(v, d))' /\ (Involved(u, d))' => v = u
                          /\ \A u \in Threads : (Involved(u, d))' => ~Queued(pinCh', d) /\ ~Queued(unpinCh', d)
                          /\ ~(Queued(pinCh', d) /\ Queued(unpinCh', d))
        BY DEF Exclusive
      <3>1. CASE d = c
        BY <1>1, <2>3, <2>4, <2>5, <3>1
      <3>2. CASE d # c
        BY <1>1, <2>3, <2>4, <3>2 DEF Serial, Exclusive
      <3> QED BY <3>1, <3>2
    <2> QED BY <1>0, <1>1, <2>1, <2>2, <2>3, <2>6, ChannelStep
  <1>2. PinWorker \in Threads /\ UnpinWorker \in Threads
    BY DEF Threads, Workers
  <1>3. CASE PinWorkerRecv
    <2>1. PICK c : c = Head(pinCh)
      OBVIOUS
    <2>2. /\ pinCh # <<>> /\ Enter(PinWorker, "PinWorker", c, "Pin", {})
          /\ pinCh' = Tail(pinCh) /\ unpinCh' = unpinCh
      BY <1>3, <2>1 DEF PinWorkerRecv
    <2>3. /\ c \in Cids /\ Queued(pinCh, c) /\ ~Queued(pinCh', c) /\ Once(pinCh')
          /\ \A d \in Cids : Queued(pinCh', d) => Queued(pinCh, d)
      BY <1>0, <2>1, <2>2, ReceiveTakes
    <2>4. ~Queued(unpinCh', c) /\ Once(unpinCh')
      BY <1>0, <2>2, <2>3 DEF Serial, Exclusive
    <2> QED BY <1>1, <1>2, <2>2, <2>3, <2>4
  <1>4. CASE UnpinWorkerRecv
    <2>1. PICK c : c = Head(unpinCh)
      OBVIOUS
    <2>2. /\ unpinCh # <<>> /\ Enter(UnpinWorker, "UnpinWorker", c, "UnpinLs", {})
          /\ unpinCh' = Tail(unpinCh) /\ pinCh' = pinCh
      BY <1>4, <2>1 DEF UnpinWorkerRecv
    <2>3. /\ c \in Cids /\ Queued(unpinCh, c) /\ ~Queued(unpinCh', c) /\ Once(unpinCh')
          /\ \A d \in Cids : Queued(unpinCh', d) => Queued(unpinCh, d)
      BY <1>0, <2>1, <2>2, ReceiveTakes
    <2>4. ~Queued(pinCh', c) /\ Once(pinCh')
      BY <1>0, <2>2, <2>3 DEF Serial, Exclusive
    <2> QED BY <1>1, <1>2, <2>2, <2>3, <2>4
  <1> QED BY <1>3, <1>4

(* A worker leaves. *)
LEMMA SerialExit ==
    ASSUME TypeOK, Serial, NEW t \in Workers, WorkerExit(t)
    PROVE  Serial'
  <1>0. /\ ThreadTypes /\ t \in Threads /\ UpToDate(t) /\ pc[t] = "Idle" /\ Goto(t, "Exited")
        /\ UNCHANGED <<status, ipfs, chans>>
    BY DEF TypeOK, ThreadTypes, Serial, WorkerExit, Threads
  <1>1. (UpToDate(t))'
    BY <1>0, GotoKeeps DEF UpToDate, Saw
  <1> QED BY <1>0, <1>1, GotoKeeps, QuietStep

(* A new tracker knows no Cid, and the daemon holds no pin. *)
LEMMA SerialInit ==
    ASSUME DriftKinds = {}, Init
    PROVE  Serial
  <1>1. /\ status = [c \in Cids |-> "Unpinned"]
        /\ pinCh = <<>> /\ unpinCh = <<>>
        /\ pc = [t \in Threads |-> "Idle"]
        /\ op = [t \in Threads |-> "none"]
        /\ arg = [t \in Threads |-> NoCid]
    BY DEF Init, NewMapPinTracker
  <1>2. \A c \in Cids : ipfs[c] = "unpinned"
    BY DEF Init
  <1>3. Exclusive /\ Once(pinCh) /\ Once(unpinCh)
    BY <1>1, NoCidAssumption DEF Exclusive, Once, Involved, Queued
  <1>4. \A t \in Threads : UpToDate(t)
    BY <1>1 DEF UpToDate
  <1> QED BY <1>1, <1>2, <1>3, <1>4 DEF Serial, Agrees, IsPinned

(* Every step keeps what the goroutines know up to date. *)
LEMMA SerialNext ==
    ASSUME ~Overlap, DriftKinds = {}, TypeOK, Serial, [Next]_vars
    PROVE  Serial'
  <1>1. ASSUME NEW t \in Threads, Step(t) PROVE Serial'
    BY <1>1, SerialPin, SerialWrite, SerialSync, SerialErrorAll, SerialSend DEF Step
  <1>2. CASE Shutdown \/ UNCHANGED vars
    <2>1. UNCHANGED <<status, pinCh, unpinCh, ipfs, pc, op, arg, seen, todo>>
      BY <1>2 DEF Shutdown, vars, chans, thread
    <2> QED BY <2>1 DEF Serial, Exclusive, Once, UpToDate, Saw, Agrees, Pending, Involved, Queued
  <1>3. ~DaemonDrifts
    BY DEF DaemonDrifts
  <1> QED BY <1>1, <1>2, <1>3, SerialCall, SerialRecv, SerialExit DEF Next

(* While calls about one Cid do not overlap and nobody else uses the       *)
(* daemon, Serial always holds.                                            *)
THEOREM SerialHolds ==
    ASSUME ~Overlap, DriftKinds = {}
    PROVE  Spec => []Serial
  <1>1. Init => Serial
    BY SerialInit
  <1>2. TypeOK /\ Serial /\ [Next]_vars => Serial'
    BY SerialNext
  <1> QED BY <1>1, <1>2, TypeCorrect, PTL DEF Spec

(* Under the same conditions a Cid that is shown as Pinned, and that no    *)
(* call is about, is pinned by the daemon, even if requests to the daemon  *)
(* fail: for any number of Cids and callers, any channel capacity and any  *)
(* interleaving of calls about different Cids.                             *)
THEOREM PinnedIsPinned ==
    ASSUME ~Overlap, DriftKinds = {}
    PROVE  Spec => []PinnedMeansPinned
  <1>1. Serial => PinnedMeansPinned
    <2> SUFFICES ASSUME Serial, NEW c \in Cids, Quiet(c), status[c] = "Pinned"
                 PROVE  IsPinned(ipfs[c])
      BY DEF PinnedMeansPinned
    <2> QED BY DEF Serial, Agrees, Pending, Quiet
  <1> QED BY <1>1, SerialHolds, PTL

(* And one that is shown as Unpinned, or has no entry, is not pinned,      *)
(* provided that no request fails: unpin() takes a refused pin/ls for an   *)
(* item that is not pinned.                                                *)
THEOREM UnpinnedIsNotPinned ==
    ASSUME ~Faults, ~Overlap, DriftKinds = {}
    PROVE  Spec => []UnpinnedMeansNotPinned
  <1>1. Serial => UnpinnedMeansNotPinned
    <2> SUFFICES ASSUME Serial, NEW c \in Cids, Quiet(c), status[c] = "Unpinned"
                 PROVE  ~IsPinned(ipfs[c])
      BY DEF UnpinnedMeansNotPinned
    <2> QED BY DEF Serial, Agrees, Pending, Quiet
  <1> QED BY <1>1, SerialHolds, PTL

=============================================================================
