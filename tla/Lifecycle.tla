------------------------------ MODULE Lifecycle ------------------------------
(***************************************************************************)
(* The life of one ipfs-cluster-service process: NewCluster sets the       *)
(* components up, the ready goroutine waits for Consensus, and Shutdown,   *)
(* which the main goroutine (a failed start, an interrupt), the ready      *)
(* goroutine (a timeout) and the goroutine of a removed peer may run at    *)
(* the same time, takes everything down again.                             *)
(*                                                                         *)
(* The goroutines, the two shutdown locks, the channels that are closed or *)
(* sent to once, and the wait groups are modelled one by one: what can go  *)
(* wrong is a panic (a channel closed twice or used after it was closed, a *)
(* nil pointer) or a wait that never ends.  What Raft and the network do   *)
(* is external: when there is a leader, when the log is applied.           *)
(***************************************************************************)
EXTENDS Integers, FiniteSets

CONSTANT Leaves    \* the values of LeaveOnShutdown

ASSUME ConfigAssumption == Leaves \subseteq BOOLEAN

VARIABLES
    leave,      \* config.LeaveOnShutdown
    pc,         \* pc[t]: what each goroutine that may call Shutdown does
    lock,       \* lock[s]: who holds shutdownLock of "cluster", "consensus"
    down,       \* the components whose shutdown flag is set
    consensus,  \* c.consensus is not nil
    client,     \* cc.rpcClient and baseOp.rpcClient are not nil
    rpcReady,   \* rpcReady[k]: the channel of a component
    listener,   \* listener[k]: that of the REST API and of the IPFS proxy
    chans,      \* channels that were signalled or closed, contexts cancelled
    go,         \* go[g]: the other goroutines
    raft,       \* none, up, down
    net,        \* what Raft knows: none, leader, synced (all of the log applied)
    end,        \* running, exited, panic
    \* The rest is history, for the properties.
    early,      \* a removal or an operation of the log came before setup ended
    failed      \* Raft could not be stopped cleanly

parts == <<down, consensus, client, rpcReady, listener, chans, go, raft>>
rest == <<leave, net, end, early, failed>>
vars == <<pc, lock, parts, rest>>

Threads == {"main", "ready", "remover"}
Servers == {"api", "ipfs"}
Nobody == "nobody"

Alive == end = "running"
Goto(t, l) == pc' = [pc EXCEPT ![t] = l]
Ends(how) == end' = how /\ UNCHANGED <<pc, lock, parts, leave, net, failed>>
Panic == Ends("panic") /\ UNCHANGED early
Exit == Ends("exited") /\ UNCHANGED early

-----------------------------------------------------------------------------
(* NewCluster, in the main goroutine.  A step that fails ends in Shutdown   *)
(* and then in os.Exit.                                                     *)

(* setupPeerManager and setupRPC: from here on other peers are served.     *)
SetupRPC ==
    /\ pc["main"] = "rpc"
    /\ \E ok \in BOOLEAN : Goto("main", IF ok THEN "cons" ELSE "lock")
    /\ UNCHANGED <<lock, parts, rest>>

(* Raft's goroutines run as soon as there is a Raft node.                  *)
NewRaft == raft' = "up"

(* Consensus.run starts a goroutine of its own.                            *)
NewConsensus == NewRaft /\ go' = [go EXCEPT !["runner"] = "run"]

SetupConsensus ==
    /\ pc["main"] = "cons"
    /\ \/ /\ NewConsensus
          /\ consensus' = TRUE
          /\ Goto("main", "set ipfs")
       \/ /\ Goto("main", "lock")
          /\ UNCHANGED <<consensus, raft, go>>
    /\ UNCHANGED <<lock, down, client, rpcReady, listener, chans, rest>>

(* SetClient: a send to a channel of capacity one.                         *)
Send(k) == rpcReady[k] = "empty" /\ rpcReady' = [rpcReady EXCEPT ![k] = "full"]

SetClient(k, l, next) ==
    /\ pc["main"] = l
    /\ \/ /\ Send(k)
          /\ client' = (client \/ k = "consensus")
          /\ Goto("main", next)
          /\ UNCHANGED <<lock, down, consensus, listener, chans, go, raft, rest>>
       \/ rpcReady[k] = "closed" /\ Panic

SetupRPCClients ==
    \/ SetClient("ipfs", "set ipfs", "set api")
    \/ SetClient("api", "set api", "set cons")
    \/ SetClient("consensus", "set cons", "boot2")

(* bootstrap, called twice, and Join: there is nothing to do (both times),  *)
(* or the contact's PeerAdd fails, or WaitForSync comes next.               *)
Bootstrap ==
    /\ pc["main"] \in {"boot2", "boot1"}
    /\ LET twice == pc["main"] = "boot2"
       IN  \/ twice /\ Goto("main", "start")
           \/ Goto("main", IF twice THEN "boot1" ELSE "lock")
           \/ Goto("main", IF twice THEN "sync2" ELSE "sync1")
    /\ UNCHANGED <<lock, parts, rest>>

(* WaitForSync: WaitForLeader with a timeout, then WaitForUpdates without; *)
(* both end when Consensus's context is cancelled.                         *)
Synced == net = "synced"
WaitFails == "consensus ctx" \in chans

JoinSync ==
    /\ pc["main"] \in {"sync2", "sync1", "updates2", "updates1"}
    /\ LET twice == pc["main"] \in {"sync2", "updates2"}
           fails == Goto("main", IF twice THEN "boot1" ELSE "lock")
       IN  \/ WaitFails /\ fails
           \/ pc["main"] \in {"sync2", "sync1"} /\ fails
           \/ pc["main"] = "sync2" /\ net # "none" /\ Goto("main", "updates2")
           \/ pc["main"] = "sync1" /\ net # "none" /\ Goto("main", "updates1")
           \/ pc["main"] = "updates2" /\ Synced /\ Goto("main", "boot1")
           \/ pc["main"] = "updates1" /\ Synced /\ Goto("main", "start")
    /\ UNCHANGED <<lock, parts, rest>>

(* go func() { c.ready(); c.run() }                                        *)
StartReady ==
    /\ pc["main"] = "start"
    /\ pc' = [pc EXCEPT !["main"] = "loop", !["ready"] = "select"]
    /\ UNCHANGED <<lock, parts, rest>>

(* An interrupt.  Before the loop of the service it kills the process,     *)
(* which the next start sees as a crash.                                   *)
Interrupt == pc["main"] = "loop" /\ Goto("main", "lock") /\ UNCHANGED <<lock, parts, rest>>

(* <-cluster.Done()                                                        *)
MainDone == pc["main"] = "loop" /\ "done" \in chans /\ Exit

-----------------------------------------------------------------------------
(* Cluster.ready and run.                                                  *)

Signal(x) == chans' = chans \cup x

(* The timer, Consensus.Ready() or the cancelled context.                  *)
ReadyTimeout_Never == FALSE
ReadyTimeout == pc["ready"] = "select" /\ Goto("ready", "lock") /\ UNCHANGED <<lock, parts, rest>>

Ready ==
    /\ pc["ready"] = "select"
    /\ \/ "consensus ready" \in chans /\ Signal({"ready"})
       \/ "ctx" \in chans /\ UNCHANGED chans
    /\ Goto("ready", "run")
    /\ UNCHANGED <<lock, down, consensus, client, rpcReady, listener, go, raft, rest>>

(* Whatever came of ready, Shutdown included.                              *)
Run ==
    /\ pc["ready"] = "run"
    /\ go' = [go EXCEPT !["watchers"] = "run"]
    /\ Goto("ready", "end")
    /\ UNCHANGED <<lock, down, consensus, client, rpcReady, listener, chans, raft, rest>>

(* stateSyncWatcher and pushInformerMetrics, for which nobody waits.       *)
WatchersExit ==
    /\ go["watchers"] = "run"
    /\ "ctx" \in chans
    /\ go' = [go EXCEPT !["watchers"] = "end"]
    /\ UNCHANGED <<pc, lock, down, consensus, client, rpcReady, listener, chans, raft, rest>>

-----------------------------------------------------------------------------
(* The removal of this peer: an RPC starts the goroutine of rmPeer.        *)

RmPeerShutdown ==
    /\ pc["remover"] = "none"
    /\ pc["main"] # "rpc" /\ "done" \notin chans
    /\ Goto("remover", "sleep")
    /\ early' = (early \/ ~client)
    /\ UNCHANGED <<lock, parts, leave, net, end, failed>>

RemoverStops ==
    /\ pc["remover"] = "sleep"
    /\ \/ ~consensus /\ Panic
       \/ consensus /\ Goto("remover", "cs lock") /\ UNCHANGED <<lock, parts, rest>>

RemoverShutdown ==
    /\ pc["remover"] = "reset"
    /\ Goto("remover", "lock")
    /\ UNCHANGED <<lock, parts, rest>>

-----------------------------------------------------------------------------
(* Consensus.Shutdown, called by Cluster.Shutdown or by the remover.       *)

Close(k) == rpcReady' = [rpcReady EXCEPT ![k] = "closed"]
InCluster(t) == lock["cluster"] = t
AfterConsensus(t, ok) ==
    Goto(t, CASE InCluster(t) /\ ok -> "stop api"
              [] InCluster(t) /\ ~ok -> "error"
              [] OTHER -> "reset")

AlreadyDown_Forgotten == FALSE
AlreadyDown == "consensus" \in down

ConsensusShutdown(t) ==
    /\ pc[t] = "cs lock" /\ lock["consensus"] = Nobody
    /\ \/ /\ AlreadyDown
          /\ AfterConsensus(t, TRUE)
          /\ UNCHANGED <<lock, parts, rest>>
       \/ ~AlreadyDown /\ rpcReady["consensus"] = "closed" /\ Panic
       \/ /\ ~AlreadyDown /\ rpcReady["consensus"] # "closed"
          /\ Close("consensus")
          /\ Signal({"shutdownCh"})
          /\ lock' = [lock EXCEPT !["consensus"] = t]
          /\ Goto(t, "cs raft")
          /\ UNCHANGED <<down, consensus, client, listener, go, raft, rest>>

(* Raft.Snapshot and Raft.Shutdown.  An error leaves the flag unset.       *)
RaftShutdown(t) ==
    /\ pc[t] = "cs raft"
    /\ \/ /\ raft' = "down"
          /\ Goto(t, "cs wait")
          /\ UNCHANGED <<lock, failed>>
       \/ /\ raft' \in {raft, "down"}
          /\ failed' = TRUE
          /\ lock' = [lock EXCEPT !["consensus"] = Nobody]
          /\ AfterConsensus(t, FALSE)
    /\ UNCHANGED <<down, consensus, client, rpcReady, listener, chans, go, leave, net, end, early>>

(* cc.wg.Wait()                                                            *)
ConsensusStopped(t) ==
    /\ pc[t] = "cs wait" /\ go["runner"] = "end"
    /\ down' = down \cup {"consensus"}
    /\ lock' = [lock EXCEPT !["consensus"] = Nobody]
    /\ AfterConsensus(t, TRUE)
    /\ UNCHANGED <<consensus, client, rpcReady, listener, chans, go, raft, rest>>

-----------------------------------------------------------------------------
(* Cluster.Shutdown.                                                       *)

Shutdown(t) ==
    /\ pc[t] = "lock" /\ lock["cluster"] = Nobody
    /\ IF "cluster" \in down
       THEN Goto(t, "return") /\ UNCHANGED lock
       ELSE Goto(t, "leave") /\ lock' = [lock EXCEPT !["cluster"] = t]
    /\ UNCHANGED <<parts, rest>>

(* LogRmPeer of this peer, best effort; then the context is cancelled.     *)
Leave(t) ==
    /\ pc[t] = "leave"
    /\ \/ leave /\ ~consensus /\ Panic
       \/ /\ leave => consensus
          /\ Signal({"ctx"})
          /\ Goto(t, IF consensus THEN "cs lock" ELSE "stop api")
          /\ UNCHANGED <<lock, down, consensus, client, rpcReady, listener, go, raft, rest>>

(* RESTAPI.Shutdown and IPFSHTTPConnector.Shutdown: the channel and the    *)
(* listener are closed.                                                    *)
CloseServer_RpcReadyKept(k) ==
    listener' = [listener EXCEPT ![k] = "closed"] /\ UNCHANGED rpcReady
CloseServer(k) ==
    listener' = [listener EXCEPT ![k] = "closed"] /\ Close(k)

stopping == [api |-> "stop api", ipfs |-> "stop ipfs"]
waiting == [api |-> "wait api", ipfs |-> "wait ipfs"]

StopServer(t, k) ==
    /\ pc[t] = stopping[k]
    /\ CloseServer(k)
    /\ Goto(t, waiting[k])
    /\ UNCHANGED <<lock, down, consensus, client, chans, go, raft, rest>>

ServerEnded_NoWait(k) == TRUE
ServerEnded(k) == go[k] = "end"

ServerStopped(t, k) ==
    /\ pc[t] = waiting[k]
    /\ ServerEnded(k)
    /\ down' = down \cup {k}
    /\ Goto(t, IF k = "api" THEN "stop ipfs" ELSE "finish")
    /\ UNCHANGED <<lock, consensus, client, rpcReady, listener, chans, go, raft, rest>>

(* MapPinTracker.Shutdown, host.Close and close(doneCh).                   *)
Finish(t) ==
    /\ pc[t] = "finish"
    /\ down' = down \cup {"tracker", "cluster"}
    /\ Signal({"done"})
    /\ lock' = [lock EXCEPT !["cluster"] = Nobody]
    /\ Goto(t, "return")
    /\ UNCHANGED <<consensus, client, rpcReady, listener, go, raft, rest>>

(* An error of Consensus: Shutdown returns it, half-way.                   *)
Error_LockKept(t) ==
    /\ pc[t] = "error"
    /\ Goto(t, "return error")
    /\ UNCHANGED <<lock, parts, rest>>
Error(t) ==
    /\ pc[t] = "error"
    /\ lock' = [lock EXCEPT !["cluster"] = Nobody]
    /\ Goto(t, "return error")
    /\ UNCHANGED <<parts, rest>>

(* The main goroutine exits when the start failed or Shutdown returned an  *)
(* error; the ready goroutine goes on to run.                              *)
Return(t) ==
    /\ pc[t] \in {"return", "return error"}
    /\ IF t = "main" /\ (pc["ready"] = "none" \/ pc[t] = "return error")
       THEN Exit
       ELSE /\ Goto(t, CASE t = "main" -> "loop" [] t = "ready" -> "run" [] t = "remover" -> "end")
            /\ UNCHANGED <<lock, parts, rest>>

-----------------------------------------------------------------------------
(* The other goroutines.                                                   *)

(* REST API and proxy: wait for the client, then serve until the listener  *)
(* is closed.                                                              *)
ServerRuns(k) ==
    /\ go[k] = "wait" /\ rpcReady[k] # "empty"
    /\ go' = [go EXCEPT ![k] = "serve"]
    /\ rpcReady' = [rpcReady EXCEPT ![k] = IF @ = "full" THEN "empty" ELSE @]
    /\ UNCHANGED <<pc, lock, down, consensus, client, listener, chans, raft, rest>>

ServerExits(k) ==
    /\ go[k] = "serve" /\ listener[k] = "closed"
    /\ go' = [go EXCEPT ![k] = "end"]
    /\ UNCHANGED <<pc, lock, down, consensus, client, rpcReady, listener, chans, raft, rest>>

(* Consensus.run: starts finishBootstrap, waits for shutdownCh, cancels    *)
(* the context of Consensus.                                               *)
Runner ==
    /\ \/ /\ go["runner"] = "run"
          /\ go' = [go EXCEPT !["runner"] = "wait", !["fin"] = "sync"]
          /\ UNCHANGED chans
       \/ /\ go["runner"] = "wait" /\ "shutdownCh" \in chans
          /\ go' = [go EXCEPT !["runner"] = "end"]
          /\ Signal({"consensus ctx"})
    /\ UNCHANGED <<pc, lock, down, consensus, client, rpcReady, listener, raft, rest>>

(* finishBootstrap up to the RPC client: WaitForSync may fail.             *)
FinishBootstrap ==
    /\ \E l \in {"updates", "client", "rpc", "state", "end"} :
          /\ go' = [go EXCEPT !["fin"] = l]
          /\ \/ go["fin"] = "sync" /\ l = "updates" /\ net # "none"
             \/ go["fin"] = "sync" /\ l = "end"
             \/ go["fin"] = "updates" /\ l = "client" /\ Synced
             \/ go["fin"] = "updates" /\ l = "end" /\ WaitFails
             \/ go["fin"] = "client" /\ l = (IF client THEN "state" ELSE "rpc")
             \/ go["fin"] = "rpc" /\ l = "end" /\ WaitFails
             \/ go["fin"] = "rpc" /\ l = "state" /\ rpcReady["consensus"] # "empty"
    /\ rpcReady' = [rpcReady EXCEPT !["consensus"] =
                       IF go["fin"] = "rpc" /\ go'["fin"] = "state" /\ @ = "full"
                       THEN "empty" ELSE @]
    /\ UNCHANGED <<pc, lock, down, consensus, client, listener, chans, raft, rest>>

(* The state is synced, if there is one, and Consensus is ready.           *)
FinishReady ==
    /\ go["fin"] = "state"
    /\ \/ ~client /\ Panic
       \/ /\ go' = [go EXCEPT !["fin"] = "end"]
          /\ Signal({"consensus ready"})
          /\ UNCHANGED <<pc, lock, down, consensus, client, rpcReady, listener, raft, rest>>

-----------------------------------------------------------------------------
(* Raft and the network.                                                   *)

RaftProgress ==
    /\ raft = "up"
    /\ \/ net = "none" /\ net' = "leader"
       \/ net = "leader" /\ net' = "synced"
    /\ UNCHANGED <<pc, lock, parts, leave, end, early, failed>>

(* ApplyTo calls op.rpcClient, which is not set yet.                       *)
EarlyApply ==
    /\ raft = "up" /\ net # "none" /\ ~client
    /\ early' = TRUE
    /\ Ends("panic")

-----------------------------------------------------------------------------
(* What NewRESTAPI and NewIPFSHTTPConnector create: a listener that is open *)
(* already, and a goroutine that waits for the RPC client.                  *)
NewServer == [listener |-> "open", rpcReady |-> "empty", run |-> "wait"]

Init ==
    /\ leave \in Leaves
    /\ pc = [t \in Threads |-> IF t = "main" THEN "rpc" ELSE "none"]
    /\ lock = [s \in {"cluster", "consensus"} |-> Nobody]
    /\ down = {}
    /\ consensus = FALSE
    /\ client = FALSE
    /\ rpcReady = [k \in Servers \cup {"consensus"} |-> NewServer.rpcReady]
    /\ listener = [k \in Servers |-> NewServer.listener]
    /\ chans = {}
    /\ go = [g \in Servers \cup {"runner", "fin", "watchers"} |->
               IF g \in Servers THEN NewServer.run ELSE "none"]
    /\ raft = "none"
    /\ net = "none"
    /\ end = "running"
    /\ early = FALSE
    /\ failed = FALSE

Start == SetupRPC \/ SetupConsensus \/ SetupRPCClients \/ Bootstrap \/ JoinSync \/ StartReady
ShutdownStep(t) ==
    \/ Shutdown(t) \/ Leave(t) \/ Finish(t) \/ Error(t) \/ Return(t)
    \/ ConsensusShutdown(t) \/ RaftShutdown(t) \/ ConsensusStopped(t)
    \/ \E k \in Servers : StopServer(t, k) \/ ServerStopped(t, k)
Goroutines ==
    \/ WatchersExit
    \/ \E k \in Servers : ServerRuns(k) \/ ServerExits(k)
    \/ Runner \/ FinishBootstrap \/ FinishReady

Next == Alive /\
    \/ Start \/ Interrupt \/ MainDone
    \/ ReadyTimeout \/ Ready \/ Run
    \/ RmPeerShutdown \/ RemoverStops \/ RemoverShutdown
    \/ \E t \in Threads : ShutdownStep(t)
    \/ Goroutines
    \/ RaftProgress \/ EarlyApply

Spec == Init /\ [][Next]_vars

(* The scheduler runs every goroutine, Raft's calls return, and timers     *)
(* fire.  Interrupts, removals and what Raft achieves are up to others.    *)
LiveSpec ==
    /\ Spec
    /\ WF_vars(Alive /\ MainDone) /\ WF_vars(Alive /\ ReadyTimeout) /\ WF_vars(Alive /\ Ready) /\ WF_vars(Alive /\ Run)
    /\ WF_vars(Alive /\ RemoverStops) /\ WF_vars(Alive /\ RemoverShutdown)
    /\ \A t \in Threads : WF_vars(Alive /\ ShutdownStep(t))
    /\ \A k \in Servers : WF_vars(Alive /\ ServerRuns(k)) /\ WF_vars(Alive /\ ServerExits(k))
    /\ WF_vars(Alive /\ Runner) /\ WF_vars(Alive /\ FinishBootstrap) /\ WF_vars(Alive /\ FinishReady)

-----------------------------------------------------------------------------
(* Properties.                                                             *)

InShutdown(t) == pc[t] \in {"lock", "leave", "cs lock", "cs raft", "cs wait", "stop api",
                           "wait api", "stop ipfs", "wait ipfs", "finish", "error"}

(* Every variable has its type, and a lock is only held by a goroutine     *)
(* that is inside the Shutdown it guards.                                  *)
TypeOK ==
    /\ leave \in BOOLEAN
    /\ \A s \in DOMAIN lock : lock[s] = Nobody \/ (lock[s] \in Threads /\ InShutdown(lock[s]))
    /\ down \subseteq {"cluster", "consensus", "tracker"} \cup Servers
    /\ {consensus, client, early, failed} \subseteq BOOLEAN
    /\ \A k \in DOMAIN rpcReady : rpcReady[k] \in {"empty", "full", "closed"}
    /\ \A k \in Servers : listener[k] \in {"open", "closed"}
    /\ chans \subseteq {"ctx", "ready", "done", "shutdownCh", "consensus ctx", "consensus ready"}
    /\ raft \in {"none", "up", "down"} /\ net \in {"none", "leader", "synced"}
    /\ end \in {"running", "exited", "panic"}

(* No order of start, interrupt, timeout and removal makes the process     *)
(* panic (on a channel closed twice or used after that, on a nil client),  *)
(* except in three situations: a removal or an operation of the log that   *)
(* arrives before the components have their clients, a second Shutdown     *)
(* after one in which Raft did not stop cleanly, and leaving without a     *)
(* Consensus.                                                              *)
NoPanic == end = "panic" => early \/ failed \/ (leave /\ ~consensus)

(* When Done() is signalled everything has been stopped: the context is    *)
(* cancelled, Raft and the goroutines of Consensus, the REST API and the   *)
(* proxy have ended, and Raft had no error.                                *)
DoneMeansStopped ==
    "done" \in chans =>
        /\ "ctx" \in chans /\ ~failed
        /\ raft # "up" /\ go["runner"] \in {"none", "end"}
        /\ \A k \in Servers : go[k] = "end"

(* A peer whose start got as far as waiting for Consensus becomes ready or *)
(* stops, whatever Raft does, unless Raft fails to stop: "if a leader is   *)
(* not found after a while, we automatically shutdown".                    *)
ReadyOrStopped ==
    pc["ready"] = "select" ~> ({"ready", "done"} \cap chans # {} \/ ~Alive \/ failed)

(* Every Shutdown comes to an end: no two of them wait for each other, and *)
(* no goroutine they wait for stays.                                       *)
ShutdownEnds == \A t \in Threads : InShutdown(t) ~> (~InShutdown(t) \/ ~Alive)
=============================================================================
