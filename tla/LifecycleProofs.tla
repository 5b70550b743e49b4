--------------------------- MODULE LifecycleProofs ---------------------------
(***************************************************************************)
(* TLAPS proofs about Lifecycle: the locks are held where they should be,  *)
(* the process panics in the known situations only, and Done() means that  *)
(* everything has been stopped.                                            *)
(***************************************************************************)
EXTENDS Lifecycle, TLAPS

-----------------------------------------------------------------------------
(* Where a goroutine may be.                                               *)

(* Inside Consensus.Shutdown; the last two hold its lock. *)
InRaft == {"cs raft", "cs wait"}
InConsensus == {"cs lock"} \cup InRaft

(* Inside Cluster.Shutdown, Consensus.Shutdown aside, with the lock: the    *)
(* steps after Consensus has stopped, and the others.                      *)
Stopping == {"stop api", "wait api", "stop ipfs", "wait ipfs", "finish"}
InLock == {"leave", "error"} \cup Stopping

Returning == {"return", "return error"}
AnyShutdown == {"lock"} \cup InConsensus \cup InLock \cup Returning

(* NewCluster before and after the components have their clients. *)
Clientless == {"rpc", "cons", "set ipfs", "set api", "set cons"}
Joining == {"boot2", "boot1", "sync2", "sync1", "updates2", "updates1", "start"}

Points == AnyShutdown \cup Clientless \cup Joining
            \cup {"loop", "none", "select", "run", "end", "sleep", "reset"}

Shape ==
    /\ leave \in BOOLEAN
    /\ pc \in [Threads -> Points]
    /\ lock \in [{"cluster", "consensus"} -> Threads \cup {Nobody}]
    /\ down \subseteq {"cluster", "consensus", "tracker"} \cup Servers
    /\ consensus \in BOOLEAN /\ client \in BOOLEAN
    /\ rpcReady \in [Servers \cup {"consensus"} -> {"empty", "full", "closed"}]
    /\ listener \in [Servers -> {"open", "closed"}]
    /\ chans \subseteq {"ctx", "ready", "done", "shutdownCh", "consensus ctx", "consensus ready"}
    /\ go \in [Servers \cup {"runner", "fin", "watchers"} ->
                 {"none", "wait", "serve", "run", "sync", "updates", "client", "rpc", "state", "end"}]
    /\ raft \in {"none", "up", "down"} /\ net \in {"none", "leader", "synced"}
    /\ end \in {"running", "exited", "panic"}
    /\ early \in BOOLEAN /\ failed \in BOOLEAN

(* Each lock is held exactly by the goroutine inside; the remover calls    *)
(* Consensus.Shutdown once without the lock of the cluster.                *)
Locks ==
    /\ \A t \in Threads : pc[t] \in InLock => lock["cluster"] = t
    /\ \A t \in Threads : pc[t] \in InConsensus => lock["cluster"] = t \/ t = "remover"
    /\ \A t \in Threads : lock["cluster"] = t => pc[t] \in InLock \cup InConsensus
    /\ \A t \in Threads : lock["consensus"] = t <=> pc[t] \in InRaft

(* What exists at each place of the start.  A removal that came before the  *)
(* clients did is remembered in early.                                     *)
Started ==
    /\ client => consensus
    /\ pc["main"] \in {"rpc", "cons"} => ~consensus
    /\ pc["main"] \in {"set ipfs", "set api", "set cons"} => consensus
    /\ pc["main"] \in Joining \cup {"loop"} => client
    /\ pc["main"] \in Clientless => ~client
    /\ pc["main"] \notin Clientless /\ consensus => client
    /\ pc["main"] \in Clientless \cup Joining => pc["ready"] = "none"
    /\ pc["main"] = "loop" => pc["ready"] # "none"
    /\ pc["ready"] # "none" => client
    /\ pc["remover"] # "none" /\ ~client => early
    /\ pc["remover"] \notin {"none", "sleep"} => consensus
    /\ \A t \in Threads : pc[t] \in InConsensus => consensus
    /\ ~consensus => raft = "none" /\ go["runner"] = "none"

(* The channel of Consensus is closed once, by a Shutdown that goes on to  *)
(* set the flag or fails; a message in it comes from SetClient.            *)
Channels ==
    /\ rpcReady["consensus"] = "closed" =>
           lock["consensus"] # Nobody \/ "consensus" \in down \/ failed
    /\ rpcReady["consensus"] = "full" => client
    /\ rpcReady["consensus"] = "closed" => client \/ early
    /\ \A k \in Servers : rpcReady[k] = "closed" => 
           client \/ early \/ (~consensus /\ pc["main"] \notin {"rpc", "cons"})
    /\ go["fin"] = "state" => client \/ early
    /\ failed =>
           /\ consensus /\ rpcReady["consensus"] = "closed"
           /\ lock["consensus"] = Nobody /\ "consensus" \notin down
    /\ lock["consensus"] # Nobody =>
           "consensus" \notin down /\ rpcReady["consensus"] = "closed"

(* Consensus was stopped, or could never be created. *)
ConsensusGone == "consensus" \in down \/ (~consensus /\ pc["main"] \notin {"rpc", "cons"})

(* What has been stopped at each place of Shutdown. *)
Stops ==
    /\ \A t \in Threads : pc[t] = "cs wait" => raft = "down"
    /\ "consensus" \in down => consensus /\ raft = "down" /\ go["runner"] = "end"
    /\ \A t \in Threads :
           pc[t] \in Stopping \/ (pc[t] \in InConsensus /\ lock["cluster"] = t) => "ctx" \in chans
    /\ \A t \in Threads : pc[t] \in Stopping => ConsensusGone
    /\ \A k \in Servers : k \in down => go[k] = "end"
    /\ \A t \in Threads : pc[t] \in {"stop ipfs", "wait ipfs", "finish"} => "api" \in down
    /\ \A t \in Threads : pc[t] = "finish" => "ipfs" \in down
    /\ "done" \in chans => "ctx" \in chans /\ ConsensusGone /\ Servers \subseteq down

(* The inductive invariant, without what it says of panics and with it. *)
Life == Shape /\ Locks /\ Started /\ Channels /\ Stops
LifeInv == Life /\ NoPanic

(* The places are expanded everywhere; the invariant's parts are not. *)
USE DEF Threads, Servers, Nobody, Goto, parts, rest, InRaft, InConsensus, Stopping, InLock,
        Returning, AnyShutdown, Clientless, Joining

-----------------------------------------------------------------------------
(* Steps that end the process.                                             *)

LEMMA EndsLife ==
    ASSUME Life, NEW how \in {"exited", "panic"}, Ends(how),
           early' \in BOOLEAN, early => early'
    PROVE  Life'
  <1> USE DEF Ends
  <1>1. Shape'
    BY DEF Life, Shape
  <1>2. Locks'
    BY DEF Life, Locks
  <1>3. Started'
    BY DEF Life, Started
  <1>4. Channels'
    BY DEF Life, Channels
  <1>5. Stops'
    BY DEF Life, Stops, ConsensusGone
  <1> QED
    BY <1>1, <1>2, <1>3, <1>4, <1>5 DEF Life

-----------------------------------------------------------------------------
(* NewCluster after SetClient, and the loop of the service. *)
(* NewCluster after SetClient, and the loop of the service. *)
(* NewCluster after SetClient, and the loop of the service. *)
LEMMA MainMovesLife ==
    ASSUME Life, NEW l \in Joining \cup {"lock"},
           pc["main"] \in Joining \/ (pc["main"] = "loop" /\ l = "lock"),
           Goto("main", l), UNCHANGED <<lock, parts, rest>>
    PROVE  Life'
  <1>1. Shape'
    BY DEF Life, Shape, Points
  <1>2. Locks'
    BY DEF Life, Shape, Locks
  <1>3. Started'
    BY DEF Life, Shape, Locks, Started
  <1>4. Channels'
    BY DEF Life, Shape, Locks, Started, Channels
  <1>5. Stops'
    <2>1. \A u \in Threads : pc'[u] = "cs wait" => raft' = "down"
      BY DEF Life, Shape, Locks, Started, Channels, Stops, ConsensusGone
    <2>2. "consensus" \in down' => consensus' /\ raft' = "down" /\ go'["runner"] = "end"
      BY DEF Life, Shape, Locks, Started, Channels, Stops, ConsensusGone
    <2>3. \A u \in Threads :
            pc'[u] \in Stopping \/ (pc'[u] \in InConsensus /\ lock'["cluster"] = u) => "ctx" \in chans'
      BY DEF Life, Shape, Locks, Started, Channels, Stops, ConsensusGone
    <2>4. \A u \in Threads : pc'[u] \in Stopping => ConsensusGone'
      BY DEF Life, Shape, Locks, Started, Channels, Stops, ConsensusGone
    <2>5. \A j \in Servers : j \in down' => go'[j] = "end"
      BY DEF Life, Shape, Locks, Started, Channels, Stops, ConsensusGone
    <2>6. \A u \in Threads : pc'[u] \in {"stop ipfs", "wait ipfs", "finish"} => "api" \in down'
      BY DEF Life, Shape, Locks, Started, Channels, Stops, ConsensusGone
    <2>7. \A u \in Threads : pc'[u] = "finish" => "ipfs" \in down'
      BY DEF Life, Shape, Locks, Started, Channels, Stops, ConsensusGone
    <2>8. "done" \in chans' => "ctx" \in chans' /\ ConsensusGone' /\ Servers \subseteq down'
      BY DEF Life, Shape, Locks, Started, Channels, Stops, ConsensusGone
    <2> QED
      BY <2>1, <2>2, <2>3, <2>4, <2>5, <2>6, <2>7, <2>8 DEF Stops
  <1> QED
    BY <1>1, <1>2, <1>3, <1>4, <1>5 DEF Life

(* NewCluster before there is a Consensus. *)
LEMMA MainSetsUpLife ==
    ASSUME Life, NEW l \in {"cons", "lock"}, pc["main"] \in {"rpc", "cons"},
           Goto("main", l), UNCHANGED <<lock, parts, rest>>
    PROVE  Life'
  <1>1. Shape'
    BY DEF Life, Shape, Points
  <1>2. Locks'
    BY DEF Life, Shape, Locks
  <1>3. Started'
    BY DEF Life, Shape, Locks, Started
  <1>4. Channels'
    BY DEF Life, Shape, Locks, Started, Channels
  <1>5. Stops'
    BY DEF Life, Shape, Locks, Started, Channels, Stops, ConsensusGone
  <1> QED
    BY <1>1, <1>2, <1>3, <1>4, <1>5 DEF Life

(* Consensus is created. *)
LEMMA MakesConsensusLife ==
    ASSUME Life, pc["main"] = "cons", Goto("main", "set ipfs"),
           raft' = "up", go' = [go EXCEPT !["runner"] = "run"], consensus' = TRUE,
           UNCHANGED <<lock, down, client, rpcReady, listener, chans, rest>>
    PROVE  Life'
  <1>1. Shape'
    BY DEF Life, Shape, Points
  <1>2. Locks'
    BY DEF Life, Shape, Locks
  <1>3. Started'
    BY DEF Life, Shape, Locks, Started
  <1>4. Channels'
    BY DEF Life, Shape, Locks, Started, Channels
  <1>5. Stops'
    BY DEF Life, Shape, Locks, Started, Channels, Stops, ConsensusGone
  <1> QED
    BY <1>1, <1>2, <1>3, <1>4, <1>5 DEF Life

LEMMA StartReadyLife ==
    ASSUME Life, StartReady
    PROVE  Life'
  <1> USE DEF StartReady
  <1>1. Shape'
    BY DEF Life, Shape, Points
  <1>2. Locks'
    <2>1. /\ pc["main"] = "start" /\ pc["ready"] = "none" /\ lock' = lock
          /\ pc'["main"] = "loop" /\ pc'["ready"] = "select" /\ pc'["remover"] = pc["remover"]
      BY DEF Life, Shape, Started
    <2> QED
      BY <2>1 DEF Life, Locks
  <1>3. Started'
    BY DEF Life, Shape, Locks, Started
  <1>4. Channels'
    BY DEF Life, Shape, Locks, Started, Channels
  <1>5. Stops'
    BY DEF Life, Shape, Locks, Started, Channels, Stops, ConsensusGone
  <1> QED
    BY <1>1, <1>2, <1>3, <1>4, <1>5 DEF Life

LEMMA ReadyTimeoutLife ==
    ASSUME Life, ReadyTimeout
    PROVE  Life'
  <1> USE DEF ReadyTimeout
  <1>1. Shape'
    BY DEF Life, Shape, Points
  <1>2. Locks'
    BY DEF Life, Shape, Locks
  <1>3. Started'
    BY DEF Life, Shape, Locks, Started
  <1>4. Channels'
    BY DEF Life, Shape, Locks, Started, Channels
  <1>5. Stops'
    BY DEF Life, Shape, Locks, Started, Channels, Stops, ConsensusGone
  <1> QED
    BY <1>1, <1>2, <1>3, <1>4, <1>5 DEF Life

LEMMA ReadyLife ==
    ASSUME Life, Ready
    PROVE  Life'
  <1> USE DEF Ready, Signal
  <1>1. Shape'
    BY DEF Life, Shape, Points
  <1>2. Locks'
    BY DEF Life, Shape, Locks
  <1>3. Started'
    BY DEF Life, Shape, Locks, Started
  <1>4. Channels'
    BY DEF Life, Shape, Locks, Started, Channels
  <1>5. Stops'
    BY DEF Life, Shape, Locks, Started, Channels, Stops, ConsensusGone
  <1> QED
    BY <1>1, <1>2, <1>3, <1>4, <1>5 DEF Life

LEMMA RunLife ==
    ASSUME Life, Run
    PROVE  Life'
  <1> USE DEF Run
  <1>1. Shape'
    BY DEF Life, Shape, Points
  <1>2. Locks'
    BY DEF Life, Shape, Locks
  <1>3. Started'
    BY DEF Life, Shape, Locks, Started
  <1>4. Channels'
    BY DEF Life, Shape, Locks, Started, Channels
  <1>5. Stops'
    BY DEF Life, Shape, Locks, Started, Channels, Stops, ConsensusGone
  <1> QED
    BY <1>1, <1>2, <1>3, <1>4, <1>5 DEF Life

LEMMA WatchersExitLife ==
    ASSUME Life, WatchersExit
    PROVE  Life'
  <1> USE DEF WatchersExit
  <1>1. Shape'
    BY DEF Life, Shape, Points
  <1>2. Locks'
    BY DEF Life, Shape, Locks
  <1>3. Started'
    BY DEF Life, Shape, Locks, Started
  <1>4. Channels'
    BY DEF Life, Shape, Locks, Started, Channels
  <1>5. Stops'
    BY DEF Life, Shape, Locks, Started, Channels, Stops, ConsensusGone
  <1> QED
    BY <1>1, <1>2, <1>3, <1>4, <1>5 DEF Life

LEMMA RmPeerShutdownLife ==
    ASSUME Life, RmPeerShutdown
    PROVE  Life'
  <1> USE DEF RmPeerShutdown
  <1>1. Shape'
    BY DEF Life, Shape, Points
  <1>2. Locks'
    BY DEF Life, Shape, Locks
  <1>3. Started'
    BY DEF Life, Shape, Locks, Started
  <1>4. Channels'
    BY DEF Life, Shape, Locks, Started, Channels
  <1>5. Stops'
    BY DEF Life, Shape, Locks, Started, Channels, Stops, ConsensusGone
  <1> QED
    BY <1>1, <1>2, <1>3, <1>4, <1>5 DEF Life

LEMMA RemoverShutdownLife ==
    ASSUME Life, RemoverShutdown
    PROVE  Life'
  <1> USE DEF RemoverShutdown
  <1>1. Shape'
    BY DEF Life, Shape, Points
  <1>2. Locks'
    BY DEF Life, Shape, Locks
  <1>3. Started'
    BY DEF Life, Shape, Locks, Started
  <1>4. Channels'
    BY DEF Life, Shape, Locks, Started, Channels
  <1>5. Stops'
    BY DEF Life, Shape, Locks, Started, Channels, Stops, ConsensusGone
  <1> QED
    BY <1>1, <1>2, <1>3, <1>4, <1>5 DEF Life

LEMMA FinishLife ==
    ASSUME Life, NEW t \in Threads, Finish(t)
    PROVE  Life'
  <1> USE DEF Finish, Signal
  <1>1. Shape'
    BY DEF Life, Shape, Points
  <1>2. Locks'
    BY DEF Life, Shape, Locks
  <1>3. Started'
    BY DEF Life, Shape, Locks, Started
  <1>4. Channels'
    BY DEF Life, Shape, Locks, Started, Channels
  <1>5. Stops'
    <2>1. \A u \in Threads : pc'[u] = "cs wait" => raft' = "down"
      BY DEF Life, Shape, Locks, Started, Channels, Stops, ConsensusGone
    <2>2. "consensus" \in down' => consensus' /\ raft' = "down" /\ go'["runner"] = "end"
      BY DEF Life, Shape, Locks, Started, Channels, Stops, ConsensusGone
    <2>3. \A u \in Threads :
            pc'[u] \in Stopping \/ (pc'[u] \in InConsensus /\ lock'["cluster"] = u) => "ctx" \in chans'
      BY DEF Life, Shape, Locks, Started, Channels, Stops, ConsensusGone
    <2>4. \A u \in Threads : pc'[u] \in Stopping => ConsensusGone'
      BY DEF Life, Shape, Locks, Started, Channels, Stops, ConsensusGone
    <2>5. \A j \in Servers : j \in down' => go'[j] = "end"
      BY DEF Life, Shape, Locks, Started, Channels, Stops, ConsensusGone
    <2>6. \A u \in Threads : pc'[u] \in {"stop ipfs", "wait ipfs", "finish"} => "api" \in down'
      BY DEF Life, Shape, Locks, Started, Channels, Stops, ConsensusGone
    <2>7. \A u \in Threads : pc'[u] = "finish" => "ipfs" \in down'
      BY DEF Life, Shape, Locks, Started, Channels, Stops, ConsensusGone
    <2>8. "done" \in chans' => "ctx" \in chans' /\ ConsensusGone' /\ Servers \subseteq down'
      BY DEF Life, Shape, Locks, Started, Channels, Stops, ConsensusGone
    <2> QED
      BY <2>1, <2>2, <2>3, <2>4, <2>5, <2>6, <2>7, <2>8 DEF Stops
  <1> QED
    BY <1>1, <1>2, <1>3, <1>4, <1>5 DEF Life

LEMMA ErrorLife ==
    ASSUME Life, NEW t \in Threads, Error(t)
    PROVE  Life'
  <1> USE DEF Error
  <1>1. Shape'
    BY DEF Life, Shape, Points
  <1>2. Locks'
    BY DEF Life, Shape, Locks
  <1>3. Started'
    BY DEF Life, Shape, Locks, Started
  <1>4. Channels'
    BY DEF Life, Shape, Locks, Started, Channels
  <1>5. Stops'
    <2>1. \A u \in Threads : pc'[u] = "cs wait" => raft' = "down"
      BY DEF Life, Shape, Locks, Started, Channels, Stops, ConsensusGone
    <2>2. "consensus" \in down' => consensus' /\ raft' = "down" /\ go'["runner"] = "end"
      BY DEF Life, Shape, Locks, Started, Channels, Stops, ConsensusGone
    <2>3. \A u \in Threads :
            pc'[u] \in Stopping \/ (pc'[u] \in InConsensus /\ lock'["cluster"] = u) => "ctx" \in chans'
      BY DEF Life, Shape, Locks, Started, Channels, Stops, ConsensusGone
    <2>4. \A u \in Threads : pc'[u] \in Stopping => ConsensusGone'
      BY DEF Life, Shape, Locks, Started, Channels, Stops, ConsensusGone
    <2>5. \A j \in Servers : j \in down' => go'[j] = "end"
      BY DEF Life, Shape, Locks, Started, Channels, Stops, ConsensusGone
    <2>6. \A u \in Threads : pc'[u] \in {"stop ipfs", "wait ipfs", "finish"} => "api" \in down'
      BY DEF Life, Shape, Locks, Started, Channels, Stops, ConsensusGone
    <2>7. \A u \in Threads : pc'[u] = "finish" => "ipfs" \in down'
      BY DEF Life, Shape, Locks, Started, Channels, Stops, ConsensusGone
    <2>8. "done" \in chans' => "ctx" \in chans' /\ ConsensusGone' /\ Servers \subseteq down'
      BY DEF Life, Shape, Locks, Started, Channels, Stops, ConsensusGone
    <2> QED
      BY <2>1, <2>2, <2>3, <2>4, <2>5, <2>6, <2>7, <2>8 DEF Stops
  <1> QED
    BY <1>1, <1>2, <1>3, <1>4, <1>5 DEF Life

LEMMA ServerRunsLife ==
    ASSUME Life, NEW k \in Servers, ServerRuns(k)
    PROVE  Life'
  <1> USE DEF ServerRuns
  <1>1. Shape'
    BY DEF Life, Shape
  <1>2. Locks'
    BY DEF Life, Shape, Locks
  <1>3. Started'
    BY DEF Life, Shape, Locks, Started
  <1>4. Channels'
    BY DEF Life, Shape, Locks, Started, Channels
  <1>5. Stops'
    <2>1. \A u \in Threads : pc'[u] = "cs wait" => raft' = "down"
      BY DEF Life, Shape, Locks, Started, Channels, Stops, ConsensusGone
    <2>2. "consensus" \in down' => consensus' /\ raft' = "down" /\ go'["runner"] = "end"
      BY DEF Life, Shape, Locks, Started, Channels, Stops, ConsensusGone
    <2>3. \A u \in Threads :
            pc'[u] \in Stopping \/ (pc'[u] \in InConsensus /\ lock'["cluster"] = u) => "ctx" \in chans'
      BY DEF Life, Shape, Locks, Started, Channels, Stops, ConsensusGone
    <2>4. \A u \in Threads : pc'[u] \in Stopping => ConsensusGone'
      BY DEF Life, Shape, Locks, Started, Channels, Stops, ConsensusGone
    <2>5. \A j \in Servers : j \in down' => go'[j] = "end"
      BY DEF Life, Shape, Locks, Started, Channels, Stops, ConsensusGone
    <2>6. \A u \in Threads : pc'[u] \in {"stop ipfs", "wait ipfs", "finish"} => "api" \in down'
      BY DEF Life, Shape, Locks, Started, Channels, Stops, ConsensusGone
    <2>7. \A u \in Threads : pc'[u] = "finish" => "ipfs" \in down'
      BY DEF Life, Shape, Locks, Started, Channels, Stops, ConsensusGone
    <2>8. "done" \in chans' => "ctx" \in chans' /\ ConsensusGone' /\ Servers \subseteq down'
      BY DEF Life, Shape, Locks, Started, Channels, Stops, ConsensusGone
    <2> QED
      BY <2>1, <2>2, <2>3, <2>4, <2>5, <2>6, <2>7, <2>8 DEF Stops
  <1> QED
    BY <1>1, <1>2, <1>3, <1>4, <1>5 DEF Life

LEMMA ServerExitsLife ==
    ASSUME Life, NEW k \in Servers, ServerExits(k)
    PROVE  Life'
  <1> USE DEF ServerExits
  <1>1. Shape'
    BY DEF Life, Shape
  <1>2. Locks'
    BY DEF Life, Shape, Locks
  <1>3. Started'
    BY DEF Life, Shape, Locks, Started
  <1>4. Channels'
    BY DEF Life, Shape, Locks, Started, Channels
  <1>5. Stops'
    <2>1. \A u \in Threads : pc'[u] = "cs wait" => raft' = "down"
      BY DEF Life, Shape, Locks, Started, Channels, Stops, ConsensusGone
    <2>2. "consensus" \in down' => consensus' /\ raft' = "down" /\ go'["runner"] = "end"
      BY DEF Life, Shape, Locks, Started, Channels, Stops, ConsensusGone
    <2>3. \A u \in Threads :
            pc'[u] \in Stopping \/ (pc'[u] \in InConsensus /\ lock'["cluster"] = u) => "ctx" \in chans'
      BY DEF Life, Shape, Locks, Started, Channels, Stops, ConsensusGone
    <2>4. \A u \in Threads : pc'[u] \in Stopping => ConsensusGone'
      BY DEF Life, Shape, Locks, Started, Channels, Stops, ConsensusGone
    <2>5. \A j \in Servers : j \in down' => go'[j] = "end"
      BY DEF Life, Shape, Locks, Started, Channels, Stops, ConsensusGone
    <2>6. \A u \in Threads : pc'[u] \in {"stop ipfs", "wait ipfs", "finish"} => "api" \in down'
      BY DEF Life, Shape, Locks, Started, Channels, Stops, ConsensusGone
    <2>7. \A u \in Threads : pc'[u] = "finish" => "ipfs" \in down'
      BY DEF Life, Shape, Locks, Started, Channels, Stops, ConsensusGone
    <2>8. "done" \in chans' => "ctx" \in chans' /\ ConsensusGone' /\ Servers \subseteq down'
      BY DEF Life, Shape, Locks, Started, Channels, Stops, ConsensusGone
    <2> QED
      BY <2>1, <2>2, <2>3, <2>4, <2>5, <2>6, <2>7, <2>8 DEF Stops
  <1> QED
    BY <1>1, <1>2, <1>3, <1>4, <1>5 DEF Life

LEMMA RaftProgressLife ==
    ASSUME Life, RaftProgress
    PROVE  Life'
  <1> USE DEF RaftProgress
  <1>1. Shape'
    BY DEF Life, Shape, Points
  <1>2. Locks'
    BY DEF Life, Shape, Locks
  <1>3. Started'
    BY DEF Life, Shape, Locks, Started
  <1>4. Channels'
    BY DEF Life, Shape, Locks, Started, Channels
  <1>5. Stops'
    BY DEF Life, Shape, Locks, Started, Channels, Stops, ConsensusGone
  <1> QED
    BY <1>1, <1>2, <1>3, <1>4, <1>5 DEF Life

(* Shutdown takes the lock, *)
LEMMA EntersLife ==
    ASSUME Life, NEW t \in Threads, pc[t] = "lock", lock["cluster"] = Nobody, Goto(t, "leave"),
           lock' = [lock EXCEPT !["cluster"] = t], UNCHANGED <<parts, rest>>
    PROVE  Life'
  <1>1. Shape'
    BY DEF Life, Shape, Points
  <1>2. Locks'
    BY DEF Life, Shape, Locks
  <1>3. Started'
    BY DEF Life, Shape, Locks, Started
  <1>4. Channels'
    BY DEF Life, Shape, Locks, Started, Channels
  <1>5. Stops'
    <2>1. \A u \in Threads : pc'[u] = "cs wait" => raft' = "down"
      BY DEF Life, Shape, Locks, Started, Channels, Stops, ConsensusGone
    <2>2. "consensus" \in down' => consensus' /\ raft' = "down" /\ go'["runner"] = "end"
      BY DEF Life, Shape, Locks, Started, Channels, Stops, ConsensusGone
    <2>3. \A u \in Threads :
            pc'[u] \in Stopping \/ (pc'[u] \in InConsensus /\ lock'["cluster"] = u) => "ctx" \in chans'
      BY DEF Life, Shape, Locks, Started, Channels, Stops, ConsensusGone
    <2>4. \A u \in Threads : pc'[u] \in Stopping => ConsensusGone'
      BY DEF Life, Shape, Locks, Started, Channels, Stops, ConsensusGone
    <2>5. \A j \in Servers : j \in down' => go'[j] = "end"
      BY DEF Life, Shape, Locks, Started, Channels, Stops, ConsensusGone
    <2>6. \A u \in Threads : pc'[u] \in {"stop ipfs", "wait ipfs", "finish"} => "api" \in down'
      BY DEF Life, Shape, Locks, Started, Channels, Stops, ConsensusGone
    <2>7. \A u \in Threads : pc'[u] = "finish" => "ipfs" \in down'
      BY DEF Life, Shape, Locks, Started, Channels, Stops, ConsensusGone
    <2>8. "done" \in chans' => "ctx" \in chans' /\ ConsensusGone' /\ Servers \subseteq down'
      BY DEF Life, Shape, Locks, Started, Channels, Stops, ConsensusGone
    <2> QED
      BY <2>1, <2>2, <2>3, <2>4, <2>5, <2>6, <2>7, <2>8 DEF Stops
  <1> QED
    BY <1>1, <1>2, <1>3, <1>4, <1>5 DEF Life

(* or has nothing to do. *)
LEMMA LeavesLife ==
    ASSUME Life, NEW t \in Threads, pc[t] = "lock", Goto(t, "return"), UNCHANGED <<lock, parts, rest>>
    PROVE  Life'
  <1>1. Shape'
    BY DEF Life, Shape, Points
  <1>2. Locks'
    BY DEF Life, Shape, Locks
  <1>3. Started'
    BY DEF Life, Shape, Locks, Started
  <1>4. Channels'
    BY DEF Life, Shape, Locks, Started, Channels
  <1>5. Stops'
    <2>1. \A u \in Threads : pc'[u] = "cs wait" => raft' = "down"
      BY DEF Life, Shape, Locks, Started, Channels, Stops, ConsensusGone
    <2>2. "consensus" \in down' => consensus' /\ raft' = "down" /\ go'["runner"] = "end"
      BY DEF Life, Shape, Locks, Started, Channels, Stops, ConsensusGone
    <2>3. \A u \in Threads :
            pc'[u] \in Stopping \/ (pc'[u] \in InConsensus /\ lock'["cluster"] = u) => "ctx" \in chans'
      BY DEF Life, Shape, Locks, Started, Channels, Stops, ConsensusGone
    <2>4. \A u \in Threads : pc'[u] \in Stopping => ConsensusGone'
      BY DEF Life, Shape, Locks, Started, Channels, Stops, ConsensusGone
    <2>5. \A j \in Servers : j \in down' => go'[j] = "end"
      BY DEF Life, Shape, Locks, Started, Channels, Stops, ConsensusGone
    <2>6. \A u \in Threads : pc'[u] \in {"stop ipfs", "wait ipfs", "finish"} => "api" \in down'
      BY DEF Life, Shape, Locks, Started, Channels, Stops, ConsensusGone
    <2>7. \A u \in Threads : pc'[u] = "finish" => "ipfs" \in down'
      BY DEF Life, Shape, Locks, Started, Channels, Stops, ConsensusGone
    <2>8. "done" \in chans' => "ctx" \in chans' /\ ConsensusGone' /\ Servers \subseteq down'
      BY DEF Life, Shape, Locks, Started, Channels, Stops, ConsensusGone
    <2> QED
      BY <2>1, <2>2, <2>3, <2>4, <2>5, <2>6, <2>7, <2>8 DEF Stops
  <1> QED
    BY <1>1, <1>2, <1>3, <1>4, <1>5 DEF Life

(* Raft stops, and *)
LEMMA RaftStopsLife ==
    ASSUME Life, NEW t \in Threads, pc[t] = "cs raft",
           raft' = "down", Goto(t, "cs wait"),
           UNCHANGED <<lock, down, consensus, client, rpcReady, listener, chans, go, rest>>
    PROVE  Life'
  <1>1. Shape'
    BY DEF Life, Shape, Points
  <1>2. Locks'
    BY DEF Life, Shape, Locks
  <1>3. Started'
    BY DEF Life, Shape, Locks, Started
  <1>4. Channels'
    BY DEF Life, Shape, Locks, Started, Channels
  <1>5. Stops'
    BY DEF Life, Shape, Locks, Started, Channels, Stops, ConsensusGone
  <1> QED
    BY <1>1, <1>2, <1>3, <1>4, <1>5 DEF Life

(* or it does not. *)
LEMMA RaftFailsLife ==
    ASSUME Life, NEW t \in Threads, NEW l \in {"error", "reset"},
           lock["cluster"] = t => l = "error", lock["cluster"] # t => l = "reset",
           pc[t] = "cs raft", Goto(t, l),
           raft' \in {raft, "down"}, failed' = TRUE,
           lock' = [lock EXCEPT !["consensus"] = Nobody],
           UNCHANGED <<down, consensus, client, rpcReady, listener, chans, go, leave, net, end, early>>
    PROVE  Life'
  <1>1. Shape'
    BY DEF Life, Shape, Points
  <1>2. Locks'
    BY DEF Life, Shape, Locks
  <1>3. Started'
    BY DEF Life, Shape, Locks, Started
  <1>4. Channels'
    BY DEF Life, Shape, Locks, Started, Channels
  <1>5. Stops'
    <2>1. \A u \in Threads : pc'[u] = "cs wait" => raft' = "down"
      BY DEF Life, Shape, Locks, Started, Channels, Stops, ConsensusGone
    <2>2. "consensus" \in down' => consensus' /\ raft' = "down" /\ go'["runner"] = "end"
      BY DEF Life, Shape, Locks, Started, Channels, Stops, ConsensusGone
    <2>3. \A u \in Threads :
            pc'[u] \in Stopping \/ (pc'[u] \in InConsensus /\ lock'["cluster"] = u) => "ctx" \in chans'
      BY DEF Life, Shape, Locks, Started, Channels, Stops, ConsensusGone
    <2>4. \A u \in Threads : pc'[u] \in Stopping => ConsensusGone'
      BY DEF Life, Shape, Locks, Started, Channels, Stops, ConsensusGone
    <2>5. \A j \in Servers : j \in down' => go'[j] = "end"
      BY DEF Life, Shape, Locks, Started, Channels, Stops, ConsensusGone
    <2>6. \A u \in Threads : pc'[u] \in {"stop ipfs", "wait ipfs", "finish"} => "api" \in down'
      BY DEF Life, Shape, Locks, Started, Channels, Stops, ConsensusGone
    <2>7. \A u \in Threads : pc'[u] = "finish" => "ipfs" \in down'
      BY DEF Life, Shape, Locks, Started, Channels, Stops, ConsensusGone
    <2>8. "done" \in chans' => "ctx" \in chans' /\ ConsensusGone' /\ Servers \subseteq down'
      BY DEF Life, Shape, Locks, Started, Channels, Stops, ConsensusGone
    <2> QED
      BY <2>1, <2>2, <2>3, <2>4, <2>5, <2>6, <2>7, <2>8 DEF Stops
  <1> QED
    BY <1>1, <1>2, <1>3, <1>4, <1>5 DEF Life

(* Consensus has stopped. *)
LEMMA StoppedLife ==
    ASSUME Life, NEW t \in Threads, NEW l \in {"stop api", "reset"},
           lock["cluster"] = t => l = "stop api", lock["cluster"] # t => l = "reset",
           pc[t] = "cs wait", go["runner"] = "end", Goto(t, l),
           down' = down \cup {"consensus"}, lock' = [lock EXCEPT !["consensus"] = Nobody],
           UNCHANGED <<consensus, client, rpcReady, listener, chans, go, raft, rest>>
    PROVE  Life'
  <1>1. Shape'
    BY DEF Life, Shape, Points
  <1>2. Locks'
    BY DEF Life, Shape, Locks
  <1>3. Started'
    BY DEF Life, Shape, Locks, Started
  <1>4. Channels'
    BY DEF Life, Shape, Locks, Started, Channels
  <1>5. Stops'
    <2>1. \A u \in Threads : pc'[u] = "cs wait" => raft' = "down"
      BY DEF Life, Shape, Locks, Started, Channels, Stops, ConsensusGone
    <2>2. "consensus" \in down' => consensus' /\ raft' = "down" /\ go'["runner"] = "end"
      BY DEF Life, Shape, Locks, Started, Channels, Stops, ConsensusGone
    <2>3. \A u \in Threads :
            pc'[u] \in Stopping \/ (pc'[u] \in InConsensus /\ lock'["cluster"] = u) => "ctx" \in chans'
      BY DEF Life, Shape, Locks, Started, Channels, Stops, ConsensusGone
    <2>4. \A u \in Threads : pc'[u] \in Stopping => ConsensusGone'
      BY DEF Life, Shape, Locks, Started, Channels, Stops, ConsensusGone
    <2>5. \A j \in Servers : j \in down' => go'[j] = "end"
      BY DEF Life, Shape, Locks, Started, Channels, Stops, ConsensusGone
    <2>6. \A u \in Threads : pc'[u] \in {"stop ipfs", "wait ipfs", "finish"} => "api" \in down'
      BY DEF Life, Shape, Locks, Started, Channels, Stops, ConsensusGone
    <2>7. \A u \in Threads : pc'[u] = "finish" => "ipfs" \in down'
      BY DEF Life, Shape, Locks, Started, Channels, Stops, ConsensusGone
    <2>8. "done" \in chans' => "ctx" \in chans' /\ ConsensusGone' /\ Servers \subseteq down'
      BY DEF Life, Shape, Locks, Started, Channels, Stops, ConsensusGone
    <2> QED
      BY <2>1, <2>2, <2>3, <2>4, <2>5, <2>6, <2>7, <2>8 DEF Stops
  <1> QED
    BY <1>1, <1>2, <1>3, <1>4, <1>5 DEF Life

(* Consensus had been stopped. *)
LEMMA StoppedBeforeLife ==
    ASSUME Life, NEW t \in Threads, NEW l \in {"stop api", "reset"},
           lock["cluster"] = t => l = "stop api", lock["cluster"] # t => l = "reset",
           pc[t] = "cs lock", "consensus" \in down, Goto(t, l),
           UNCHANGED <<lock, parts, rest>>
    PROVE  Life'
  <1>1. Shape'
    BY DEF Life, Shape, Points
  <1>2. Locks'
    BY DEF Life, Shape, Locks
  <1>3. Started'
    BY DEF Life, Shape, Locks, Started
  <1>4. Channels'
    BY DEF Life, Shape, Locks, Started, Channels
  <1>5. Stops'
    BY DEF Life, Shape, Locks, Started, Channels, Stops, ConsensusGone
  <1> QED
    BY <1>1, <1>2, <1>3, <1>4, <1>5 DEF Life

(* Consensus is being stopped. *)
LEMMA ClosesLife ==
    ASSUME Life, NEW t \in Threads, pc[t] = "cs lock", lock["consensus"] = Nobody, "consensus" \notin down,
           rpcReady["consensus"] # "closed",
           rpcReady' = [rpcReady EXCEPT !["consensus"] = "closed"],
           chans' = chans \cup {"shutdownCh"},
           lock' = [lock EXCEPT !["consensus"] = t], Goto(t, "cs raft"),
           UNCHANGED <<down, consensus, client, listener, go, raft, rest>>
    PROVE  Life'
  <1>1. Shape'
    BY DEF Life, Shape, Points
  <1>2. Locks'
    BY DEF Life, Shape, Locks
  <1>3. Started'
    BY DEF Life, Shape, Locks, Started
  <1>4. Channels'
    BY DEF Life, Shape, Locks, Started, Channels
  <1>5. Stops'
    BY DEF Life, Shape, Locks, Started, Channels, Stops, ConsensusGone
  <1> QED
    BY <1>1, <1>2, <1>3, <1>4, <1>5 DEF Life

(* A server is being stopped. *)
LEMMA StopsServerLife ==
    ASSUME Life, NEW t \in Threads, NEW k \in Servers, NEW l \in {"wait api", "wait ipfs"},
           pc[t] \in {"stop api", "stop ipfs"}, Goto(t, l),
           l = "wait ipfs" => pc[t] = "stop ipfs",
           rpcReady' = [rpcReady EXCEPT ![k] = "closed"],
           listener' = [listener EXCEPT ![k] = "closed"],
           UNCHANGED <<lock, down, consensus, client, chans, go, raft, rest>>
    PROVE  Life'
  <1>1. Shape'
    BY DEF Life, Shape, Points
  <1>2. Locks'
    BY DEF Life, Shape, Locks
  <1>3. Started'
    BY DEF Life, Shape, Locks, Started
  <1>4. Channels'
    BY DEF Life, Shape, Locks, Started, Channels
  <1>5. Stops'
    BY DEF Life, Shape, Locks, Started, Channels, Stops, ConsensusGone
  <1> QED
    BY <1>1, <1>2, <1>3, <1>4, <1>5 DEF Life

(* A server has stopped. *)
LEMMA StoppedServerLife ==
    ASSUME Life, NEW t \in Threads, NEW k \in Servers, NEW l \in {"stop ipfs", "finish"},
           pc[t] \in {"wait api", "wait ipfs"}, go[k] = "end", Goto(t, l),
           l = "stop ipfs" => k = "api",
           l = "finish" => k = "ipfs" /\ pc[t] = "wait ipfs",
           down' = down \cup {k},
           UNCHANGED <<lock, consensus, client, rpcReady, listener, chans, go, raft, rest>>
    PROVE  Life'
  <1>1. Shape'
    BY DEF Life, Shape, Points
  <1>2. Locks'
    BY DEF Life, Shape, Locks
  <1>3. Started'
    BY DEF Life, Shape, Locks, Started
  <1>4. Channels'
    BY DEF Life, Shape, Locks, Started, Channels
  <1>5. Stops'
    BY DEF Life, Shape, Locks, Started, Channels, Stops, ConsensusGone
  <1> QED
    BY <1>1, <1>2, <1>3, <1>4, <1>5 DEF Life

(* Consensus.run starts, and *)
LEMMA RunnerStartsLife ==
    ASSUME Life, go["runner"] = "run",
           go' = [go EXCEPT !["runner"] = "wait", !["fin"] = "sync"],
           UNCHANGED <<pc, lock, down, consensus, client, rpcReady, listener, chans, raft, rest>>
    PROVE  Life'
  <1>1. Shape'
    BY DEF Life, Shape
  <1>2. Locks'
    BY DEF Life, Shape, Locks
  <1>3. Started'
    BY DEF Life, Shape, Locks, Started
  <1>4. Channels'
    BY DEF Life, Shape, Locks, Started, Channels
  <1>5. Stops'
    BY DEF Life, Shape, Locks, Started, Channels, Stops, ConsensusGone
  <1> QED
    BY <1>1, <1>2, <1>3, <1>4, <1>5 DEF Life

(* ends. *)
LEMMA RunnerEndsLife ==
    ASSUME Life, go["runner"] = "wait", go' = [go EXCEPT !["runner"] = "end"],
           chans' = chans \cup {"consensus ctx"},
           UNCHANGED <<pc, lock, down, consensus, client, rpcReady, listener, raft, rest>>
    PROVE  Life'
  <1>1. Shape'
    BY DEF Life, Shape
  <1>2. Locks'
    BY DEF Life, Shape, Locks
  <1>3. Started'
    BY DEF Life, Shape, Locks, Started
  <1>4. Channels'
    BY DEF Life, Shape, Locks, Started, Channels
  <1>5. Stops'
    BY DEF Life, Shape, Locks, Started, Channels, Stops, ConsensusGone
  <1> QED
    BY <1>1, <1>2, <1>3, <1>4, <1>5 DEF Life

(* finishBootstrap goes on. *)
LEMMA FinGoesLife ==
    ASSUME Life, NEW l \in {"updates", "client", "rpc", "state", "end"},
           NEW r \in {"empty", "full", "closed"},
           l = "state" => client \/ rpcReady["consensus"] # "empty",
           r = rpcReady["consensus"] \/ (r = "empty" /\ rpcReady["consensus"] = "full"),
           go' = [go EXCEPT !["fin"] = l], rpcReady' = [rpcReady EXCEPT !["consensus"] = r],
           UNCHANGED <<pc, lock, down, consensus, client, listener, chans, raft, rest>>
    PROVE  Life'
  <1>1. Shape'
    <2>1. go' \in [Servers \cup {"runner", "fin", "watchers"} ->
             {"none", "wait", "serve", "run", "sync", "updates", "client", "rpc", "state", "end"}]
      BY DEF Life, Shape
    <2>2. rpcReady' \in [Servers \cup {"consensus"} -> {"empty", "full", "closed"}]
      BY DEF Life, Shape
    <2> QED
      BY <2>1, <2>2 DEF Life, Shape
  <1>2. Locks'
    BY DEF Life, Shape, Locks
  <1>3. Started'
    BY DEF Life, Shape, Locks, Started
  <1>4. Channels'
    BY DEF Life, Shape, Locks, Started, Channels
  <1>5. Stops'
    BY DEF Life, Shape, Locks, Started, Channels, Stops, ConsensusGone
  <1> QED
    BY <1>1, <1>2, <1>3, <1>4, <1>5 DEF Life

-----------------------------------------------------------------------------
(* The actions, one by one.                                                *)

(* A step after which the process still runs is no panic. *)
LEMMA GoesOn ==
    ASSUME Life', Alive, UNCHANGED end
    PROVE  LifeInv'
  BY DEF LifeInv, NoPanic, Alive

(* A panic in a known situation. *)
LEMMA KnownPanic ==
    ASSUME Life, Panic, early \/ failed \/ (leave /\ ~consensus)
    PROVE  LifeInv'
  <1>1. Life'
    BY EndsLife DEF Panic, Life, Shape
  <1> QED
    BY <1>1 DEF LifeInv, NoPanic, Panic, Ends

LEMMA Exits ==
    ASSUME Life, Exit
    PROVE  LifeInv'
  <1>1. Life'
    BY EndsLife DEF Exit, Life, Shape
  <1> QED
    BY <1>1 DEF LifeInv, NoPanic, Exit, Ends

LEMMA SetupRPCInv ==
    ASSUME Life, Alive, SetupRPC
    PROVE  LifeInv'
  <1>1. PICK ok \in BOOLEAN : Goto("main", IF ok THEN "cons" ELSE "lock")
    BY DEF SetupRPC
  <1>2. Life'
    BY <1>1, MainSetsUpLife DEF SetupRPC
  <1> QED
    BY <1>2, GoesOn DEF SetupRPC

LEMMA SetupConsensusInv ==
    ASSUME Life, Alive, SetupConsensus
    PROVE  LifeInv'
  <1> USE DEF SetupConsensus, NewConsensus, NewRaft
  <1>1. CASE consensus' = TRUE /\ NewConsensus /\ Goto("main", "set ipfs")
    BY <1>1, MakesConsensusLife, GoesOn
  <1>2. CASE Goto("main", "lock") /\ UNCHANGED <<consensus, raft, go>>
    BY <1>2, MainSetsUpLife, GoesOn
  <1> QED
    BY <1>1, <1>2

(* A channel that is closed while its client is being set was closed by a   *)
(* removal that came too early.                                            *)
LEMMA SetClientInv ==
    ASSUME Life, Alive, NEW k \in Servers \cup {"consensus"},
           NEW l \in {"set ipfs", "set api", "set cons"},
           NEW next \in {"set api", "set cons", "boot2"},
           k = "consensus" <=> next = "boot2", SetClient(k, l, next)
    PROVE  LifeInv'
  <1>1. CASE rpcReady[k] = "closed" /\ Panic
    <2>1. early
      BY <1>1 DEF Life, Started, Channels, SetClient
    <2> QED
      BY <1>1, <2>1, KnownPanic
  <1>2. CASE /\ rpcReady[k] = "empty" /\ rpcReady' = [rpcReady EXCEPT ![k] = "full"]
             /\ client' = (client \/ k = "consensus") /\ Goto("main", next)
             /\ UNCHANGED <<lock, down, consensus, listener, chans, go, raft, rest>>
    <2>1. pc["main"] = l /\ consensus /\ ~client /\ pc["ready"] = "none"
      BY DEF SetClient, Life, Started
    <2>2. Shape'
      BY <1>2, <2>1 DEF Life, Shape, Points
    <2>3. Locks'
      BY <1>2, <2>1 DEF Life, Shape, Locks
    <2>4. Started'
      BY <1>2, <2>1 DEF Life, Shape, Started
    <2>5. Channels'
      BY <1>2, <2>1 DEF Life, Shape, Started, Channels
    <2>6. Stops'
      BY <1>2, <2>1 DEF Life, Shape, Locks, Started, Channels, Stops, ConsensusGone
    <2> QED
      BY <1>2, <2>2, <2>3, <2>4, <2>5, <2>6, GoesOn DEF Life
  <1> QED
    BY <1>1, <1>2 DEF SetClient, Send

LEMMA BootstrapInv ==
    ASSUME Life, Alive, Bootstrap
    PROVE  LifeInv'
  <1>1. pc["main"] \in Joining /\ UNCHANGED <<lock, parts, rest>>
    BY DEF Bootstrap
  <1>2. PICK l \in Joining \cup {"lock"} : Goto("main", l)
    BY DEF Bootstrap
  <1> QED
    BY <1>1, <1>2, MainMovesLife, GoesOn

LEMMA JoinSyncInv ==
    ASSUME Life, Alive, JoinSync
    PROVE  LifeInv'
  <1>1. pc["main"] \in Joining /\ UNCHANGED <<lock, parts, rest>>
    BY DEF JoinSync
  <1>2. PICK l \in Joining \cup {"lock"} : Goto("main", l)
    BY DEF JoinSync
  <1> QED
    BY <1>1, <1>2, MainMovesLife, GoesOn

LEMMA StartInv ==
    ASSUME Life, Alive, Start
    PROVE  LifeInv'
  <1>1. CASE SetupRPCClients
    BY <1>1, SetClientInv DEF SetupRPCClients
  <1>2. CASE StartReady
    BY <1>2, StartReadyLife, GoesOn DEF StartReady
  <1> QED
    BY <1>1, <1>2, SetupRPCInv, SetupConsensusInv, BootstrapInv, JoinSyncInv DEF Start

(* The remover finds no Consensus when it was called too early. *)
LEMMA RemoverStopsInv ==
    ASSUME Life, Alive, RemoverStops
    PROVE  LifeInv'
  <1>1. CASE ~consensus /\ Panic
    <2>1. early
      BY <1>1 DEF Life, Started, RemoverStops
    <2> QED
      BY <1>1, <2>1, KnownPanic
  <1>2. CASE consensus /\ Goto("remover", "cs lock") /\ UNCHANGED <<lock, parts, rest>>
    <2>1. pc["remover"] = "sleep"
      BY DEF RemoverStops
    <2>2. Shape'
      BY <1>2, <2>1 DEF Life, Shape, Points
    <2>3. Locks'
      BY <1>2, <2>1 DEF Life, Shape, Locks
    <2>4. Started'
      BY <1>2, <2>1 DEF Life, Shape, Started
    <2>5. Channels'
      BY <1>2, <2>1 DEF Life, Shape, Started, Channels
    <2>6. Stops'
      BY <1>2, <2>1 DEF Life, Shape, Locks, Started, Channels, Stops, ConsensusGone
    <2> QED
      BY <1>2, <2>2, <2>3, <2>4, <2>5, <2>6, GoesOn DEF Life
  <1> QED
    BY <1>1, <1>2 DEF RemoverStops

(* Where Consensus.Shutdown returns to. *)
LEMMA Returns ==
    ASSUME NEW t \in Threads, NEW ok \in BOOLEAN, AfterConsensus(t, ok)
    PROVE  \E l \in {"stop api", "error", "reset"} :
             /\ Goto(t, l)
             /\ lock["cluster"] = t => l = IF ok THEN "stop api" ELSE "error"
             /\ lock["cluster"] # t => l = "reset"
  <1>1. CASE lock["cluster"] = t /\ ok
    BY <1>1 DEF AfterConsensus, InCluster
  <1>2. CASE lock["cluster"] = t /\ ~ok
    BY <1>2 DEF AfterConsensus, InCluster
  <1>3. CASE lock["cluster"] # t
    BY <1>3 DEF AfterConsensus, InCluster
  <1> QED
    BY <1>1, <1>2, <1>3

(* The channel is closed a second time only after Raft failed to stop. *)
LEMMA ConsensusShutdownInv ==
    ASSUME Life, Alive, NEW t \in Threads, ConsensusShutdown(t)
    PROVE  LifeInv'
  <1>1. pc[t] = "cs lock" /\ lock["consensus"] = Nobody
    BY DEF ConsensusShutdown
  <1>2. CASE AlreadyDown /\ AfterConsensus(t, TRUE) /\ UNCHANGED <<lock, parts, rest>>
    <2>1. PICK l \in {"stop api", "error", "reset"} :
             /\ Goto(t, l)
             /\ lock["cluster"] = t => l = "stop api"
             /\ lock["cluster"] # t => l = "reset"
      BY <1>2, Returns, Zenon
    <2>2. l \in {"stop api", "reset"}
      BY <2>1
    <2> QED
      BY <1>1, <1>2, <2>1, <2>2, StoppedBeforeLife, GoesOn DEF AlreadyDown
  <1>3. CASE ~AlreadyDown /\ rpcReady["consensus"] = "closed" /\ Panic
    <2>1. failed
      BY <1>1, <1>3 DEF Life, Channels, AlreadyDown
    <2> QED
      BY <1>3, <2>1, KnownPanic
  <1>4. CASE /\ ~AlreadyDown /\ rpcReady["consensus"] # "closed"
             /\ Close("consensus") /\ Signal({"shutdownCh"})
             /\ lock' = [lock EXCEPT !["consensus"] = t] /\ Goto(t, "cs raft")
             /\ UNCHANGED <<down, consensus, client, listener, go, raft, rest>>
    BY <1>1, <1>4, ClosesLife, GoesOn DEF AlreadyDown, Close, Signal
  <1> QED
    BY <1>2, <1>3, <1>4 DEF ConsensusShutdown

LEMMA RaftShutdownInv ==
    ASSUME Life, Alive, NEW t \in Threads, RaftShutdown(t)
    PROVE  LifeInv'
  <1>1. /\ pc[t] = "cs raft"
        /\ UNCHANGED <<down, consensus, client, rpcReady, listener, chans, go, leave, net, end, early>>
    BY DEF RaftShutdown
  <1>2. CASE raft' = "down" /\ Goto(t, "cs wait") /\ UNCHANGED <<lock, failed>>
    BY <1>1, <1>2, RaftStopsLife, GoesOn
  <1>3. CASE /\ raft' \in {raft, "down"} /\ failed' = TRUE
             /\ lock' = [lock EXCEPT !["consensus"] = Nobody] /\ AfterConsensus(t, FALSE)
    <2>1. PICK l \in {"stop api", "error", "reset"} :
             /\ Goto(t, l)
             /\ lock["cluster"] = t => l = "error"
             /\ lock["cluster"] # t => l = "reset"
      BY <1>3, Returns, Zenon
    <2>2. l \in {"error", "reset"}
      BY <2>1
    <2> QED
      BY <1>1, <1>3, <2>1, <2>2, RaftFailsLife, GoesOn
  <1> QED
    BY <1>2, <1>3 DEF RaftShutdown

LEMMA ConsensusStoppedInv ==
    ASSUME Life, Alive, NEW t \in Threads, ConsensusStopped(t)
    PROVE  LifeInv'
  <1>1. /\ pc[t] = "cs wait" /\ go["runner"] = "end"
        /\ down' = down \cup {"consensus"} /\ lock' = [lock EXCEPT !["consensus"] = Nobody]
        /\ AfterConsensus(t, TRUE)
        /\ UNCHANGED <<consensus, client, rpcReady, listener, chans, go, raft, rest>>
    BY DEF ConsensusStopped
  <1>2. PICK l \in {"stop api", "error", "reset"} :
           /\ Goto(t, l)
           /\ lock["cluster"] = t => l = "stop api"
           /\ lock["cluster"] # t => l = "reset"
    BY <1>1, Returns, Zenon
  <1>3. l \in {"stop api", "reset"}
    BY <1>2
  <1> QED
    BY <1>1, <1>2, <1>3, StoppedLife, GoesOn

LEMMA ShutdownInv ==
    ASSUME Life, Alive, NEW t \in Threads, Shutdown(t)
    PROVE  LifeInv'
  <1> USE DEF Shutdown
  <1>1. CASE "cluster" \in down
    BY <1>1, LeavesLife, GoesOn
  <1>2. CASE "cluster" \notin down
    BY <1>2, EntersLife, GoesOn
  <1> QED
    BY <1>1, <1>2

(* Only the main goroutine can be here without a Consensus. *)
LEMMA LeaveInv ==
    ASSUME Life, Alive, NEW t \in Threads, Leave(t)
    PROVE  LifeInv'
  <1>1. CASE leave /\ ~consensus /\ Panic
    BY <1>1, KnownPanic
  <1>2. ASSUME NEW l \in {"cs lock", "stop api"}, Goto(t, l), l = "cs lock" <=> consensus,
               Signal({"ctx"}),
               UNCHANGED <<lock, down, consensus, client, rpcReady, listener, go, raft, rest>>
        PROVE  LifeInv'
    <2> USE DEF Signal
    <2>1. pc[t] = "leave" /\ lock["cluster"] = t
      BY DEF Leave, Life, Locks
    <2>2. Shape'
      BY <1>2, <2>1 DEF Life, Shape, Points
    <2>3. Locks'
      BY <1>2, <2>1 DEF Life, Shape, Locks
    <2>4. Started'
      BY <1>2, <2>1 DEF Life, Shape, Started
    <2>5. Channels'
      BY <1>2, <2>1 DEF Life, Shape, Started, Channels
    <2>6. l = "stop api" => t = "main" /\ ConsensusGone
      BY <1>2, <2>1 DEF Life, Started, ConsensusGone
    <2>7. ConsensusGone => ConsensusGone'
      BY <1>2, <2>1 DEF Life, Shape, ConsensusGone
    <2>8. Stops'
      BY <1>2, <2>1, <2>6, <2>7 DEF Life, Shape, Stops
    <2> QED
      BY <1>2, <2>2, <2>3, <2>4, <2>5, <2>8, GoesOn DEF Life
  <1> QED
    BY <1>1, <1>2 DEF Leave

LEMMA StopServerInv ==
    ASSUME Life, Alive, NEW t \in Threads, NEW k \in Servers, StopServer(t, k)
    PROVE  LifeInv'
  <1>1. /\ pc[t] = IF k = "api" THEN "stop api" ELSE "stop ipfs"
        /\ Goto(t, IF k = "api" THEN "wait api" ELSE "wait ipfs")
    <2>1. CASE k = "api"
      BY <2>1 DEF StopServer, stopping, waiting
    <2>2. CASE k = "ipfs"
      BY <2>2 DEF StopServer, stopping, waiting
    <2> QED
      BY <2>1, <2>2
  <1>2. /\ rpcReady' = [rpcReady EXCEPT ![k] = "closed"]
        /\ listener' = [listener EXCEPT ![k] = "closed"]
        /\ UNCHANGED <<lock, down, consensus, client, chans, go, raft, rest>>
    BY DEF StopServer, CloseServer, Close
  <1> QED
    BY <1>1, <1>2, StopsServerLife, GoesOn

LEMMA ServerStoppedInv ==
    ASSUME Life, Alive, NEW t \in Threads, NEW k \in Servers, ServerStopped(t, k)
    PROVE  LifeInv'
  <1>1. /\ pc[t] = IF k = "api" THEN "wait api" ELSE "wait ipfs"
        /\ Goto(t, IF k = "api" THEN "stop ipfs" ELSE "finish")
    <2>1. CASE k = "api"
      BY <2>1 DEF ServerStopped, waiting
    <2>2. CASE k = "ipfs"
      BY <2>2 DEF ServerStopped, waiting
    <2> QED
      BY <2>1, <2>2
  <1>2. /\ go[k] = "end" /\ down' = down \cup {k}
        /\ UNCHANGED <<lock, consensus, client, rpcReady, listener, chans, go, raft, rest>>
    BY DEF ServerStopped, ServerEnded
  <1> QED
    BY <1>1, <1>2, StoppedServerLife, GoesOn

LEMMA ReturnInv ==
    ASSUME Life, Alive, NEW t \in Threads, Return(t)
    PROVE  LifeInv'
  <1>1. CASE Exit
    BY <1>1, Exits
  <1>2. ASSUME NEW l \in {"loop", "run", "end"}, Goto(t, l), UNCHANGED <<lock, parts, rest>>,
               l = "loop" <=> t = "main", t = "main" => pc["ready"] # "none"
        PROVE  LifeInv'
    <2>1. pc[t] \in Returning
      BY DEF Return
    <2>2. Shape'
      <3>1. l \in Points
        BY <1>2 DEF Points
      <3> QED
        BY <1>2, <3>1 DEF Life, Shape
    <2>3. Locks'
      BY <1>2, <2>1 DEF Life, Shape, Locks
    <2>4. Started'
      BY <1>2, <2>1 DEF Life, Shape, Started
    <2>5. Channels'
      BY <1>2, <2>1 DEF Life, Shape, Started, Channels
    <2>6. ConsensusGone => ConsensusGone'
      BY <1>2, <2>1 DEF Life, Shape, ConsensusGone
    <2>7. Stops'
      BY <1>2, <2>1, <2>6 DEF Life, Shape, Stops
    <2> QED
      BY <1>2, <2>2, <2>3, <2>4, <2>5, <2>7, GoesOn DEF Life
  <1>3. CASE ~Exit
    <2>1. /\ UNCHANGED <<lock, parts, rest>>
          /\ t = "main" => pc["ready"] # "none"
          /\ Goto(t, CASE t = "main" -> "loop" [] t = "ready" -> "run" [] t = "remover" -> "end")
      BY <1>3 DEF Return
    <2>2. CASE t = "main"
      BY <2>1, <2>2, <1>2
    <2>3. CASE t = "ready"
      BY <2>1, <2>3, <1>2
    <2>4. CASE t = "remover"
      BY <2>1, <2>4, <1>2
    <2> QED
      BY <2>2, <2>3, <2>4
  <1> QED
    BY <1>1, <1>3

LEMMA ShutdownStepInv ==
    ASSUME Life, Alive, NEW t \in Threads, ShutdownStep(t)
    PROVE  LifeInv'
  <1>1. CASE Finish(t)
    BY <1>1, FinishLife, GoesOn DEF Finish
  <1>2. CASE Error(t)
    BY <1>2, ErrorLife, GoesOn DEF Error
  <1> QED
    BY <1>1, <1>2, ShutdownInv, LeaveInv, ReturnInv, ConsensusShutdownInv, RaftShutdownInv,
       ConsensusStoppedInv, StopServerInv, ServerStoppedInv DEF ShutdownStep

LEMMA RunnerInv ==
    ASSUME Life, Alive, Runner
    PROVE  LifeInv'
  <1> USE DEF Runner, Signal
  <1>1. CASE /\ go["runner"] = "run" /\ UNCHANGED chans
             /\ go' = [go EXCEPT !["runner"] = "wait", !["fin"] = "sync"]
    BY <1>1, RunnerStartsLife, GoesOn
  <1>2. CASE /\ go["runner"] = "wait" /\ Signal({"consensus ctx"})
             /\ go' = [go EXCEPT !["runner"] = "end"]
    BY <1>2, RunnerEndsLife, GoesOn
  <1> QED
    BY <1>1, <1>2

LEMMA FinishBootstrapInv ==
    ASSUME Life, Alive, FinishBootstrap
    PROVE  LifeInv'
  <1>1. PICK l \in {"updates", "client", "rpc", "state", "end"} :
           /\ go' = [go EXCEPT !["fin"] = l]
           /\ l = "state" => client \/ rpcReady["consensus"] # "empty"
    BY DEF FinishBootstrap
  <1>2. PICK r \in {"empty", "full", "closed"} :
           /\ r = rpcReady["consensus"] \/ (r = "empty" /\ rpcReady["consensus"] = "full")
           /\ rpcReady' = [rpcReady EXCEPT !["consensus"] = r]
    BY DEF FinishBootstrap, Life, Shape
  <1>3. UNCHANGED <<pc, lock, down, consensus, client, listener, chans, raft, rest>>
    BY DEF FinishBootstrap
  <1> QED
    BY <1>1, <1>2, <1>3, FinGoesLife, GoesOn

(* The client is missing when the channel was closed by a removal that     *)
(* came too early.                                                         *)
LEMMA FinishReadyInv ==
    ASSUME Life, Alive, FinishReady
    PROVE  LifeInv'
  <1>1. CASE ~client /\ Panic
    <2>1. early
      BY <1>1 DEF FinishReady, Life, Channels
    <2> QED
      BY <1>1, <2>1, KnownPanic
  <1>2. CASE /\ go' = [go EXCEPT !["fin"] = "end"] /\ Signal({"consensus ready"})
             /\ UNCHANGED <<pc, lock, down, consensus, client, rpcReady, listener, raft, rest>>
    <2> USE DEF Signal
    <2>1. Shape'
      BY <1>2 DEF Life, Shape
    <2>2. Locks'
      BY <1>2 DEF Life, Locks
    <2>3. Started'
      BY <1>2 DEF Life, Shape, Started
    <2>4. Channels'
      BY <1>2 DEF Life, Shape, Channels
    <2>5. Stops'
      BY <1>2 DEF Life, Shape, Stops, ConsensusGone
    <2> QED
      BY <1>2, <2>1, <2>2, <2>3, <2>4, <2>5, GoesOn DEF Life
  <1> QED
    BY <1>1, <1>2 DEF FinishReady

LEMMA GoroutinesInv ==
    ASSUME Life, Alive, Goroutines
    PROVE  LifeInv'
  <1>1. CASE WatchersExit
    BY <1>1, WatchersExitLife, GoesOn DEF WatchersExit
  <1>2. ASSUME NEW k \in Servers, ServerRuns(k)
        PROVE  LifeInv'
    BY <1>2, ServerRunsLife, GoesOn DEF ServerRuns
  <1>3. ASSUME NEW k \in Servers, ServerExits(k)
        PROVE  LifeInv'
    BY <1>3, ServerExitsLife, GoesOn DEF ServerExits
  <1> QED
    BY <1>1, <1>2, <1>3, RunnerInv, FinishBootstrapInv, FinishReadyInv DEF Goroutines

LEMMA EarlyApplyInv ==
    ASSUME Life, EarlyApply
    PROVE  LifeInv'
  <1>1. Life'
    BY EndsLife DEF EarlyApply
  <1> QED
    BY <1>1 DEF LifeInv, NoPanic, EarlyApply

-----------------------------------------------------------------------------
(* The theorems.                                                           *)

LEMMA LifeInit ==
    ASSUME Init
    PROVE  LifeInv
  <1> USE DEF Init, NewServer
  <1>1. Shape
    BY ConfigAssumption DEF Shape, Points
  <1>2. Locks
    BY DEF Locks
  <1>3. Started
    BY DEF Started
  <1>4. Channels
    BY DEF Channels
  <1>5. Stops
    BY DEF Stops
  <1>6. NoPanic
    BY DEF NoPanic
  <1> QED
    BY <1>1, <1>2, <1>3, <1>4, <1>5, <1>6 DEF LifeInv, Life

LEMMA LifeNext ==
    ASSUME LifeInv, [Next]_vars
    PROVE  LifeInv'
  <1>1. Life
    BY DEF LifeInv
  <1>2. CASE UNCHANGED vars
    <2> USE <1>2 DEF vars, LifeInv, Life
    <2>1. Shape'
      BY DEF Shape
    <2>2. Locks' /\ Started'
      BY DEF Locks, Started
    <2>3. Channels' /\ Stops' /\ NoPanic'
      BY DEF Channels, Stops, ConsensusGone, NoPanic
    <2> QED
      BY <2>1, <2>2, <2>3
  <1>3. CASE Alive /\ Interrupt
    <2>1. Life'
      BY <1>1, <1>3, MainMovesLife DEF Interrupt
    <2> QED
      BY <1>3, <2>1, GoesOn DEF Interrupt
  <1>4. CASE MainDone
    BY <1>1, <1>4, Exits DEF MainDone
  <1>5. CASE Alive /\ ReadyTimeout
    BY <1>1, <1>5, ReadyTimeoutLife, GoesOn DEF ReadyTimeout
  <1>6. CASE Alive /\ Ready
    BY <1>1, <1>6, ReadyLife, GoesOn DEF Ready
  <1>7. CASE Alive /\ Run
    BY <1>1, <1>7, RunLife, GoesOn DEF Run
  <1>8. CASE Alive /\ RmPeerShutdown
    BY <1>1, <1>8, RmPeerShutdownLife, GoesOn DEF RmPeerShutdown
  <1>9. CASE Alive /\ RemoverShutdown
    BY <1>1, <1>9, RemoverShutdownLife, GoesOn DEF RemoverShutdown
  <1>10. CASE Alive /\ RaftProgress
    BY <1>1, <1>10, RaftProgressLife, GoesOn DEF RaftProgress
  <1>11. CASE Alive /\ (Start \/ RemoverStops \/ Goroutines \/ EarlyApply)
    BY <1>1, <1>11, StartInv, RemoverStopsInv, GoroutinesInv, EarlyApplyInv
  <1>12. CASE Alive /\ \E t \in Threads : ShutdownStep(t)
    BY <1>1, <1>12, ShutdownStepInv
  <1> QED
    BY <1>2, <1>3, <1>4, <1>5, <1>6, <1>7, <1>8, <1>9, <1>10, <1>11, <1>12 DEF Next

LEMMA LifeAlways == Spec => []LifeInv
  BY LifeInit, LifeNext, PTL DEF Spec

(* Every variable keeps its type, and a lock is only held by a goroutine   *)
(* inside the Shutdown it guards, whatever the three goroutines do.        *)
THEOREM TypeCorrect == Spec => []TypeOK
  <1>1. LifeInv => TypeOK
    <2> SUFFICES ASSUME LifeInv PROVE TypeOK
      OBVIOUS
    <2>1. \A s \in DOMAIN lock : lock[s] = Nobody \/ (lock[s] \in Threads /\ InShutdown(lock[s]))
      <3>1. \A t \in Threads : lock["cluster"] = t \/ lock["consensus"] = t => InShutdown(t)
        BY DEF LifeInv, Life, Locks, InShutdown
      <3>2. lock \in [{"cluster", "consensus"} -> Threads \cup {Nobody}]
        BY DEF LifeInv, Life, Shape
      <3> QED
        BY <3>1, <3>2
    <2>2. {consensus, client, early, failed} \subseteq BOOLEAN
      BY DEF LifeInv, Life, Shape
    <2> QED
      BY <2>1, <2>2 DEF LifeInv, Life, Shape, TypeOK
  <1> QED
    BY <1>1, LifeAlways, PTL

(* No order of start, interrupt, timeout and removal makes the process     *)
(* panic, outside the three situations that NoPanic names.                 *)
THEOREM PanicsAreKnown == Spec => []NoPanic
  <1>1. LifeInv => NoPanic
    BY DEF LifeInv
  <1> QED
    BY <1>1, LifeAlways, PTL

(* When Done() is signalled, Raft, Consensus, the REST API and the proxy   *)
(* have been stopped, whichever goroutine ran Shutdown.                    *)
THEOREM DoneIsStopped == Spec => []DoneMeansStopped
  <1>1. LifeInv => DoneMeansStopped
    BY DEF LifeInv, Life, Shape, Started, Channels, Stops, ConsensusGone, DoneMeansStopped
  <1> QED
    BY <1>1, LifeAlways, PTL
=============================================================================
