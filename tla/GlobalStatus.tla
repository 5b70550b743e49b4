---------------------------- MODULE GlobalStatus ----------------------------
(***************************************************************************)
(* Cluster-wide questions: Status, StatusAll, Sync, SyncAll, Recover and   *)
(* Peers of one cluster peer (Self), which ask every member at once        *)
(* (multiRPC) and merge what comes back (globalPinInfoCid,                 *)
(* globalPinInfoSlice).                                                    *)
(*                                                                         *)
(* multiRPC runs one goroutine per member.  Each call runs a handler at    *)
(* the member, whose answer then travels back, or fails on the way there   *)
(* or back.  A handler's error travels together with its reply: the RPC    *)
(* library fills the reply in both cases.  Meanwhile the trackers, the     *)
(* daemons, the connections and the peer manager's map keep changing.  A   *)
(* handler is one step here; its own steps are those of PinTracker.        *)
(*                                                                         *)
(* The replies of one call are indexed by member instead of by position.   *)
(* Times and error texts are left out.  A behaviour asks one question, of  *)
(* a cluster in any state.                                                 *)
(***************************************************************************)
EXTENDS Naturals, FiniteSets

CONSTANTS
    Peers, Self,
    Cids,
    None,        \* no peer, no Cid: what the empty string decodes to
    Starts,      \* the statuses trackers have at the start
    Moves,       \* the statuses trackers change to by themselves
    MaxChanges   \* bound on what changes by itself

ASSUME SelfAssumption == Self \in Peers
ASSUME NoneAssumption == None \notin Peers \cup Cids

VARIABLES
    status,   \* status[p][c]: in p's tracker; "Unpinned" if it has no entry
    daemon,   \* the peers whose IPFS daemon answers
    up,       \* the peers that can be reached
    members,  \* Self's peermap
    changes,
    \* The question.
    phase,    \* "idle", "asking", "answered"
    method, cid,
    dests,    \* what peerManager.peers() returned
    flight,   \* flight[p]: {}, or what p's handler returned, on its way back
    called,   \* the members whose call has returned
    replies, errs,
    answer,   \* the merged answer: answer[c][p]
    seen      \* history: the statuses p's tracker had for c while asking

world == <<status, daemon, up, members, changes>>
ask == <<phase, method, cid, dests>>
vars == <<status, daemon, up, members, changes, phase, method, cid, dests,
          flight, called, replies, errs, answer, seen>>

TrackerStatus == {"Unpinned", "Unpinning", "UnpinError",
                  "Pinned", "Pinning", "PinError", "Remote"}
ErrorStatus == {"PinError", "UnpinError"}
ASSUME StatusAssumption == Starts \cup Moves \subseteq TrackerStatus

CidMethods == {"TrackerStatus", "SyncLocal", "TrackerRecover"}
SliceMethods == {"TrackerStatusAll", "SyncAllLocal"}

(* The error of an entry of a tracker, of a handler, or of the connection. *)
Errors == {"none", "tracker", "handler", "transport"}

(* Cid and Peer are None where the empty string was decoded.               *)
PinInfo == [Cid : Cids \cup {None}, Peer : Peers \cup {None},
            Status : TrackerStatus \cup {"Bug", "ClusterError"}, Error : Errors]

-----------------------------------------------------------------------------
(* Conversions.                                                            *)

trackerStatusString ==
    [Bug |-> "bug", ClusterError |-> "cluster_error", PinError |-> "pin_error",
     UnpinError |-> "unpin_error", Pinned |-> "pinned", Pinning |-> "pinning",
     Unpinning |-> "unpinning", Unpinned |-> "unpinned", Remote |-> "remote"]

(* A string that is none of these is a bug.                                *)
TrackerStatusFromString_Raw(str) ==
    LET named == {k \in DOMAIN trackerStatusString : trackerStatusString[k] = str}
    IN  IF named = {} THEN str ELSE CHOOSE k \in named : TRUE
TrackerStatusFromString(str) ==
    LET named == {k \in DOMAIN trackerStatusString : trackerStatusString[k] = str}
    IN  IF named = {} THEN "Bug" ELSE CHOOSE k \in named : TRUE

ToSerial(i) == [i EXCEPT !.Status = trackerStatusString[i.Status]]
ToPinInfo(s) == [s EXCEPT !.Status = TrackerStatusFromString(s.Status)]

(* A reply that was never filled in; the other replies are a set of        *)
(* PinInfoSerial, of one element for the methods on one Cid.               *)
EmptySerial == [Cid |-> None, Peer |-> None, Status |-> "", Error |-> "none"]
Empty(m) == IF m \in CidMethods THEN {EmptySerial} ELSE {}

-----------------------------------------------------------------------------
(* The handlers at a member, each with what the tracker then holds, what   *)
(* is replied and whether there is an error too.                           *)

(* MapPinTracker.unsafeSetError.                                           *)
setError(s) == CASE s \in {"Pinned", "Pinning", "PinError"} -> "PinError"
                 [] s \in {"Unpinned", "Unpinning", "UnpinError"} -> "UnpinError"
                 [] OTHER -> s

(* MapPinTracker.syncStatus: a timeout may always have expired.            *)
syncStatus(s, isPinned) ==
    IF isPinned
    THEN CASE s \in {"Pinning", "PinError"} -> {"Pinned"}
           [] s = "Unpinning" -> {s, setError(s)}
           [] s = "Unpinned" -> {setError(s)}
           [] OTHER -> {s}
    ELSE CASE s = "Pinned" -> {setError(s)}
           [] s = "Pinning" -> {s, setError(s)}
           [] s \in {"Unpinning", "UnpinError"} -> {"Unpinned"}
           [] OTHER -> {s}

info(p, c, s) == ToSerial([Cid |-> c, Peer |-> p, Status |-> s,
                           Error |-> IF s \in ErrorStatus THEN "tracker" ELSE "none"])

Outcome(p, c, s, e) == [now |-> [status[p] EXCEPT ![c] = s],
                        reply |-> {info(p, c, s)}, err |-> e]

TrackerGet(p, c) == {Outcome(p, c, status[p][c], "none")}

(* Without the daemon the tracker still answers, with an error status.     *)
SyncLocal_OnlyError(p, c) ==
    IF p \in daemon
    THEN {Outcome(p, c, s, "none") : s \in UNION {syncStatus(status[p][c], b) : b \in BOOLEAN}}
    ELSE {[Outcome(p, c, setError(status[p][c]), "handler") EXCEPT !.reply = {EmptySerial}]}
SyncLocal(p, c) ==
    IF p \in daemon
    THEN {Outcome(p, c, s, "none") : s \in UNION {syncStatus(status[p][c], b) : b \in BOOLEAN}}
    ELSE {Outcome(p, c, setError(status[p][c]), "handler")}

(* Recover pins or unpins again what is in error.                          *)
Recover(p, c) ==
    CASE status[p][c] \notin ErrorStatus -> {Outcome(p, c, status[p][c], "none")}
      [] p \notin daemon -> {Outcome(p, c, status[p][c], "handler")}
      [] OTHER -> {Outcome(p, c, IF status[p][c] = "PinError" THEN "Pinned" ELSE "Unpinned", "none")}

(* All that has an entry.                                                  *)
tracked(p) == {c \in Cids : status[p][c] # "Unpinned"}

TrackerStatusAll(p) ==
    {[now |-> status[p], reply |-> {info(p, c, status[p][c]) : c \in tracked(p)}, err |-> "none"]}

(* Replies what changed and what is in error; without the daemon, all.     *)
SyncAllLocal(p) ==
    IF p \in daemon
    THEN {[now |-> t,
           reply |-> {info(p, c, t[c]) : c \in {c \in tracked(p) : t[c] # status[p][c] \/ t[c] \in ErrorStatus}},
           err |-> "none"] :
             t \in {t \in [Cids -> TrackerStatus] :
                       \A c \in Cids : IF c \in tracked(p)
                                       THEN \E b \in BOOLEAN : t[c] \in syncStatus(status[p][c], b)
                                       ELSE t[c] = status[p][c]}}
    ELSE LET t == [c \in Cids |-> IF c \in tracked(p) THEN setError(status[p][c]) ELSE status[p][c]]
         IN  {[now |-> t, reply |-> {info(p, c, t[c]) : c \in tracked(p)}, err |-> "handler"]}

Handler(p) == CASE method = "TrackerStatus" -> TrackerGet(p, cid)
                [] method = "SyncLocal" -> SyncLocal(p, cid)
                [] method = "TrackerRecover" -> Recover(p, cid)
                [] method = "TrackerStatusAll" -> TrackerStatusAll(p)
                [] method = "SyncAllLocal" -> SyncAllLocal(p)

-----------------------------------------------------------------------------
(* multiRPC.                                                               *)

(* A tracker has a new map; the history takes note.                        *)
Holds(p, t) == /\ status' = [status EXCEPT ![p] = t]
               /\ seen' = [seen EXCEPT ![p] = [c \in Cids |-> @[c] \cup {t[c]}]]

Ask(m, c) ==
    /\ phase = "idle"
    /\ phase' = "asking" /\ method' = m /\ cid' = c
    /\ dests' = members
    /\ flight' = [p \in Peers |-> {}]
    /\ called' = {}
    /\ replies' = [p \in Peers |-> Empty(m)]
    /\ errs' = [p \in Peers |-> "none"]
    /\ answer' = [h \in {} |-> {}]
    /\ seen' = [p \in Peers |-> [h \in Cids |-> {status[p][h]}]]
    /\ UNCHANGED world

Status(c) == Ask("TrackerStatus", c)
Sync(c) == Ask("SyncLocal", c)
RecoverAll(c) == Ask("TrackerRecover", c)
StatusAll == Ask("TrackerStatusAll", None)
SyncAll == Ask("SyncAllLocal", None)

(* The request reaches p and its handler runs.                             *)
Serve(p) ==
    /\ phase = "asking" /\ p \in (dests \cap up) \ called /\ flight[p] = {}
    /\ \E o \in Handler(p) :
          /\ Holds(p, o.now)
          /\ flight' = [flight EXCEPT ![p] = {[reply |-> o.reply, err |-> o.err]}]
    /\ UNCHANGED <<daemon, up, members, changes, ask, called, replies, errs, answer>>

(* The slot in which the goroutine of p leaves what it got.                *)
Slot_Shared(p) == CHOOSE q \in dests : TRUE
Slot(p) == p

Returned(p, reply, err) ==
    /\ called' = called \cup {p}
    /\ replies' = [replies EXCEPT ![Slot(p)] = reply]
    /\ errs' = [errs EXCEPT ![Slot(p)] = err]
    /\ flight' = [flight EXCEPT ![p] = {}]
    /\ UNCHANGED <<world, ask, answer, seen>>

CallReturns(p) == \E f \in flight[p] : Returned(p, f.reply, f.err)

(* The peer cannot be reached, or the connection breaks after the handler  *)
(* has run.  A peer reaches itself without a connection.                   *)
CallFails(p) ==
    /\ phase = "asking" /\ p \in dests \ (called \cup {Self})
    /\ p \notin up
    /\ Returned(p, replies[p], "transport")

-----------------------------------------------------------------------------
(* globalPinInfoCid.                                                       *)

(* The entry for a member: a member that failed to reply is in             *)
(* ClusterError, one that replied with an error keeps its status.          *)
EntryOf(p) ==
    LET r == ToPinInfo(CHOOSE x \in replies[p] : TRUE)
    IN  CASE errs[p] = "none" -> r
          [] errs[p] # "none" /\ r.Status = "Bug" ->
                [Cid |-> r.Cid, Peer |-> p, Status |-> "ClusterError", Error |-> errs[p]]
          [] OTHER -> [r EXCEPT !.Error = errs[p]]

globalPinInfoCid == [c \in {cid} |-> [p \in dests |-> EntryOf(p)]]

-----------------------------------------------------------------------------
(* globalPinInfoSlice.                                                     *)

erroredPeers == {p \in dests : errs[p] # "none"}

(* The entries of the members that returned no error, by Cid and peer.     *)
merged == {ToPinInfo(s) : s \in UNION {replies[p] : p \in dests \ erroredPeers}}

(* An errored member is in ClusterError for every Cid that others listed.  *)
globalPinInfoSlice_ErrorsDropped ==
    [c \in {i.Cid : i \in merged} |->
        [p \in {i.Peer : i \in {j \in merged : j.Cid = c}} |->
            CHOOSE i \in merged : i.Cid = c /\ i.Peer = p]]
globalPinInfoSlice ==
    [c \in {i.Cid : i \in merged} |->
        [p \in {i.Peer : i \in {j \in merged : j.Cid = c}} \cup erroredPeers |->
            IF p \in erroredPeers
            THEN [Cid |-> c, Peer |-> p, Status |-> "ClusterError", Error |-> errs[p]]
            ELSE CHOOSE i \in merged : i.Cid = c /\ i.Peer = p]]

(* All calls have returned (wg.Wait).                                      *)
Merge ==
    /\ phase = "asking" /\ called = dests
    /\ answer' = IF method \in CidMethods THEN globalPinInfoCid ELSE globalPinInfoSlice
    /\ phase' = "answered"
    /\ UNCHANGED <<world, method, cid, dests, flight, called, replies, errs, seen>>

-----------------------------------------------------------------------------
(* What changes meanwhile: a tracker by its own operations, a daemon or a  *)
(* connection, the map of members.                                         *)

Change ==
    /\ changes < MaxChanges
    /\ changes' = changes + 1
    /\ UNCHANGED <<ask, flight, called, replies, errs, answer>>

TrackerMoves == /\ Change
                /\ \E p \in Peers, c \in Cids, s \in Moves :
                      s # status[p][c] /\ Holds(p, [status[p] EXCEPT ![c] = s])
                /\ UNCHANGED <<daemon, up, members>>

Toggle(S, x) == IF x \in S THEN S \ {x} ELSE S \cup {x}

DaemonToggles == /\ Change
                 /\ \E p \in Peers : daemon' = Toggle(daemon, p)
                 /\ UNCHANGED <<status, up, members, seen>>
PeerToggles == /\ Change
               /\ \E p \in Peers \ {Self} : up' = Toggle(up, p)
               /\ UNCHANGED <<status, daemon, members, seen>>
MemberToggles == /\ Change
                 /\ \E p \in Peers \ {Self} : members' = Toggle(members, p)
                 /\ UNCHANGED <<status, daemon, up, seen>>

-----------------------------------------------------------------------------
Init ==
    /\ status \in [Peers -> [Cids -> Starts]]
    /\ daemon \in SUBSET Peers
    /\ up \in {U \in SUBSET Peers : Self \in U}
    /\ members = Peers
    /\ changes = 0
    /\ phase = "idle" /\ method = "TrackerStatus" /\ cid = None
    /\ dests = {}
    /\ flight = [p \in Peers |-> {}]
    /\ called = {}
    /\ replies = [p \in Peers |-> {}]
    /\ errs = [p \in Peers |-> "none"]
    /\ answer = [h \in {} |-> {}]
    /\ seen = [p \in Peers |-> [h \in Cids |-> {status[p][h]}]]

Next ==
    \/ \E c \in Cids : Status(c) \/ Sync(c) \/ RecoverAll(c)
    \/ StatusAll \/ SyncAll
    \/ \E p \in Peers : Serve(p) \/ CallReturns(p) \/ CallFails(p)
    \/ Merge
    \/ TrackerMoves \/ DaemonToggles \/ PeerToggles \/ MemberToggles

Spec == Init /\ [][Next]_vars

-----------------------------------------------------------------------------
(* Properties.                                                             *)

(* Every variable has its type; the entries of an answer are PinInfos.     *)
TypeOK ==
    /\ status \in [Peers -> [Cids -> TrackerStatus]]
    /\ daemon \subseteq Peers
    /\ Self \in up /\ up \subseteq Peers
    /\ Self \in members /\ members \subseteq Peers
    /\ called \subseteq dests /\ dests \subseteq Peers
    /\ errs \in [Peers -> Errors]
    /\ DOMAIN answer \subseteq Cids
    /\ \A c \in DOMAIN answer : /\ DOMAIN answer[c] \subseteq dests
                               /\ \A p \in DOMAIN answer[c] : answer[c][p] \in PinInfo

Entries == {e \in Cids \X Peers : e[1] \in DOMAIN answer /\ e[2] \in DOMAIN answer[e[1]]}

(* What an answer says of a peer is true of that peer: its entry is its    *)
(* own, and gives a status its tracker had at some moment between the      *)
(* question and the answer, unless the entry says the peer failed.         *)
Truthful ==
    \A e \in Entries :
       LET i == answer[e[1]][e[2]]
       IN  /\ i.Peer = e[2]
           /\ i.Status # "ClusterError" => i.Status \in seen[e[2]][e[1]]

(* No member is silently left out: the answer about one Cid has every      *)
(* member the question went to; StatusAll has the entry of whatever such a *)
(* member tracked all the time, and SyncAll of what was in error all the   *)
(* time, if the member answered; and a member that failed is marked for    *)
(* every Cid of the answer.                                                *)
NobodyMissing ==
    phase = "answered" =>
       \A p \in dests, c \in Cids :
          /\ method \in CidMethods => (c = cid => <<c, p>> \in Entries)
          /\ (/\ method \in SliceMethods /\ p \notin erroredPeers
              /\ IF method = "TrackerStatusAll" THEN "Unpinned" \notin seen[p][c]
                                              ELSE seen[p][c] \subseteq ErrorStatus)
             => <<c, p>> \in Entries
          /\ p \in erroredPeers /\ c \in DOMAIN answer => <<c, p>> \in Entries

(* A member that answered is never reported as one the cluster cannot      *)
(* reach, although its daemon may be down and its handler return an error; *)
(* except by SyncAll, which takes every error for that.                    *)
ReachedIsNotBlamed ==
    \A e \in Entries :
       answer[e[1]][e[2]].Status = "ClusterError" /\ method # "SyncAllLocal"
          => errs[e[2]] = "transport"
=============================================================================
