------------------------- MODULE GlobalStatusProofs -------------------------
(***************************************************************************)
(* TLAPS proofs about GlobalStatus, for any peers and Cids, any statuses   *)
(* trackers start from and move to, and any number of changes while the    *)
(* question is under way: types, answers that are true, members that are   *)
(* not left out, and reached members that are not blamed.                  *)
(***************************************************************************)
EXTENDS GlobalStatus, TLAPS

-----------------------------------------------------------------------------
(* Conversions: a status survives the trip as a string.                    *)

(* The entry of p for c, decoded. *)
Entry(p, c, s) == [Cid |-> c, Peer |-> p, Status |-> s,
                   Error |-> IF s \in ErrorStatus THEN "tracker" ELSE "none"]

StatusNames == TrackerStatus \cup {"Bug", "ClusterError"}

(* Every status has a string of its own. *)
LEMMA StringsDistinct ==
    /\ DOMAIN trackerStatusString = StatusNames
    /\ \A s, t \in StatusNames : trackerStatusString[s] = trackerStatusString[t] => s = t
    /\ \A s \in StatusNames : trackerStatusString[s] # ""
  BY DEF trackerStatusString, StatusNames, TrackerStatus

(* Decoding finds the status back, and takes the empty string for a bug. *)
LEMMA Decoded ==
    /\ \A s \in StatusNames : TrackerStatusFromString(trackerStatusString[s]) = s
    /\ TrackerStatusFromString("") = "Bug"
  <1>1. ASSUME NEW s \in StatusNames
        PROVE  TrackerStatusFromString(trackerStatusString[s]) = s
    <2>1. {k \in DOMAIN trackerStatusString : trackerStatusString[k] = trackerStatusString[s]} = {s}
      BY StringsDistinct
    <2> QED
      BY <2>1 DEF TrackerStatusFromString
  <1>2. TrackerStatusFromString("") = "Bug"
    <2>1. {k \in DOMAIN trackerStatusString : trackerStatusString[k] = ""} = {}
      BY StringsDistinct
    <2> QED
      BY <2>1 DEF TrackerStatusFromString
  <1> QED
    BY <1>1, <1>2

(* What a handler encodes, the caller decodes to the entry meant. *)
LEMMA EntryDecoded ==
    ASSUME NEW p, NEW c, NEW s \in TrackerStatus
    PROVE  ToPinInfo(info(p, c, s)) = Entry(p, c, s)
  <1>1. info(p, c, s) = [Cid |-> c, Peer |-> p, Status |-> trackerStatusString[s],
                         Error |-> IF s \in ErrorStatus THEN "tracker" ELSE "none"]
    BY DEF info, ToSerial
  <1>2. TrackerStatusFromString(trackerStatusString[s]) = s
    BY Decoded DEF StatusNames
  <1> QED
    BY <1>1, <1>2 DEF ToPinInfo, Entry

(* An entry is well typed and shows a tracker's status. *)
LEMMA EntryFields ==
    ASSUME NEW p \in Peers, NEW c \in Cids, NEW s \in TrackerStatus
    PROVE  /\ Entry(p, c, s) \in PinInfo
           /\ Entry(p, c, s).Cid = c /\ Entry(p, c, s).Peer = p /\ Entry(p, c, s).Status = s
           /\ s \notin {"Bug", "ClusterError"}
  BY DEF Entry, PinInfo, Errors, TrackerStatus

(* A reply that never came decodes to a bug. *)
LEMMA EmptyDecoded == ToPinInfo(EmptySerial).Status = "Bug" /\ ToPinInfo(EmptySerial).Cid = None
  BY Decoded DEF ToPinInfo, EmptySerial

-----------------------------------------------------------------------------
(* The inductive invariant.                                                *)

Methods == CidMethods \cup SliceMethods

WorldOK ==
    /\ status \in [Peers -> [Cids -> TrackerStatus]]
    /\ daemon \subseteq Peers
    /\ Self \in up /\ up \subseteq Peers
    /\ Self \in members /\ members \subseteq Peers

(* The history has at least what the trackers hold. *)
SeenOK ==
    /\ seen \in [Peers -> [Cids -> SUBSET TrackerStatus]]
    /\ \A p \in Peers, c \in Cids : status[p][c] \in seen[p][c]

AskOK ==
    /\ phase \in {"idle", "asking", "answered"}
    /\ method \in Methods
    /\ method \in CidMethods /\ phase # "idle" => cid \in Cids
    /\ dests \subseteq Peers /\ called \subseteq dests
    /\ phase = "idle" => dests = {}
    /\ phase = "answered" => called = dests
    /\ replies = [p \in Peers |-> replies[p]]
    /\ errs \in [Peers -> Errors]

(* p's tracker had c in a way that an answer to this question must show. *)
MustShow(p, c) == IF method = "TrackerStatusAll" THEN "Unpinned" \notin seen[p][c]
                                                ELSE seen[p][c] \subseteq ErrorStatus

(* What p's handler may reply: statuses it had, and without an error all   *)
(* that must be shown.                                                     *)
GoodReply(p, reply, err) ==
    /\ err \in {"none", "handler"}
    /\ method \in CidMethods => \E s \in seen[p][cid] : reply = {info(p, cid, s)}
    /\ method \in SliceMethods =>
          /\ \A x \in reply : \E c \in Cids : \E s \in seen[p][c] : x = info(p, c, s)
          /\ err = "none" => \A c \in Cids : MustShow(p, c) =>
                                \E s \in TrackerStatus : info(p, c, s) \in reply
    /\ method = "TrackerStatusAll" => err = "none"

FlightOK ==
    /\ flight = [p \in Peers |-> flight[p]]
    /\ \A p \in Peers : \A f \in flight[p] :
          p \in dests \ called /\ GoodReply(p, f.reply, f.err)

(* The slot of p: untouched, lost, or what the handler replied. *)
RepliesOK ==
    \A p \in dests :
       \/ p \notin called /\ errs[p] = "none" /\ replies[p] = Empty(method)
       \/ p \in called /\ errs[p] = "transport" /\ replies[p] = Empty(method)
       \/ p \in called /\ GoodReply(p, replies[p], errs[p])

(* An entry of the answer. *)
GoodEntry(p, c, i) ==
    /\ i \in PinInfo /\ i.Peer = p
    /\ i.Status # "ClusterError" => i.Status \in seen[p][c]
    /\ i.Status = "ClusterError" /\ method # "SyncAllLocal" => errs[p] = "transport"

Listed(c, p) == c \in DOMAIN answer /\ p \in DOMAIN answer[c]

AnswerOK ==
    /\ phase # "answered" => DOMAIN answer = {}
    /\ DOMAIN answer \subseteq Cids
    /\ \A c \in DOMAIN answer :
          /\ DOMAIN answer[c] \subseteq dests
          /\ \A p \in DOMAIN answer[c] : GoodEntry(p, c, answer[c][p])
    /\ phase = "answered" =>
          \A p \in dests, c \in Cids :
             /\ method \in CidMethods /\ c = cid => Listed(c, p)
             /\ method \in SliceMethods /\ p \notin erroredPeers /\ MustShow(p, c) => Listed(c, p)
             /\ p \in erroredPeers /\ c \in DOMAIN answer => Listed(c, p)

Inv == WorldOK /\ SeenOK /\ AskOK /\ FlightOK /\ RepliesOK /\ AnswerOK

-----------------------------------------------------------------------------
(* The handlers.                                                           *)

(* Statuses that a handler leaves are statuses. *)
LEMMA StatusTypes ==
    ASSUME NEW s \in TrackerStatus
    PROVE  /\ setError(s) \in TrackerStatus
           /\ \A b \in BOOLEAN : syncStatus(s, b) \subseteq TrackerStatus
  BY DEF setError, syncStatus, TrackerStatus

(* p's tracker holds t from now on; seen' has it and all that it had. *)
LEMMA SeenGrows ==
    ASSUME WorldOK, SeenOK, NEW p \in Peers, NEW t \in [Cids -> TrackerStatus], Holds(p, t)
    PROVE  /\ status' \in [Peers -> [Cids -> TrackerStatus]]
           /\ SeenOK'
           /\ \A c \in Cids : t[c] \in seen'[p][c]
           /\ \A q \in Peers, c \in Cids : seen[q][c] \subseteq seen'[q][c]
  <1>1. status' = [status EXCEPT ![p] = t] /\ status \in [Peers -> [Cids -> TrackerStatus]]
    BY DEF Holds, WorldOK
  <1>2. PICK T : T = [c \in Cids |-> seen[p][c] \cup {t[c]}]
    OBVIOUS
  <1>3. T \in [Cids -> SUBSET TrackerStatus]
    BY <1>2 DEF SeenOK
  <1>4. seen' = [seen EXCEPT ![p] = T]
    BY <1>2 DEF Holds
  <1>5. seen' \in [Peers -> [Cids -> SUBSET TrackerStatus]]
    BY <1>3, <1>4 DEF SeenOK
  <1>6. /\ seen'[p] = T /\ status'[p] = t
        /\ \A q \in Peers \ {p} : seen'[q] = seen[q] /\ status'[q] = status[q]
    BY <1>1, <1>4 DEF SeenOK
  <1>7. \A c \in Cids : T[c] = seen[p][c] \cup {t[c]}
    BY <1>2
  <1>8. \A q \in Peers, c \in Cids : status'[q][c] \in seen'[q][c]
    BY <1>6, <1>7 DEF SeenOK
  <1>9. \A q \in Peers, c \in Cids : seen[q][c] \subseteq seen'[q][c]
    BY <1>6, <1>7
  <1>10. status' \in [Peers -> [Cids -> TrackerStatus]]
    BY <1>1
  <1>11. \A c \in Cids : t[c] \in seen'[p][c]
    BY <1>6, <1>7
  <1> QED
    BY <1>5, <1>8, <1>9, <1>10, <1>11 DEF SeenOK

(* What an outcome of a handler on one Cid is. *)
LEMMA OutcomeFields ==
    ASSUME WorldOK, NEW p \in Peers, NEW c \in Cids, NEW s \in TrackerStatus, NEW e
    PROVE  LET o == Outcome(p, c, s, e)
           IN  /\ o.now \in [Cids -> TrackerStatus] /\ o.now[c] = s
               /\ o.reply = {info(p, c, s)} /\ o.err = e
  BY DEF Outcome, WorldOK

(* The handlers on one Cid reply the status they leave. *)
LEMMA CidHandler ==
    ASSUME WorldOK, AskOK, NEW p \in Peers, phase = "asking", method \in CidMethods,
           NEW o \in Handler(p)
    PROVE  \E s \in TrackerStatus :
              /\ o.now \in [Cids -> TrackerStatus] /\ o.now[cid] = s
              /\ o.reply = {info(p, cid, s)} /\ o.err \in {"none", "handler"}
  <1>1. cid \in Cids /\ status[p][cid] \in TrackerStatus
    BY DEF AskOK, WorldOK
  <1>2. ASSUME NEW s \in TrackerStatus, NEW e \in {"none", "handler"}, o = Outcome(p, cid, s, e)
        PROVE  \E t \in TrackerStatus :
              /\ o.now \in [Cids -> TrackerStatus] /\ o.now[cid] = t
              /\ o.reply = {info(p, cid, t)} /\ o.err \in {"none", "handler"}
    BY <1>1, <1>2, OutcomeFields
  <1>3. ASSUME method = "TrackerStatus"
        PROVE  o = Outcome(p, cid, status[p][cid], "none")
    BY <1>3 DEF Handler, TrackerGet
  <1>4. ASSUME method = "SyncLocal"
        PROVE  \E s \in TrackerStatus, e \in {"none", "handler"} : o = Outcome(p, cid, s, e)
    <2>1. o \in SyncLocal(p, cid)
      BY <1>4 DEF Handler
    <2>2. CASE p \in daemon
      <3>1. PICK s \in UNION {syncStatus(status[p][cid], b) : b \in BOOLEAN} :
               o = Outcome(p, cid, s, "none")
        BY <2>1, <2>2 DEF SyncLocal
      <3>2. s \in TrackerStatus
        BY <1>1, StatusTypes
      <3> QED
        BY <3>1, <3>2
    <2>3. CASE p \notin daemon
      BY <1>1, <2>1, <2>3, StatusTypes DEF SyncLocal
    <2> QED
      BY <2>2, <2>3
  <1>5. ASSUME method = "TrackerRecover"
        PROVE  \E s \in TrackerStatus, e \in {"none", "handler"} : o = Outcome(p, cid, s, e)
    <2>1. o \in Recover(p, cid)
      BY <1>5 DEF Handler
    <2>2. {"Pinned", "Unpinned"} \subseteq TrackerStatus
      BY DEF TrackerStatus
    <2> QED
      BY <1>1, <2>1, <2>2 DEF Recover
  <1>6. method \in {"TrackerStatus", "SyncLocal", "TrackerRecover"}
    BY DEF CidMethods
  <1> QED
    BY <1>1, <1>2, <1>3, <1>4, <1>5, <1>6

(* The handlers on all Cids reply statuses they leave; an error excuses    *)
(* them from showing the rest.                                             *)
LEMMA SliceHandler ==
    ASSUME WorldOK, NEW p \in Peers, method \in SliceMethods, NEW o \in Handler(p)
    PROVE  /\ o.now \in [Cids -> TrackerStatus]
           /\ o.err \in {"none", "handler"}
           /\ \A x \in o.reply : \E c \in Cids : x = info(p, c, o.now[c])
           /\ method = "TrackerStatusAll" =>
                 /\ o.err = "none"
                 /\ \A c \in Cids : o.now[c] # "Unpinned" => info(p, c, o.now[c]) \in o.reply
           /\ method = "SyncAllLocal" /\ o.err = "none" =>
                 \A c \in Cids : status[p][c] # "Unpinned" /\ o.now[c] \in ErrorStatus =>
                    info(p, c, o.now[c]) \in o.reply
  <1>0. status[p] \in [Cids -> TrackerStatus]
    BY DEF WorldOK
  <1>1. CASE method = "TrackerStatusAll"
    <2>1. o = [now |-> status[p], reply |-> {info(p, c, status[p][c]) : c \in tracked(p)}, err |-> "none"]
      BY <1>1 DEF Handler, TrackerStatusAll
    <2> QED
      BY <1>0, <1>1, <2>1 DEF tracked
  <1>2. CASE method = "SyncAllLocal"
    <2>1. o \in SyncAllLocal(p)
      BY <1>2 DEF Handler
    <2>2. CASE p \in daemon
      <3>1. PICK t \in [Cids -> TrackerStatus] :
               o = [now |-> t,
                    reply |-> {info(p, c, t[c]) : c \in {c \in tracked(p) : t[c] # status[p][c] \/ t[c] \in ErrorStatus}},
                    err |-> "none"]
        BY <2>1, <2>2 DEF SyncAllLocal
      <3> QED
        BY <1>2, <3>1 DEF tracked
    <2>3. CASE p \notin daemon
      <3>1. PICK t : t = [c \in Cids |-> IF c \in tracked(p) THEN setError(status[p][c]) ELSE status[p][c]]
        OBVIOUS
      <3>2. t \in [Cids -> TrackerStatus]
        BY <1>0, <3>1, StatusTypes
      <3>3. o = [now |-> t, reply |-> {info(p, c, t[c]) : c \in tracked(p)}, err |-> "handler"]
        BY <2>1, <2>3, <3>1 DEF SyncAllLocal
      <3> QED
        BY <1>2, <3>2, <3>3 DEF tracked
    <2> QED
      BY <2>2, <2>3
  <1> QED
    BY <1>1, <1>2 DEF SliceMethods

-----------------------------------------------------------------------------
(* What is known of the replies and the answer survives what trackers do.  *)

SeenMore == \A q \in Peers, c \in Cids : seen[q][c] \subseteq seen'[q][c]

(* A true reply stays true while more is seen of the peers. *)
LEMMA ReplyStays ==
    ASSUME SeenMore, UNCHANGED <<method, cid>>, AskOK, phase # "idle", NEW p \in Peers,
           NEW reply, NEW err, GoodReply(p, reply, err)
    PROVE  GoodReply(p, reply, err)'
  <1>1. \A c \in Cids : (MustShow(p, c))' => MustShow(p, c)
    BY DEF SeenMore, MustShow
  <1>2. method \in CidMethods => \E s \in seen'[p][cid] : reply = {info(p, cid, s)}
    BY DEF GoodReply, SeenMore, AskOK
  <1>3. ASSUME method \in SliceMethods, NEW x \in reply
        PROVE  \E c \in Cids : \E s \in seen'[p][c] : x = info(p, c, s)
    <2>1. PICK c \in Cids : \E s \in seen[p][c] : x = info(p, c, s)
      BY <1>3 DEF GoodReply
    <2> QED
      BY <2>1 DEF SeenMore
  <1>4. method \in SliceMethods /\ err = "none" =>
           \A c \in Cids : (MustShow(p, c))' => \E s \in TrackerStatus : info(p, c, s) \in reply
    BY <1>1 DEF GoodReply
  <1> QED
    BY <1>2, <1>3, <1>4 DEF GoodReply

(* So do the replies under way. *)
LEMMA FlightStays ==
    ASSUME FlightOK, AskOK, SeenMore, UNCHANGED <<phase, method, cid, dests, flight, called>>
    PROVE  FlightOK'
  <1>1. flight' = [p \in Peers |-> flight'[p]]
    BY DEF FlightOK
  <1>2. ASSUME NEW p \in Peers, NEW f \in flight'[p]
        PROVE  p \in dests' \ called' /\ (GoodReply(p, f.reply, f.err))'
    <2>1. p \in dests \ called /\ GoodReply(p, f.reply, f.err) /\ phase # "idle"
      BY <1>2 DEF FlightOK, AskOK
    <2>2. PICK r, e : r = f.reply /\ e = f.err
      OBVIOUS
    <2>3. GoodReply(p, r, e)'
      BY <2>1, <2>2, ReplyStays
    <2> QED
      BY <2>1, <2>2, <2>3 DEF GoodReply
  <1> QED
    BY <1>1, <1>2 DEF FlightOK

(* And those that were collected. *)
LEMMA RepliesStay ==
    ASSUME RepliesOK, AskOK, SeenMore,
           UNCHANGED <<phase, method, cid, dests, called, replies, errs>>
    PROVE  RepliesOK'
  <1> SUFFICES ASSUME NEW p \in dests
               PROVE  \/ p \notin called' /\ errs'[p] = "none" /\ replies'[p] = Empty(method')
                      \/ p \in called' /\ errs'[p] = "transport" /\ replies'[p] = Empty(method')
                      \/ p \in called' /\ (GoodReply(p, replies[p], errs[p]))'
    BY DEF RepliesOK
  <1>1. p \in Peers /\ phase # "idle"
    BY DEF AskOK
  <1>2. CASE p \in called /\ GoodReply(p, replies[p], errs[p])
    <2>1. PICK r, e : r = replies[p] /\ e = errs[p]
      OBVIOUS
    <2>2. GoodReply(p, r, e)'
      BY <1>1, <1>2, <2>1, ReplyStays
    <2> QED
      BY <1>2, <2>1, <2>2 DEF GoodReply
  <1> QED
    BY <1>2 DEF RepliesOK

(* And the merged answer. *)
LEMMA AnswerStays ==
    ASSUME AnswerOK, AskOK, SeenMore,
           UNCHANGED <<phase, method, cid, dests, errs, answer>>
    PROVE  AnswerOK'
  <1>1. ASSUME NEW c \in DOMAIN answer, NEW p \in DOMAIN answer[c]
        PROVE  (GoodEntry(p, c, answer[c][p]))'
    <2>1. GoodEntry(p, c, answer[c][p]) /\ c \in Cids /\ p \in Peers
      BY DEF AnswerOK, AskOK
    <2> QED
      BY <2>1 DEF GoodEntry, SeenMore
  <1>2. ASSUME NEW p \in dests, NEW c \in Cids, (MustShow(p, c))' PROVE MustShow(p, c)
    <2>1. p \in Peers
      BY DEF AskOK
    <2> QED
      BY <1>2, <2>1 DEF SeenMore, MustShow
  <1>3. \A c, p : Listed(c, p) <=> (Listed(c, p))'
    BY DEF Listed
  <1>4. erroredPeers' = erroredPeers
    BY DEF erroredPeers
  <1>5. ASSUME phase = "answered", NEW p \in dests, NEW c \in Cids
        PROVE  /\ method \in CidMethods /\ c = cid => (Listed(c, p))'
               /\ method \in SliceMethods /\ p \notin erroredPeers' /\ (MustShow(p, c))' => (Listed(c, p))'
               /\ p \in erroredPeers' /\ c \in DOMAIN answer => (Listed(c, p))'
    BY <1>2, <1>3, <1>4, <1>5 DEF AnswerOK
  <1> QED
    BY <1>1, <1>5 DEF AnswerOK

(* A step of the world: nothing of the question changes but the history. *)
LEMMA WorldStep ==
    ASSUME Inv, WorldOK', SeenOK', SeenMore,
           UNCHANGED <<phase, method, cid, dests, flight, called, replies, errs, answer>>
    PROVE  Inv'
  <1>1. AskOK'
    BY DEF Inv, AskOK
  <1> QED
    BY <1>1, FlightStays, RepliesStay, AnswerStays DEF Inv

-----------------------------------------------------------------------------
(* The steps of a question.                                                *)

(* A question starts. *)
LEMMA AskStep ==
    ASSUME Inv, NEW m \in Methods, NEW c, m \in CidMethods => c \in Cids, Ask(m, c)
    PROVE  Inv'
  <1>0. WorldOK /\ SeenOK
    BY DEF Inv
  <1>1. WorldOK'
    BY <1>0 DEF WorldOK, Ask, world
  <1>2. SeenOK'
    <2>1. PICK S : S = [p \in Peers |-> [h \in Cids |-> {status[p][h]}]]
      OBVIOUS
    <2>2. S \in [Peers -> [Cids -> SUBSET TrackerStatus]] /\ \A p \in Peers, h \in Cids : status[p][h] \in S[p][h]
      BY <1>0, <2>1 DEF WorldOK
    <2> QED
      BY <2>1, <2>2 DEF SeenOK, Ask, world
  <1>3. AskOK'
    BY <1>0 DEF WorldOK, AskOK, Ask, Errors
  <1>4. FlightOK'
    BY DEF FlightOK, Ask
  <1>5. RepliesOK'
    <2>1. /\ dests' \subseteq Peers /\ called' = {} /\ method' = m
          /\ errs' = [p \in Peers |-> "none"] /\ replies' = [p \in Peers |-> Empty(m)]
      BY <1>0 DEF Ask, WorldOK
    <2>2. \A p \in dests' : p \notin called' /\ errs'[p] = "none" /\ replies'[p] = Empty(method')
      BY <2>1
    <2> QED
      BY <2>2 DEF RepliesOK, Empty
  <1>6. AnswerOK'
    <2>1. DOMAIN answer' = {} /\ phase' = "asking"
      BY DEF Ask
    <2> QED
      BY <2>1 DEF AnswerOK
  <1> QED
    BY <1>1, <1>2, <1>3, <1>4, <1>5, <1>6 DEF Inv

(* What a handler replies is a good reply, judged by the history that has  *)
(* what it left.                                                           *)
LEMMA HandlerReplies ==
    ASSUME Inv, NEW p \in Peers, phase = "asking", NEW o \in Handler(p),
           Holds(p, o.now), UNCHANGED <<method, cid>>
    PROVE  o.now \in [Cids -> TrackerStatus] /\ (GoodReply(p, o.reply, o.err))'
  <1>0. WorldOK /\ SeenOK /\ AskOK
    BY DEF Inv
  <1>1. PICK t, r, e : t = o.now /\ r = o.reply /\ e = o.err
    OBVIOUS
  <1>2. CASE method \in CidMethods
    <2>1. PICK s \in TrackerStatus :
              /\ t \in [Cids -> TrackerStatus] /\ t[cid] = s
              /\ r = {info(p, cid, s)} /\ e \in {"none", "handler"}
      BY <1>0, <1>1, <1>2, CidHandler
    <2>2. s \in seen'[p][cid]
      BY <1>0, <1>1, <1>2, <2>1, SeenGrows DEF AskOK
    <2>3. method \notin SliceMethods /\ method # "TrackerStatusAll"
      BY <1>2 DEF CidMethods, SliceMethods
    <2>4. GoodReply(p, r, e)'
      BY <2>1, <2>2, <2>3 DEF GoodReply
    <2> QED
      BY <1>1, <2>1, <2>4 DEF GoodReply
  <1>3. CASE method \in SliceMethods
    <2>1. /\ t \in [Cids -> TrackerStatus]
          /\ e \in {"none", "handler"}
          /\ \A x \in r : \E c \in Cids : x = info(p, c, t[c])
          /\ method = "TrackerStatusAll" =>
                /\ e = "none"
                /\ \A c \in Cids : t[c] # "Unpinned" => info(p, c, t[c]) \in r
          /\ method = "SyncAllLocal" /\ e = "none" =>
                \A c \in Cids : status[p][c] # "Unpinned" /\ t[c] \in ErrorStatus =>
                   info(p, c, t[c]) \in r
      BY <1>0, <1>1, <1>3, SliceHandler
    <2>2. \A c \in Cids : t[c] \in seen'[p][c] /\ status[p][c] \in seen'[p][c]
      BY <1>0, <1>1, <2>1, SeenGrows DEF SeenOK
    <2>3. \A x \in r : \E c \in Cids : \E s \in seen'[p][c] : x = info(p, c, s)
      BY <2>1, <2>2
    <2>4. ASSUME e = "none", NEW c \in Cids, (MustShow(p, c))'
          PROVE  \E s \in TrackerStatus : info(p, c, s) \in r
      <3>1. t[c] \in TrackerStatus
        BY <2>1
      <3>2. CASE method = "TrackerStatusAll"
        BY <2>1, <2>2, <2>4, <3>1, <3>2 DEF MustShow
      <3>3. CASE method = "SyncAllLocal"
        <4>1. status[p][c] \in ErrorStatus /\ t[c] \in ErrorStatus
          BY <2>2, <2>4, <3>3 DEF MustShow
        <4> QED
          BY <2>1, <2>4, <3>1, <3>3, <4>1 DEF ErrorStatus
      <3> QED
        BY <1>3, <3>2, <3>3 DEF SliceMethods
    <2>5. method \notin CidMethods
      BY <1>3 DEF CidMethods, SliceMethods
    <2>6. GoodReply(p, r, e)'
      BY <2>1, <2>3, <2>4, <2>5 DEF GoodReply
    <2> QED
      BY <1>1, <2>1, <2>6 DEF GoodReply
  <1> QED
    BY <1>0, <1>2, <1>3 DEF AskOK, Methods

(* A handler answers from the status its tracker has at that moment. *)
LEMMA ServeStep ==
    ASSUME Inv, NEW p \in Peers, Serve(p)
    PROVE  Inv'
  <1>0. WorldOK /\ SeenOK /\ AskOK /\ FlightOK /\ RepliesOK /\ AnswerOK
    BY DEF Inv
  <1>1. PICK o \in Handler(p) :
           /\ Holds(p, o.now)
           /\ flight' = [flight EXCEPT ![p] = {[reply |-> o.reply, err |-> o.err]}]
    BY DEF Serve
  <1>2. /\ phase = "asking" /\ p \in dests \ called
        /\ UNCHANGED <<phase, method, cid, dests, called, replies, errs, answer>>
        /\ UNCHANGED <<daemon, up, members>>
    BY DEF Serve, ask
  <1>3. o.now \in [Cids -> TrackerStatus] /\ (GoodReply(p, o.reply, o.err))'
    BY <1>1, <1>2, HandlerReplies
  <1>4. SeenOK' /\ SeenMore /\ status' \in [Peers -> [Cids -> TrackerStatus]]
    BY <1>0, <1>1, <1>3, SeenGrows DEF SeenMore
  <1>5. WorldOK'
    BY <1>0, <1>2, <1>4 DEF WorldOK
  <1>6. AskOK'
    BY <1>0, <1>2 DEF AskOK
  <1>7. FlightOK'
    <2>1. PICK r, e : r = o.reply /\ e = o.err
      OBVIOUS
    <2>2. flight' = [q \in Peers |-> flight'[q]]
      BY <1>0, <1>1 DEF FlightOK
    <2>3. ASSUME NEW q \in Peers, NEW f \in flight'[q]
          PROVE  q \in dests' \ called' /\ (GoodReply(q, f.reply, f.err))'
      <3>1. CASE q = p
        <4>1. f = [reply |-> r, err |-> e]
          BY <1>0, <1>1, <2>1, <2>3, <3>1 DEF FlightOK
        <4>2. f.reply = r /\ f.err = e
          BY <4>1
        <4> QED
          BY <1>2, <1>3, <2>1, <3>1, <4>2 DEF GoodReply
      <3>2. CASE q # p
        <4>1. f \in flight[q]
          BY <1>0, <1>1, <2>3, <3>2 DEF FlightOK
        <4>2. q \in dests \ called /\ GoodReply(q, f.reply, f.err)
          BY <1>0, <4>1 DEF FlightOK
        <4>3. PICK x, y : x = f.reply /\ y = f.err
          OBVIOUS
        <4>4. GoodReply(q, x, y)'
          BY <1>0, <1>2, <1>4, <4>2, <4>3, ReplyStays
        <4> QED
          BY <1>2, <4>2, <4>3, <4>4 DEF GoodReply
      <3> QED
        BY <3>1, <3>2
    <2> QED
      BY <2>2, <2>3 DEF FlightOK
  <1>8. RepliesOK' /\ AnswerOK'
    BY <1>0, <1>2, <1>4, RepliesStay, AnswerStays
  <1> QED
    BY <1>4, <1>5, <1>6, <1>7, <1>8 DEF Inv

(* A call returns, with what the handler replied or with nothing. *)
LEMMA ReturnedStep ==
    ASSUME Inv, NEW p \in Peers, p \in dests \ called, NEW reply, NEW err,
           \/ GoodReply(p, reply, err)
           \/ reply = Empty(method) /\ err = "transport",
           Returned(p, reply, err)
    PROVE  Inv'
  <1>0. WorldOK /\ SeenOK /\ AskOK /\ FlightOK /\ RepliesOK /\ AnswerOK
    BY DEF Inv
  <1>1. /\ called' = called \cup {p}
        /\ replies' = [replies EXCEPT ![p] = reply]
        /\ errs' = [errs EXCEPT ![p] = err]
        /\ flight' = [flight EXCEPT ![p] = {}]
        /\ UNCHANGED <<status, daemon, up, members, seen>>
        /\ UNCHANGED <<phase, method, cid, dests, answer>>
    BY DEF Returned, Slot, world, ask
  <1>2. WorldOK' /\ SeenOK'
    BY <1>0, <1>1 DEF WorldOK, SeenOK
  <1>3. phase # "answered" /\ err \in Errors
    BY <1>0 DEF AskOK, GoodReply, Errors
  <1>4. AskOK'
    BY <1>0, <1>1, <1>3 DEF AskOK
  <1>5. \A q, r, e : GoodReply(q, r, e) => (GoodReply(q, r, e))'
    BY <1>1 DEF GoodReply, MustShow
  <1>6. FlightOK'
    <2>1. flight' = [q \in Peers |-> flight'[q]]
      BY <1>0, <1>1 DEF FlightOK
    <2>2. \A q \in Peers : \A f \in flight'[q] : q # p /\ f \in flight[q]
      BY <1>0, <1>1 DEF FlightOK
    <2>3. \A q \in Peers : \A f \in flight'[q] :
             q \in dests' \ called' /\ (GoodReply(q, f.reply, f.err))'
      BY <1>0, <1>1, <1>5, <2>2 DEF FlightOK
    <2> QED
      BY <2>1, <2>3 DEF FlightOK
  <1>7. RepliesOK'
    <2> SUFFICES ASSUME NEW q \in dests
                 PROVE  \/ q \notin called' /\ errs'[q] = "none" /\ replies'[q] = Empty(method')
                        \/ q \in called' /\ errs'[q] = "transport" /\ replies'[q] = Empty(method')
                        \/ q \in called' /\ (GoodReply(q, replies[q], errs[q]))'
      BY <1>1 DEF RepliesOK
    <2>1. q \in Peers
      BY <1>0 DEF AskOK
    <2>2. CASE q = p
      <3>1. q \in called' /\ replies'[q] = reply /\ errs'[q] = err
        BY <1>0, <1>1, <2>1, <2>2 DEF AskOK
      <3>2. CASE GoodReply(p, reply, err)
        <4>1. GoodReply(p, reply, err)'
          BY <1>5, <3>2
        <4> QED
          BY <2>2, <3>1, <4>1 DEF GoodReply
      <3> QED
        BY <1>1, <3>1, <3>2
    <2>3. CASE q # p
      <3>1. replies'[q] = replies[q] /\ errs'[q] = errs[q] /\ (q \in called' <=> q \in called)
        BY <1>0, <1>1, <2>1, <2>3 DEF AskOK
      <3>2. CASE q \in called /\ GoodReply(q, replies[q], errs[q])
        <4>1. PICK r, e : r = replies[q] /\ e = errs[q]
          OBVIOUS
        <4>2. GoodReply(q, r, e)'
          BY <1>5, <3>2, <4>1
        <4> QED
          BY <3>1, <3>2, <4>1, <4>2 DEF GoodReply
      <3> QED
        BY <1>0, <1>1, <3>1, <3>2 DEF RepliesOK
    <2> QED
      BY <2>2, <2>3
  <1>8. AnswerOK'
    BY <1>0, <1>1, <1>3 DEF AnswerOK
  <1> QED
    BY <1>2, <1>4, <1>6, <1>7, <1>8 DEF Inv

(* The entry of a member in the answer about one Cid. *)
LEMMA CidEntry ==
    ASSUME Inv, called = dests, phase = "asking", method \in CidMethods, NEW p \in dests
    PROVE  GoodEntry(p, cid, EntryOf(p))
  <1>0. SeenOK /\ AskOK /\ RepliesOK /\ p \in Peers /\ cid \in Cids
    BY DEF Inv, AskOK
  <1>1. CASE errs[p] = "transport" /\ replies[p] = Empty(method)
    <2>1. (CHOOSE x \in replies[p] : TRUE) = EmptySerial
      BY <1>1 DEF Empty
    <2>2. EntryOf(p) = [Cid |-> None, Peer |-> p, Status |-> "ClusterError", Error |-> "transport"]
      BY <1>1, <2>1, EmptyDecoded DEF EntryOf
    <2>3. EntryOf(p) \in PinInfo /\ EntryOf(p).Peer = p /\ EntryOf(p).Status = "ClusterError"
      BY <1>0, <2>2 DEF PinInfo, Errors
    <2> QED
      BY <1>1, <2>3 DEF GoodEntry
  <1>2. CASE GoodReply(p, replies[p], errs[p])
    <2>1. PICK s \in seen[p][cid] : replies[p] = {info(p, cid, s)}
      BY <1>2 DEF GoodReply
    <2>2. s \in TrackerStatus /\ errs[p] \in {"none", "handler"}
      BY <1>0, <1>2, <2>1 DEF SeenOK, GoodReply
    <2>3. (CHOOSE x \in replies[p] : TRUE) = info(p, cid, s)
      BY <2>1
    <2>4. PICK r : r = Entry(p, cid, s)
      OBVIOUS
    <2>5. /\ r \in PinInfo /\ r.Peer = p /\ r.Status = s
          /\ s # "Bug" /\ s # "ClusterError"
      BY <1>0, <2>2, <2>4, EntryFields
    <2>6. ToPinInfo(CHOOSE x \in replies[p] : TRUE) = r
      BY <2>2, <2>3, <2>4, EntryDecoded
    <2>7. EntryOf(p) = r \/ EntryOf(p) = [r EXCEPT !.Error = "handler"]
      BY <2>2, <2>5, <2>6 DEF EntryOf
    <2>8. EntryOf(p) \in PinInfo /\ EntryOf(p).Peer = p /\ EntryOf(p).Status = s
      <3>1. PICK h : h = [r EXCEPT !.Error = "handler"]
        OBVIOUS
      <3>2. h \in PinInfo /\ h.Peer = p /\ h.Status = s
        BY <2>5, <3>1 DEF PinInfo, Errors
      <3> QED
        BY <2>5, <2>7, <3>1, <3>2
    <2> QED
      BY <2>1, <2>5, <2>8 DEF GoodEntry
  <1> QED
    BY <1>0, <1>1, <1>2 DEF RepliesOK

(* What the members without an error sent. *)
LEMMA MergedEntries ==
    ASSUME Inv, called = dests, phase = "asking", method \in SliceMethods
    PROVE  /\ \A i \in merged : \E p \in dests \ erroredPeers, c \in Cids :
                  \E s \in TrackerStatus : s \in seen[p][c] /\ i = Entry(p, c, s)
           /\ \A p \in dests \ erroredPeers, c \in Cids : MustShow(p, c) =>
                  \E s \in TrackerStatus : Entry(p, c, s) \in merged
  <1>0. SeenOK /\ AskOK /\ RepliesOK /\ dests \subseteq Peers
    BY DEF Inv, AskOK
  <1>1. ASSUME NEW p \in dests \ erroredPeers
        PROVE  p \in Peers /\ errs[p] = "none" /\ GoodReply(p, replies[p], "none")
    <2>1. errs[p] = "none"
      BY DEF erroredPeers
    <2> QED
      BY <1>0, <2>1 DEF RepliesOK
  <1>2. ASSUME NEW i \in merged
        PROVE  \E p \in dests \ erroredPeers, c \in Cids :
                  \E s \in TrackerStatus : s \in seen[p][c] /\ i = Entry(p, c, s)
    <2>1. PICK x \in UNION {replies[q] : q \in dests \ erroredPeers} : i = ToPinInfo(x)
      BY <1>2 DEF merged
    <2>2. PICK p \in dests \ erroredPeers : x \in replies[p]
      BY <2>1
    <2>3. PICK c \in Cids : \E s \in seen[p][c] : x = info(p, c, s)
      BY <1>1, <2>2 DEF GoodReply
    <2>4. PICK s \in seen[p][c] : x = info(p, c, s)
      BY <2>3
    <2>5. s \in TrackerStatus
      BY <1>0, <1>1, <2>4 DEF SeenOK
    <2> QED
      BY <2>1, <2>4, <2>5, EntryDecoded
  <1>3. ASSUME NEW p \in dests \ erroredPeers, NEW c \in Cids, MustShow(p, c)
        PROVE  \E s \in TrackerStatus : Entry(p, c, s) \in merged
    <2>1. PICK s \in TrackerStatus : info(p, c, s) \in replies[p]
      BY <1>1, <1>3 DEF GoodReply
    <2>2. ToPinInfo(info(p, c, s)) = Entry(p, c, s)
      BY EntryDecoded
    <2>3. ToPinInfo(info(p, c, s)) \in merged
      BY <2>1 DEF merged
    <2> QED
      BY <2>2, <2>3
  <1> QED
    BY <1>2, <1>3

(* All calls have returned. *)
LEMMA MergeStep ==
    ASSUME Inv, Merge
    PROVE  Inv'
  <1>0. WorldOK /\ SeenOK /\ AskOK /\ FlightOK /\ RepliesOK /\ AnswerOK
    BY DEF Inv
  <1>1. /\ phase = "asking" /\ called = dests /\ phase' = "answered"
        /\ UNCHANGED <<status, daemon, up, members, changes>>
        /\ UNCHANGED <<method, cid, dests, flight, called, replies, errs, seen>>
    BY DEF Merge, world
  <1>2. WorldOK' /\ SeenOK'
    BY <1>0, <1>1 DEF WorldOK, SeenOK
  <1>3. AskOK'
    BY <1>0, <1>1 DEF AskOK
  <1>4. FlightOK' /\ RepliesOK'
    BY <1>0, <1>1 DEF FlightOK, RepliesOK, GoodReply, MustShow
  <1>5. \A p, c, i : GoodEntry(p, c, i) => (GoodEntry(p, c, i))'
    BY <1>1 DEF GoodEntry
  <1>6. ASSUME DOMAIN answer' \subseteq Cids,
               \A c \in DOMAIN answer' :
                  /\ DOMAIN answer'[c] \subseteq dests
                  /\ \A p \in DOMAIN answer'[c] : GoodEntry(p, c, answer'[c][p]),
               \A p \in dests, c \in Cids :
                  /\ method \in CidMethods /\ c = cid => (Listed(c, p))'
                  /\ method \in SliceMethods /\ p \notin erroredPeers /\ MustShow(p, c) => (Listed(c, p))'
                  /\ p \in erroredPeers /\ c \in DOMAIN answer' => (Listed(c, p))'
        PROVE  AnswerOK'
    <2>1. erroredPeers' = erroredPeers /\ \A p, c : (MustShow(p, c))' <=> MustShow(p, c)
      BY <1>1 DEF erroredPeers, MustShow
    <2>2. ASSUME NEW c \in DOMAIN answer', NEW p \in DOMAIN answer'[c]
          PROVE  (GoodEntry(p, c, answer[c][p]))'
      <3>1. PICK i : i = answer'[c][p]
        OBVIOUS
      <3>2. GoodEntry(p, c, i)'
        BY <1>5, <1>6, <2>2, <3>1
      <3> QED
        BY <3>1, <3>2 DEF GoodEntry
    <2> QED
      BY <1>1, <1>6, <2>1, <2>2 DEF AnswerOK
  <1>7. ASSUME method \in CidMethods PROVE AnswerOK'
    <2>1. answer' = [c \in {cid} |-> [p \in dests |-> EntryOf(p)]]
      BY <1>7 DEF Merge, globalPinInfoCid
    <2>2. cid \in Cids /\ method \notin SliceMethods
      BY <1>0, <1>1, <1>7 DEF AskOK, CidMethods, SliceMethods
    <2>3. DOMAIN answer' = {cid} /\ DOMAIN answer'[cid] = dests
      BY <2>1
    <2>4. \A p \in dests : answer'[cid][p] = EntryOf(p) /\ GoodEntry(p, cid, EntryOf(p))
      BY <1>1, <1>7, <2>1, CidEntry
    <2>5. \A c \in DOMAIN answer' :
             /\ DOMAIN answer'[c] \subseteq dests
             /\ \A p \in DOMAIN answer'[c] : GoodEntry(p, c, answer'[c][p])
      <3>1. \A p \in dests : GoodEntry(p, cid, answer'[cid][p])
        BY <2>4
      <3> QED
        BY <2>3, <3>1
    <2>6. ASSUME NEW p \in dests, NEW c \in Cids, c = cid
          PROVE  (Listed(c, p))'
      BY <1>1, <2>3, <2>6 DEF Listed
    <2>7. \A p \in dests, c \in Cids :
             /\ method \in CidMethods /\ c = cid => (Listed(c, p))'
             /\ method \in SliceMethods /\ p \notin erroredPeers /\ MustShow(p, c) => (Listed(c, p))'
             /\ p \in erroredPeers /\ c \in DOMAIN answer' => (Listed(c, p))'
      BY <2>2, <2>3, <2>6
    <2>8. DOMAIN answer' \subseteq Cids
      BY <2>2, <2>3
    <2> QED
      BY <1>6, <2>5, <2>7, <2>8
  <1>8. ASSUME method \in SliceMethods PROVE AnswerOK'
    <2>0. method \notin CidMethods
      BY <1>8 DEF CidMethods, SliceMethods
    <2>1. answer' = [c \in {i.Cid : i \in merged} |->
                       [p \in {i.Peer : i \in {j \in merged : j.Cid = c}} \cup erroredPeers |->
                          IF p \in erroredPeers
                          THEN [Cid |-> c, Peer |-> p, Status |-> "ClusterError", Error |-> errs[p]]
                          ELSE CHOOSE i \in merged : i.Cid = c /\ i.Peer = p]]
      BY <2>0 DEF Merge, globalPinInfoSlice
    <2>2. /\ \A i \in merged : \E p \in dests \ erroredPeers, c \in Cids :
                 \E s \in TrackerStatus : s \in seen[p][c] /\ i = Entry(p, c, s)
          /\ \A p \in dests \ erroredPeers, c \in Cids : MustShow(p, c) =>
                 \E s \in TrackerStatus : Entry(p, c, s) \in merged
      BY <1>1, <1>8, MergedEntries
    <2>3. \A p \in Peers, c \in Cids, s \in TrackerStatus :
             Entry(p, c, s).Cid = c /\ Entry(p, c, s).Peer = p /\ Entry(p, c, s).Status = s
      BY EntryFields
    <2>4. dests \subseteq Peers
      BY <1>0 DEF AskOK
    <2>5. \A i \in merged : i.Cid \in Cids /\ i.Peer \in dests \ erroredPeers
      BY <2>2, <2>3, <2>4
    <2>6. /\ DOMAIN answer' = {i.Cid : i \in merged}
          /\ \A c \in DOMAIN answer' :
                DOMAIN answer'[c] = {i.Peer : i \in {j \in merged : j.Cid = c}} \cup erroredPeers
      BY <2>1
    <2>7. DOMAIN answer' \subseteq Cids
      BY <2>5, <2>6
    <2>8. \A c \in DOMAIN answer' : DOMAIN answer'[c] \subseteq dests
      BY <2>5, <2>6 DEF erroredPeers
    <2>9. ASSUME NEW c \in DOMAIN answer', NEW p \in DOMAIN answer'[c]
          PROVE  GoodEntry(p, c, answer'[c][p])
      <3>0. c \in Cids /\ p \in dests /\ p \in Peers
        BY <2>4, <2>7, <2>8, <2>9
      <3>1. CASE p \in erroredPeers
        <4>1. answer'[c][p] = [Cid |-> c, Peer |-> p, Status |-> "ClusterError", Error |-> errs[p]]
          BY <2>1, <2>6, <2>9, <3>1
        <4>2. errs[p] \in Errors /\ errs[p] # "none"
          BY <1>0, <3>0, <3>1 DEF AskOK, erroredPeers
        <4>3. method = "TrackerStatusAll" => errs[p] = "transport"
          BY <1>0, <1>1, <3>0, <4>2 DEF RepliesOK, GoodReply
        <4>4. method # "SyncAllLocal" => errs[p] = "transport"
          BY <1>8, <4>3 DEF SliceMethods
        <4>5. PICK i : i = answer'[c][p]
          OBVIOUS
        <4>6. i \in PinInfo /\ i.Peer = p /\ i.Status = "ClusterError"
          BY <3>0, <4>1, <4>2, <4>5 DEF PinInfo
        <4> QED
          BY <4>4, <4>5, <4>6 DEF GoodEntry
      <3>2. CASE p \notin erroredPeers
        <4>1. answer'[c][p] = CHOOSE i \in merged : i.Cid = c /\ i.Peer = p
          BY <2>1, <2>6, <2>9, <3>2
        <4>2. \E i \in merged : i.Cid = c /\ i.Peer = p
          BY <2>6, <2>9, <3>2
        <4>3. PICK i \in merged : i = answer'[c][p] /\ i.Cid = c /\ i.Peer = p
          BY <4>1, <4>2
        <4>4. PICK q \in dests \ erroredPeers, d \in Cids :
                 \E s \in TrackerStatus : s \in seen[q][d] /\ i = Entry(q, d, s)
          BY <2>2, <4>3
        <4>5. PICK s \in TrackerStatus : s \in seen[q][d] /\ i = Entry(q, d, s)
          BY <4>4
        <4>6. q = p /\ d = c /\ i.Status = s
          BY <2>3, <2>4, <4>3, <4>4, <4>5
        <4>7. i \in PinInfo /\ s # "ClusterError"
          BY <3>0, <4>5, <4>6, EntryFields
        <4> QED
          BY <4>3, <4>5, <4>6, <4>7 DEF GoodEntry
      <3> QED
        BY <3>1, <3>2
    <2>10. ASSUME NEW p \in dests, NEW c \in Cids, p \notin erroredPeers, MustShow(p, c)
           PROVE  (Listed(c, p))'
      <3>1. PICK s \in TrackerStatus : Entry(p, c, s) \in merged
        BY <2>2, <2>10
      <3>2. PICK i \in merged : i.Cid = c /\ i.Peer = p
        BY <2>3, <2>4, <3>1
      <3> QED
        BY <2>6, <3>2 DEF Listed
    <2>11. \A p \in erroredPeers, c \in DOMAIN answer' : (Listed(c, p))'
      BY <2>6 DEF Listed
    <2> QED
      BY <1>6, <2>0, <2>7, <2>8, <2>9, <2>10, <2>11
  <1>9. AnswerOK'
    BY <1>0, <1>7, <1>8 DEF AskOK, Methods
  <1> QED
    BY <1>2, <1>3, <1>4, <1>9 DEF Inv

-----------------------------------------------------------------------------
(* The theorems.                                                           *)

(* No call is being served at first. *)
LEMMA InvInit == Init => Inv
  <1> SUFFICES ASSUME Init PROVE Inv
    OBVIOUS
  <1>1. status \in [Peers -> [Cids -> TrackerStatus]]
    BY StatusAssumption DEF Init
  <1>2. WorldOK
    BY <1>1, SelfAssumption DEF Init, WorldOK
  <1>3. SeenOK
    BY <1>1 DEF Init, SeenOK
  <1>4. AskOK
    BY DEF Init, AskOK, Methods, CidMethods, Errors
  <1>5. FlightOK /\ RepliesOK
    BY DEF Init, FlightOK, RepliesOK
  <1>6. AnswerOK
    <2>1. DOMAIN answer = {} /\ phase = "idle"
      BY DEF Init
    <2> QED
      BY <2>1 DEF AnswerOK
  <1> QED
    BY <1>2, <1>3, <1>4, <1>5, <1>6 DEF Inv

(* Every step of the call, a handler or the environment keeps the invariant. *)
LEMMA InvNext == Inv /\ [Next]_vars => Inv'
  <1> SUFFICES ASSUME Inv, [Next]_vars PROVE Inv'
    OBVIOUS
  <1>0. WorldOK /\ SeenOK /\ AskOK /\ FlightOK /\ RepliesOK
    BY DEF Inv
  <1>1. ASSUME NEW c \in Cids, Status(c) \/ Sync(c) \/ RecoverAll(c) PROVE Inv'
    BY <1>1, AskStep DEF Status, Sync, RecoverAll, Methods, CidMethods
  <1>2. ASSUME StatusAll \/ SyncAll PROVE Inv'
    BY <1>2, AskStep DEF StatusAll, SyncAll, Methods, CidMethods, SliceMethods
  <1>3. ASSUME NEW p \in Peers, CallReturns(p) PROVE Inv'
    <2>1. PICK f \in flight[p] : Returned(p, f.reply, f.err)
      BY <1>3 DEF CallReturns
    <2>2. p \in dests \ called /\ GoodReply(p, f.reply, f.err)
      BY <1>0, <2>1 DEF FlightOK
    <2>3. PICK r, e : r = f.reply /\ e = f.err
      OBVIOUS
    <2> QED
      BY <2>1, <2>2, <2>3, ReturnedStep
  <1>4. ASSUME NEW p \in Peers, CallFails(p) PROVE Inv'
    <2>1. p \in dests \ called /\ Returned(p, replies[p], "transport")
      BY <1>4 DEF CallFails
    <2>2. PICK r : r = replies[p]
      OBVIOUS
    <2>3. r = Empty(method)
      BY <1>0, <2>1, <2>2 DEF RepliesOK
    <2> QED
      BY <2>1, <2>2, <2>3, ReturnedStep
  <1>5. ASSUME UNCHANGED <<status, seen>>, daemon' \subseteq Peers,
               Self \in up', up' \subseteq Peers, Self \in members', members' \subseteq Peers,
               UNCHANGED <<phase, method, cid, dests, flight, called, replies, errs, answer>>
        PROVE  Inv'
    <2>1. WorldOK' /\ SeenOK' /\ SeenMore
      BY <1>0, <1>5 DEF WorldOK, SeenOK, SeenMore
    <2> QED
      BY <1>5, <2>1, WorldStep
  <1>6. ASSUME TrackerMoves PROVE Inv'
    <2>1. PICK p \in Peers, c \in Cids, s \in Moves : Holds(p, [status[p] EXCEPT ![c] = s])
      BY <1>6 DEF TrackerMoves
    <2>2. PICK t : t = [status[p] EXCEPT ![c] = s]
      OBVIOUS
    <2>3. t \in [Cids -> TrackerStatus]
      BY <1>0, <2>2, StatusAssumption DEF WorldOK
    <2>4. SeenOK' /\ SeenMore /\ status' \in [Peers -> [Cids -> TrackerStatus]]
      BY <1>0, <2>1, <2>2, <2>3, SeenGrows DEF SeenMore
    <2>5. WorldOK'
      BY <1>0, <1>6, <2>4 DEF TrackerMoves, WorldOK
    <2> QED
      BY <1>6, <2>4, <2>5, WorldStep DEF TrackerMoves, Change, ask
  <1>7. ASSUME DaemonToggles \/ PeerToggles \/ MemberToggles PROVE Inv'
    BY <1>0, <1>5, <1>7 DEF DaemonToggles, PeerToggles, MemberToggles, Change, ask, Toggle, WorldOK
  <1>8. ASSUME UNCHANGED vars PROVE Inv'
    BY <1>0, <1>5, <1>8 DEF vars, WorldOK
  <1> QED
    BY <1>1, <1>2, <1>3, <1>4, <1>6, <1>7, <1>8, ServeStep, MergeStep DEF Next

(* Every variable has its type, and the entries of an answer are PinInfos  *)
(* of Cids and of members that were asked.                                 *)
THEOREM TypeCorrect == Spec => []TypeOK
  <1>1. Inv => TypeOK
    BY DEF Inv, WorldOK, AskOK, AnswerOK, GoodEntry, TypeOK
  <1> QED
    BY InvInit, InvNext, <1>1, PTL DEF Spec

(* What an answer says of a member is true of that member: the entry is    *)
(* its own, and its status one the tracker had between the question and    *)
(* the answer (multiRPC keeps replies apart, globalPinInfoCid and          *)
(* globalPinInfoSlice mix nothing up, statuses survive serialisation).     *)
THEOREM AnswersAreTrue == Spec => []Truthful
  <1>1. Inv => Truthful
    BY DEF Inv, AnswerOK, GoodEntry, Truthful, Entries
  <1> QED
    BY InvInit, InvNext, <1>1, PTL DEF Spec

(* No member is silently left out of an answer. *)
THEOREM NobodyIsMissing == Spec => []NobodyMissing
  <1>1. Inv => NobodyMissing
    <2> SUFFICES ASSUME Inv, phase = "answered", NEW p \in dests, NEW c \in Cids
                 PROVE  /\ method \in CidMethods => (c = cid => <<c, p>> \in Entries)
                        /\ (/\ method \in SliceMethods /\ p \notin erroredPeers
                            /\ IF method = "TrackerStatusAll" THEN "Unpinned" \notin seen[p][c]
                                                            ELSE seen[p][c] \subseteq ErrorStatus)
                           => <<c, p>> \in Entries
                        /\ p \in erroredPeers /\ c \in DOMAIN answer => <<c, p>> \in Entries
      BY DEF NobodyMissing
    <2>1. Listed(c, p) => <<c, p>> \in Entries
      BY DEF Inv, AskOK, Listed, Entries
    <2>2. /\ method \in CidMethods /\ c = cid => Listed(c, p)
          /\ method \in SliceMethods /\ p \notin erroredPeers /\ MustShow(p, c) => Listed(c, p)
          /\ p \in erroredPeers /\ c \in DOMAIN answer => Listed(c, p)
      BY DEF Inv, AnswerOK
    <2> QED
      BY <2>1, <2>2 DEF MustShow
  <1> QED
    BY InvInit, InvNext, <1>1, PTL DEF Spec

(* A member that answered is not reported as one that cannot be reached,   *)
(* whatever its daemon does, except by SyncAll (globalPinInfoCid takes     *)
(* only a reply that decodes to a bug for a failure of the cluster).       *)
THEOREM ReachedNotBlamed == Spec => []ReachedIsNotBlamed
  <1>1. Inv => ReachedIsNotBlamed
    BY DEF Inv, AnswerOK, GoodEntry, ReachedIsNotBlamed, Entries
  <1> QED
    BY InvInit, InvNext, <1>1, PTL DEF Spec
=============================================================================
