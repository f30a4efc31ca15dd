----------------------- MODULE WebsocketServerProofs -----------------------
(***************************************************************************)
(* Proofs about WebsocketServer, for any sessions, paths, channels created *)
(* beforehand and number of messages: the channels hold exactly the live   *)
(* sessions, every write is of the front of its queue, no queue is left    *)
(* without a write, and messages are written in the order of the sends.    *)
(***************************************************************************)
EXTENDS WebsocketServer, SequenceTheorems, TLAPS

\* The conjuncts of WriteIsFront, QueueIsDriven and Fifo for one outbox.
FrontWritten(box) == box.writing \subseteq (IF box.que = <<>> THEN {} ELSE {Head(box.que)})
Driven(box)       == box.que # <<>> => box.writing # {}
InOrder(box)      == box.posted = box.delivered \o box.que

BoxOK(box) == box \in Outbox /\ FrontWritten(box) /\ InOrder(box)

AllOK(boxes) == boxes \in [Sessions -> Outbox] /\ \A s \in Sessions : BoxOK(boxes[s])

\* send keeps an outbox right, starts a write if there was none to do, and leaves
\* what is being written alone.
LEMMA SendBox ==
    ASSUME NEW box, BoxOK(box), NEW m \in Messages
    PROVE  /\ BoxOK(Send(box, m))
           /\ Driven(box) => Driven(Send(box, m))
           /\ box.writing \subseteq Send(box, m).writing
<1> DEFINE q == box.que
           d == box.delivered
           after == Send(box, m)
<1>1. box \in Outbox /\ q \in Seq(Messages) /\ d \in Seq(Messages) /\ box.posted = d \o q
  BY DEF BoxOK, Outbox, InOrder
<1>2. /\ after.que = Append(q, m) /\ after.posted = Append(box.posted, m)
      /\ after.delivered = d
      /\ after.writing = IF q = <<>> THEN box.writing \cup {m} ELSE box.writing
      /\ after \in Outbox
  <2>1. Append(q, m) \in Seq(Messages) /\ Append(box.posted, m) \in Seq(Messages)
    BY <1>1, AppendProperties, ConcatProperties
  <2> QED BY <1>1, <2>1 DEF Send, Outbox
<1>3. Append(q, m) # <<>> /\ Head(Append(q, m)) = IF q = <<>> THEN m ELSE Head(q)
  BY <1>1, AppendProperties
<1>4. Append(d \o q, m) = d \o Append(q, m)
  <2>1. Append(q, m) = q \o <<m>> /\ Append(d \o q, m) = (d \o q) \o <<m>>
    BY <1>1, AppendIsConcat, ConcatProperties
  <2>2. <<m>> \in Seq(Messages)
    OBVIOUS
  <2> HIDE DEF q, d
  <2> QED BY <1>1, <2>1, <2>2, ConcatAssociative
<1>5. InOrder(after)
  BY <1>1, <1>2, <1>4 DEF InOrder
<1>6. FrontWritten(after) /\ box.writing \subseteq after.writing
  BY <1>2, <1>3 DEF BoxOK, FrontWritten
<1>7. Driven(box) => Driven(after)
  BY <1>2 DEF Driven
<1> QED BY <1>2, <1>5, <1>6, <1>7 DEF BoxOK

\* on_write pops the message that was written and starts the next one.
LEMMA WrittenBox ==
    ASSUME NEW box, BoxOK(box), NEW m \in box.writing
    PROVE  BoxOK(Written(box, m)) /\ Driven(Written(box, m))
<1> DEFINE q == box.que
           d == box.delivered
           after == Written(box, m)
<1>1. /\ box \in Outbox /\ q \in Seq(Messages) /\ d \in Seq(Messages)
      /\ box.posted = d \o q /\ m \in Messages
  BY DEF BoxOK, Outbox, InOrder
<1>2. q # <<>> /\ m = Head(q) /\ box.writing = {m}
  BY DEF BoxOK, FrontWritten
<1>3. Tail(q) \in Seq(Messages) /\ (Tail(q) # <<>> => Head(Tail(q)) \in Messages)
  BY <1>1, <1>2
<1>4. /\ after.que = Tail(q) /\ after.posted = box.posted
      /\ after.delivered = Append(d, m)
      /\ after.writing = IF Tail(q) = <<>> THEN {} ELSE {Head(Tail(q))}
      /\ after \in Outbox
  <2>1. Append(d, m) \in Seq(Messages)
    BY <1>1, AppendProperties
  <2> QED BY <1>1, <1>2, <1>3, <2>1 DEF Written, Outbox
<1>5. Append(d, m) \o Tail(q) = d \o q
  <2>1. q = <<m>> \o Tail(q) /\ Append(d, m) = d \o <<m>> /\ <<m>> \in Seq(Messages)
    BY <1>1, <1>2, AppendIsConcat
  <2> HIDE DEF q, d
  <2> QED BY <1>1, <1>3, <2>1, ConcatAssociative
<1> QED BY <1>1, <1>4, <1>5 DEF BoxOK, FrontWritten, InOrder, Driven

\* on_write with an error leaves the queue as it is.
LEMMA WriteFailedBox ==
    ASSUME NEW box, BoxOK(box), NEW m
    PROVE  BoxOK(WriteFailed(box, m))
<1>1. /\ WriteFailed(box, m) \in Outbox
      /\ WriteFailed(box, m).que = box.que
      /\ WriteFailed(box, m).posted = box.posted
      /\ WriteFailed(box, m).delivered = box.delivered
      /\ WriteFailed(box, m).writing \subseteq box.writing
  BY DEF BoxOK, Outbox, WriteFailed
<1> QED BY <1>1 DEF BoxOK, FrontWritten, InOrder

\* A callback that sends to T leaves the sessions outside T alone.
LEMMA BroadcastBoxes ==
    ASSUME NEW boxes, AllOK(boxes), NEW T, NEW m, T # {} => m \in Messages
    PROVE  LET after == Broadcast(boxes, T, m) IN
           /\ AllOK(after)
           /\ \A s \in Sessions :
                /\ s \notin T => after[s] = boxes[s]
                /\ boxes[s].writing \subseteq after[s].writing
                /\ Driven(boxes[s]) => Driven(after[s])
<1> DEFINE after == Broadcast(boxes, T, m)
<1>1. after = [s \in Sessions |-> IF s \in T THEN Send(boxes[s], m) ELSE boxes[s]]
  BY DEF Broadcast
<1> HIDE DEF after
<1>2. ASSUME NEW s \in Sessions
      PROVE  /\ BoxOK(after[s])
             /\ s \notin T => after[s] = boxes[s]
             /\ boxes[s].writing \subseteq after[s].writing
             /\ Driven(boxes[s]) => Driven(after[s])
  <2>1. CASE s \in T
    <3>1. after[s] = Send(boxes[s], m)
      BY <1>1, <2>1
    <3> QED BY <2>1, <3>1, SendBox DEF AllOK
  <2>2. CASE s \notin T
    <3>1. after[s] = boxes[s]
      BY <1>1, <2>2
    <3> QED BY <2>2, <3>1 DEF AllOK
  <2> QED BY <2>1, <2>2
<1>3. after \in [Sessions -> Outbox]
  BY <1>1, <1>2 DEF BoxOK
<1> QED BY <1>2, <1>3 DEF AllOK, after

\* The same for the two callbacks of a handler.
LEMMA RunCallbacksBoxes ==
    ASSUME NEW boxes, AllOK(boxes), NEW T1, NEW T2, posts \in 0..MaxPosts,
           RunCallbacks(boxes, T1, T2)
    PROVE  /\ posts' \in 0..MaxPosts
           /\ AllOK(out')
           /\ \A s \in Sessions :
                /\ s \notin T1 /\ s \notin T2 => out'[s] = boxes[s]
                /\ boxes[s].writing \subseteq out'[s].writing
                /\ Driven(boxes[s]) => Driven(out'[s])
<1> DEFINE middle == posts + Cost(T1)
           first == Broadcast(boxes, T1, posts + 1)
<1>1. posts' = middle + Cost(T2) /\ posts' <= MaxPosts /\ out' = Broadcast(first, T2, middle + 1)
  BY DEF RunCallbacks
<1>2. /\ posts \in Nat /\ middle \in Nat /\ posts' \in 0..MaxPosts
      /\ T1 # {} => posts + 1 \in Messages
      /\ T2 # {} => middle + 1 \in Messages
  BY <1>1, MaxPostsAssumption DEF Cost, Messages
<1> HIDE DEF middle
<1>3. /\ AllOK(first)
      /\ \A s \in Sessions :
            /\ s \notin T1 => first[s] = boxes[s]
            /\ boxes[s].writing \subseteq first[s].writing
            /\ Driven(boxes[s]) => Driven(first[s])
  BY <1>2, BroadcastBoxes
<1> HIDE DEF first
<1>4. /\ AllOK(out')
      /\ \A s \in Sessions :
            /\ s \notin T2 => out'[s] = first[s]
            /\ first[s].writing \subseteq out'[s].writing
            /\ Driven(first[s]) => Driven(out'[s])
  BY <1>1, <1>2, <1>3, BroadcastBoxes
<1> QED BY <1>2, <1>3, <1>4

\* A callback reaches only sessions that are members of some channel.
LEMMA ReachIsMembers ==
    ASSUME NEW ch, NEW X, \A p \in DOMAIN ch : ch[p] \subseteq X
    PROVE  \A T \in Reach(ch) : T \subseteq X
  BY DEF Reach
-----------------------------------------------------------------------------
\* The inductive invariant.
IInv ==
    /\ TypeOK
    /\ ChannelsHoldLiveSessions
    /\ OperationsKeepSessions
    /\ WriteIsFront
    /\ QueueIsDriven
    /\ Fifo

\* The invariant in terms of the outboxes.
LEMMA BoxesOK == IInv => AllOK(out) /\ \A s \in Sessions : Driven(out[s]) \/ s \in broken
  BY DEF IInv, TypeOK, WriteIsFront, QueueIsDriven, Fifo, AllOK, BoxOK, FrontWritten,
         Driven, InOrder

\* Before the first session everything is empty: the invariant holds.
LEMMA InitIInv == Init => IInv
<1> SUFFICES ASSUME Init PROVE IInv
  OBVIOUS
<1>1. NoMessages \in Outbox
  BY DEF NoMessages, Outbox
<1>2. TypeOK
  <2>1. posts \in 0..MaxPosts
    BY MaxPostsAssumption DEF Init
  <2>2. DOMAIN channels \subseteq Paths /\ \A p \in DOMAIN channels : channels[p] \subseteq Sessions
    BY PathsAssumption DEF Init
  <2> QED BY <1>1, <2>1, <2>2 DEF Init, TypeOK
<1>3. ChannelsHoldLiveSessions /\ OperationsKeepSessions
  BY DEF Init, ChannelsHoldLiveSessions, OperationsKeepSessions, NoMessages
<1>4. WriteIsFront /\ QueueIsDriven
  BY DEF Init, WriteIsFront, QueueIsDriven, NoMessages
<1>5. Fifo
  <2>1. <<>> \o <<>> = <<>>
    BY ConcatEmptySeq
  <2> QED BY <2>1 DEF Init, Fifo, NoMessages
<1> QED BY <1>2, <1>3, <1>4, <1>5 DEF IInv

\* What remains of the invariant when the outboxes are set aside.
SessionsOK ==
    /\ status \in [Sessions -> {"none", "accepting", "open", "gone"}]
    /\ path \in [Sessions -> Paths]
    /\ reading \subseteq Sessions
    /\ DOMAIN channels \subseteq Paths
    /\ \A p \in DOMAIN channels : channels[p] \subseteq Sessions
    /\ posts \in 0..MaxPosts
    /\ begun \subseteq Sessions /\ ended \subseteq Sessions /\ broken \subseteq Sessions
    /\ terminated \in BOOLEAN
    /\ ChannelsHoldLiveSessions
    /\ OperationsKeepSessions

\* The invariant after a step, from the three facts the operators keep.
LEMMA IInvPrime ==
    ASSUME SessionsOK', AllOK(out'), \A s \in Sessions : Driven(out'[s]) \/ s \in broken'
    PROVE  IInv'
<1>1. TypeOK' /\ ChannelsHoldLiveSessions' /\ OperationsKeepSessions'
  BY DEF SessionsOK, TypeOK, AllOK
<1>2. WriteIsFront' /\ QueueIsDriven' /\ Fifo'
  BY DEF AllOK, BoxOK, FrontWritten, InOrder, Driven, WriteIsFront, QueueIsDriven, Fifo
<1> QED BY <1>1, <1>2 DEF IInv

\* The destructor of a session whose channel exists.
LEMMA DestroyInv ==
    ASSUME IInv, NEW s \in Sessions, NEW boxes, AllOK(boxes),
           \A t \in Sessions \ {s} : boxes[t] = out[t],
           boxes[s].writing = {}, path[s] \in DOMAIN channels,
           Destroy(s, boxes), path' = path, begun' = begun,
           reading' = reading \ {s},
           broken \subseteq broken', broken' \subseteq Sessions,
           Driven(boxes[s]) \/ s \in broken'
    PROVE  IInv'
<1> DEFINE live == {t \in Sessions : status[t] = "open"} \ {s}
           left == Left(channels, s)
<1>1. PICK onEnd \in Reach(left), onDisconnect \in Reach(left) :
        /\ status' = [status EXCEPT ![s] = "gone"]
        /\ channels' = left
        /\ ended' = ended \cup {s}
        /\ RunCallbacks(boxes, onEnd, onDisconnect)
        /\ UNCHANGED terminated
  BY DEF Destroy
<1>2. /\ DOMAIN left = DOMAIN channels
      /\ \A p \in DOMAIN channels : left[p] = IF p = path[s] THEN channels[p] \ {s} ELSE channels[p]
  BY DEF Left
<1>3. \A p \in DOMAIN left : left[p] = {t \in live : path[t] = p}
  BY <1>2 DEF IInv, ChannelsHoldLiveSessions
<1>4. onEnd \subseteq live /\ onDisconnect \subseteq live
  <2> HIDE DEF left, live
  <2>1. \A p \in DOMAIN left : left[p] \subseteq live
    BY <1>3
  <2> QED BY <2>1, <1>1, ReachIsMembers
<1>5. /\ posts' \in 0..MaxPosts
      /\ AllOK(out')
      /\ \A t \in Sessions :
            /\ t \notin live => out'[t] = boxes[t]
            /\ boxes[t].writing \subseteq out'[t].writing
            /\ Driven(boxes[t]) => Driven(out'[t])
  BY <1>1, <1>4, RunCallbacksBoxes DEF IInv, TypeOK
<1>6. \A t \in Sessions : Driven(out'[t]) \/ t \in broken'
  BY <1>5, BoxesOK
<1>7. \A t \in Sessions : status'[t] = "open" <=> t \in live
  BY <1>1 DEF IInv, TypeOK
<1>8. ChannelsHoldLiveSessions'
  <2>1. \A t \in Sessions : status'[t] = "open" => path'[t] \in DOMAIN channels'
    BY <1>1, <1>2, <1>7 DEF IInv, ChannelsHoldLiveSessions
  <2>2. \A p \in DOMAIN channels' : channels'[p] = {t \in Sessions : status'[t] = "open" /\ path'[t] = p}
    BY <1>1, <1>3, <1>7
  <2> QED BY <2>1, <2>2 DEF ChannelsHoldLiveSessions
<1>9. OperationsKeepSessions'
  <2>1. \A t \in Sessions : /\ status'[t] = "open" <=> t \in begun' /\ t \notin ended'
                            /\ t \in ended' => status'[t] = "gone"
    BY <1>1, <1>7 DEF IInv, TypeOK, OperationsKeepSessions
  <2>2. ASSUME NEW t \in Sessions
        PROVE  status'[t] = "open" <=> t \in reading' \/ out'[t].writing # {}
    <3>1. CASE t = s
      BY <1>5, <1>7, <3>1
    <3>2. CASE t \in live
      <4>1. t \in reading \/ out[t].writing # {}
        BY <3>2 DEF IInv, OperationsKeepSessions
      <4> QED BY <1>5, <1>7, <3>2, <4>1
    <3>3. CASE t # s /\ t \notin live
      <4>1. t \notin reading /\ out[t].writing = {}
        BY <3>3 DEF IInv, OperationsKeepSessions
      <4> QED BY <1>5, <1>7, <3>3, <4>1
    <3> QED BY <3>1, <3>2, <3>3
  <2> QED BY <2>1, <2>2 DEF OperationsKeepSessions
<1>10. /\ status' \in [Sessions -> {"none", "accepting", "open", "gone"}]
       /\ DOMAIN channels' \subseteq Paths
       /\ \A p \in DOMAIN channels' : channels'[p] \subseteq Sessions
       /\ ended' \subseteq Sessions
  BY <1>1, <1>2, <1>3 DEF IInv, TypeOK
<1> QED BY <1>1, <1>5, <1>6, <1>8, <1>9, <1>10, IInvPrime DEF IInv, TypeOK, SessionsOK

\* The end of a handler of an open session.
LEMMA ReturnInv ==
    ASSUME IInv, NEW s \in Sessions, status[s] = "open", NEW boxes, AllOK(boxes),
           \A t \in Sessions \ {s} : boxes[t] = out[t],
           NEW still \in BOOLEAN, Return(s, boxes, still),
           still = (s \in reading'), reading' \ {s} = reading \ {s}, reading' \subseteq reading,
           path' = path, begun' = begun,
           broken \subseteq broken', broken' \subseteq Sessions,
           Driven(boxes[s]) \/ s \in broken'
    PROVE  IInv'
<1>1. path[s] \in DOMAIN channels
  BY DEF IInv, ChannelsHoldLiveSessions
<1>2. CASE still \/ boxes[s].writing # {}
  <2>1. out' = boxes /\ UNCHANGED <<status, channels, posts, ended, terminated>>
    BY <1>2 DEF Return
  <2>2. \A t \in Sessions : Driven(out'[t]) \/ t \in broken'
    BY <2>1, BoxesOK
  <2>3. ChannelsHoldLiveSessions'
    BY <2>1 DEF IInv, ChannelsHoldLiveSessions
  <2>4. OperationsKeepSessions'
    BY <1>2, <2>1 DEF IInv, OperationsKeepSessions
  <2> QED BY <2>1, <2>2, <2>3, <2>4, IInvPrime DEF IInv, TypeOK, SessionsOK
<1>3. CASE ~(still \/ boxes[s].writing # {})
  <2>1. Destroy(s, boxes) /\ reading' = reading \ {s} /\ boxes[s].writing = {}
    BY <1>3 DEF Return
  <2> QED BY <1>1, <2>1, DestroyInv
<1> QED BY <1>2, <1>3

\* The handlers that end with the session open: on_accept, which adds it, on_read.
LEMMA CallbacksInv ==
    ASSUME IInv, NEW s \in Sessions, NEW T1, NEW T2, RunCallbacks(out, T1, T2),
           OnAccept(s) \/ OnRead(s),
           T1 \subseteq {t \in Sessions : status'[t] = "open"},
           T2 \subseteq {t \in Sessions : status'[t] = "open"},
           \A t \in Sessions : status'[t] = "open" <=> t = s \/ status[t] = "open",
           status' \in [Sessions -> {"none", "accepting", "open", "gone"}],
           DOMAIN channels' \subseteq Paths,
           ChannelsHoldLiveSessions',
           reading' = reading \cup {s}, begun' \subseteq Sessions
    PROVE  IInv'
<1>1. /\ posts' \in 0..MaxPosts
      /\ AllOK(out')
      /\ \A t \in Sessions :
            /\ t \notin T1 /\ t \notin T2 => out'[t] = out[t]
            /\ out[t].writing \subseteq out'[t].writing
            /\ Driven(out[t]) => Driven(out'[t])
  BY BoxesOK, RunCallbacksBoxes DEF IInv, TypeOK
<1>2. UNCHANGED <<path, ended, broken, terminated>>
  BY DEF OnAccept, OnRead
<1>3. \A t \in Sessions : Driven(out'[t]) \/ t \in broken'
  BY <1>1, <1>2, BoxesOK
<1>4. OperationsKeepSessions'
  <2>1. \A t \in Sessions : /\ status'[t] = "open" <=> t \in begun' /\ t \notin ended'
                            /\ t \in ended' => status'[t] = "gone"
    <3>1. begun' = begun \cup {s} /\ s \notin ended
      BY DEF OnAccept, OnRead, IInv, OperationsKeepSessions
    <3>2. \A t \in Sessions \ {s} : status'[t] = status[t]
      BY DEF OnAccept, OnRead, IInv, TypeOK
    <3> QED BY <1>2, <3>1, <3>2 DEF IInv, OperationsKeepSessions
  <2>2. ASSUME NEW t \in Sessions
        PROVE  status'[t] = "open" <=> t \in reading' \/ out'[t].writing # {}
    <3>1. CASE status'[t] = "open"
      BY <1>1, <3>1 DEF IInv, OperationsKeepSessions
    <3>2. CASE status'[t] # "open"
      <4>1. t # s /\ t \notin reading /\ out[t].writing = {} /\ out'[t] = out[t]
        BY <1>1, <3>2 DEF IInv, OperationsKeepSessions
      <4> QED BY <3>2, <4>1
    <3> QED BY <3>1, <3>2
  <2> QED BY <2>1, <2>2 DEF OperationsKeepSessions
<1>5. \A p \in DOMAIN channels' : channels'[p] \subseteq Sessions
  BY DEF ChannelsHoldLiveSessions
<1> QED BY <1>1, <1>2, <1>3, <1>4, <1>5, IInvPrime DEF IInv, TypeOK, SessionsOK

\* on_accept: the session joins the channel of its path.
LEMMA AcceptInv == ASSUME IInv, NEW s \in Sessions, OnAccept(s) PROVE IInv'
<1> DEFINE joined == Joined(channels, s)
           live == {t \in Sessions : status'[t] = "open"}
<1>1. PICK onConnect \in Reach(joined) \cup {{s}}, onBegin \in Reach(joined) \cup {{s}} :
        RunCallbacks(out, onConnect, onBegin)
  BY DEF OnAccept
<1>2. /\ status[s] = "accepting" /\ status' = [status EXCEPT ![s] = "open"]
      /\ channels' = joined /\ path' = path
      /\ begun' = begun \cup {s} /\ reading' = reading \cup {s}
  BY DEF OnAccept
<1>3. /\ status' \in [Sessions -> {"none", "accepting", "open", "gone"}]
      /\ \A t \in Sessions : status'[t] = "open" <=> t = s \/ status[t] = "open"
  BY <1>2 DEF IInv, TypeOK
<1>4. /\ DOMAIN joined = DOMAIN channels \cup {path[s]}
      /\ \A p \in DOMAIN joined :
            joined[p] = (IF p \in DOMAIN channels THEN channels[p] ELSE {})
                            \cup (IF p = path[s] THEN {s} ELSE {})
  BY DEF Joined
<1>5. \A p \in DOMAIN joined : joined[p] = {t \in live : path[t] = p}
  <2> SUFFICES ASSUME NEW p \in DOMAIN joined PROVE joined[p] = {t \in live : path[t] = p}
    OBVIOUS
  <2>1. CASE p \in DOMAIN channels
    BY <1>3, <1>4, <2>1 DEF IInv, ChannelsHoldLiveSessions
  <2>2. CASE p \notin DOMAIN channels
    BY <1>3, <1>4, <2>2 DEF IInv, ChannelsHoldLiveSessions
  <2> QED BY <2>1, <2>2
<1>6. ChannelsHoldLiveSessions' /\ DOMAIN channels' \subseteq Paths
  <2>1. \A t \in Sessions : status'[t] = "open" => path'[t] \in DOMAIN channels'
    BY <1>2, <1>3, <1>4 DEF IInv, ChannelsHoldLiveSessions
  <2>2. \A p \in DOMAIN channels' : channels'[p] = {t \in Sessions : status'[t] = "open" /\ path'[t] = p}
    BY <1>2, <1>5
  <2> QED BY <1>2, <1>4, <2>1, <2>2 DEF ChannelsHoldLiveSessions, IInv, TypeOK
<1>7. onConnect \subseteq live /\ onBegin \subseteq live
  <2> HIDE DEF joined, live
  <2>1. \A p \in DOMAIN joined : joined[p] \subseteq live
    BY <1>5
  <2>2. \A T \in Reach(joined) : T \subseteq live
    BY <2>1, ReachIsMembers
  <2>3. {s} \subseteq live
    BY <1>3 DEF live
  <2> QED BY <1>1, <2>2, <2>3
<1>8. begun' \subseteq Sessions
  BY <1>2 DEF IInv, TypeOK
<1> HIDE DEF joined
<1> QED BY <1>1, <1>2, <1>3, <1>6, <1>7, <1>8, CallbacksInv

\* on_read of a message: the session stays open and reads on.
LEMMA ReadInv == ASSUME IInv, NEW s \in Sessions, OnRead(s) PROVE IInv'
<1> DEFINE live == {t \in Sessions : status[t] = "open"}
<1>1. PICK onData \in Reach(channels) \cup {{s}}, onError \in Reach(channels) \cup {{s}} :
        RunCallbacks(out, onData, onError)
  BY DEF OnRead
<1>2. /\ s \in reading /\ status[s] = "open"
      /\ UNCHANGED <<status, path, reading, channels, begun>>
  BY DEF OnRead, IInv, OperationsKeepSessions
<1>3. onData \subseteq live /\ onError \subseteq live
  <2>1. \A p \in DOMAIN channels : channels[p] \subseteq live
    BY DEF IInv, ChannelsHoldLiveSessions
  <2> HIDE DEF live
  <2>2. \A T \in Reach(channels) : T \subseteq live
    BY <2>1, ReachIsMembers
  <2>3. {s} \subseteq live
    BY <1>2 DEF live
  <2> QED BY <1>1, <2>2, <2>3
<1>4. ChannelsHoldLiveSessions'
  BY <1>2 DEF IInv, ChannelsHoldLiveSessions
<1> QED BY <1>1, <1>2, <1>3, <1>4, CallbacksInv DEF IInv, TypeOK

\* No step breaks the inductive invariant.
LEMMA NextIInv == IInv /\ [Next]_vars => IInv'
<1> SUFFICES ASSUME IInv, [Next]_vars PROVE IInv'
  OBVIOUS
<1>1. ASSUME NEW s \in Sessions, Upgrade(s) PROVE IInv'
  <2>1. /\ status' \in [Sessions -> {"none", "accepting", "open", "gone"}]
        /\ \A t \in Sessions : status'[t] = "open" <=> status[t] = "open"
        /\ \A t \in ended : status'[t] = "gone"
        /\ UNCHANGED <<path, reading, out, channels, posts, begun, ended, broken, terminated>>
    BY <1>1 DEF Upgrade, IInv, TypeOK, OperationsKeepSessions
  <2>2. ChannelsHoldLiveSessions' /\ OperationsKeepSessions'
    BY <2>1 DEF IInv, ChannelsHoldLiveSessions, OperationsKeepSessions
  <2>3. AllOK(out') /\ \A t \in Sessions : Driven(out'[t]) \/ t \in broken'
    BY <2>1, BoxesOK
  <2> QED BY <2>1, <2>2, <2>3, IInvPrime DEF IInv, TypeOK, SessionsOK
<1>2. ASSUME NEW s \in Sessions, OnAcceptFail(s) PROVE IInv'
  <2>1. status[s] = "accepting" /\ s \notin reading /\ out[s].writing = {}
    BY <1>2 DEF OnAcceptFail, IInv, OperationsKeepSessions
  <2>2. CASE path[s] \notin DOMAIN channels
    <3>1. terminated' = TRUE /\ UNCHANGED <<status, path, reading, out, channels, posts, begun, ended, broken>>
      BY <1>2, <2>2 DEF OnAcceptFail, Destroy
    <3> QED BY <3>1 DEF IInv, TypeOK, ChannelsHoldLiveSessions, OperationsKeepSessions,
                        WriteIsFront, QueueIsDriven, Fifo
  <2>3. CASE path[s] \in DOMAIN channels
    <3>1. Destroy(s, out) /\ UNCHANGED <<path, reading, begun, broken>>
      BY <1>2 DEF OnAcceptFail
    <3>2. Driven(out[s]) \/ s \in broken
      BY BoxesOK
    <3>3. AllOK(out)
      BY BoxesOK
    <3>4. broken' \subseteq Sessions
      BY <3>1 DEF IInv, TypeOK
    <3> QED BY <2>1, <2>3, <3>1, <3>2, <3>3, <3>4, DestroyInv
  <2> QED BY <2>2, <2>3
<1>3. ASSUME NEW s \in Sessions, OnReadFail(s) PROVE IInv'
  <2>1. status[s] = "open" /\ AllOK(out) /\ (Driven(out[s]) \/ s \in broken)
    BY <1>3, BoxesOK DEF OnReadFail, IInv, OperationsKeepSessions
  <2>2. /\ Return(s, out, FALSE) /\ reading' = reading \ {s}
        /\ UNCHANGED <<path, begun, broken>> /\ broken' \subseteq Sessions
    BY <1>3 DEF OnReadFail, IInv, TypeOK
  <2>3. /\ FALSE = (s \in reading') /\ reading' \ {s} = reading \ {s} /\ reading' \subseteq reading
        /\ path' = path /\ begun' = begun /\ broken \subseteq broken'
        /\ Driven(out[s]) \/ s \in broken'
    BY <2>1, <2>2
  <2> QED BY <2>1, <2>2, <2>3, ReturnInv
<1>4. ASSUME NEW s \in Sessions, OnWrite(s) PROVE IInv'
  <2>1. PICK m \in out[s].writing : Return(s, [out EXCEPT ![s] = Written(@, m)], s \in reading)
    BY <1>4 DEF OnWrite
  <2> DEFINE boxes == [out EXCEPT ![s] = Written(@, m)]
  <2>2. status[s] = "open" /\ out \in [Sessions -> Outbox]
    BY <2>1 DEF IInv, TypeOK, OperationsKeepSessions
  <2>3. BoxOK(Written(out[s], m)) /\ Driven(Written(out[s], m))
    BY <2>1, BoxesOK, WrittenBox DEF AllOK
  <2>4. /\ AllOK(boxes) /\ Driven(boxes[s])
        /\ \A t \in Sessions \ {s} : boxes[t] = out[t]
    BY <2>2, <2>3, BoxesOK DEF AllOK, BoxOK
  <2>5. UNCHANGED <<path, reading, begun, broken>> /\ broken' \subseteq Sessions
    BY <1>4 DEF OnWrite, IInv, TypeOK
  <2> HIDE DEF boxes
  <2>6. Return(s, boxes, s \in reading) /\ (s \in reading) \in BOOLEAN
    BY <2>1 DEF boxes
  <2> QED BY <2>2, <2>4, <2>5, <2>6, ReturnInv
<1>5. ASSUME NEW s \in Sessions, OnWriteFail(s) PROVE IInv'
  <2>1. PICK m \in out[s].writing : Return(s, [out EXCEPT ![s] = WriteFailed(@, m)], s \in reading)
    BY <1>5 DEF OnWriteFail
  <2> DEFINE boxes == [out EXCEPT ![s] = WriteFailed(@, m)]
  <2>2. status[s] = "open" /\ out \in [Sessions -> Outbox]
    BY <2>1 DEF IInv, TypeOK, OperationsKeepSessions
  <2>3. BoxOK(WriteFailed(out[s], m))
    BY <2>1, BoxesOK, WriteFailedBox DEF AllOK
  <2>4. AllOK(boxes) /\ \A t \in Sessions \ {s} : boxes[t] = out[t]
    BY <2>2, <2>3, BoxesOK DEF AllOK, BoxOK
  <2>5. /\ UNCHANGED <<path, reading, begun>> /\ broken' = broken \cup {s}
        /\ broken' \subseteq Sessions
    BY <1>5 DEF OnWriteFail, IInv, TypeOK
  <2> HIDE DEF boxes
  <2>6. Return(s, boxes, s \in reading) /\ (s \in reading) \in BOOLEAN
    BY <2>1 DEF boxes
  <2> QED BY <2>2, <2>4, <2>5, <2>6, ReturnInv
<1>6. CASE UNCHANGED vars
  BY <1>6 DEF vars, IInv, TypeOK, ChannelsHoldLiveSessions, OperationsKeepSessions,
              WriteIsFront, QueueIsDriven, Fifo
<1> QED BY <1>1, <1>2, <1>3, <1>4, <1>5, <1>6, AcceptInv, ReadInv DEF Next

\* The inductive invariant holds throughout.
THEOREM Invariance == Spec => []IInv
  BY InitIInv, NextIInv, PTL DEF Spec

\* Type correctness, for any number of sessions, paths and messages.
THEOREM TypeCorrect == Spec => []TypeOK
  BY Invariance, PTL DEF IInv

\* The channels hold exactly the live accepted sessions: no dangling pointer.
THEOREM ChannelsHoldLiveSessionsAlways == Spec => []ChannelsHoldLiveSessions
  BY Invariance, PTL DEF IInv

\* A session is kept alive by its operations, and by nothing else.
THEOREM OperationsKeepSessionsAlways == Spec => []OperationsKeepSessions
  BY Invariance, PTL DEF IInv

\* One write at a time, of the front of the queue.
THEOREM WriteIsFrontAlways == Spec => []WriteIsFront
  BY Invariance, PTL DEF IInv

\* No wake-up of the outgoing queue is lost.
THEOREM QueueIsDrivenAlways == Spec => []QueueIsDriven
  BY Invariance, PTL DEF IInv

\* Messages are written in the order in which they were sent.
THEOREM FifoAlways == Spec => []Fifo
  BY Invariance, PTL DEF IInv
-----------------------------------------------------------------------------
\* The callbacks of a destructor send to live sessions, never to the one destroyed.
LEMMA DestroySends ==
    ASSUME IInv, NEW s \in Sessions, NEW boxes, AllOK(boxes),
           path[s] \in DOMAIN channels, Destroy(s, boxes)
    PROVE  \A t \in Sessions : out'[t] # boxes[t] => status'[t] = "open"
<1> DEFINE left == Left(channels, s)
           live == {t \in Sessions : status[t] = "open" /\ t # s}
<1>1. PICK onEnd \in Reach(left), onDisconnect \in Reach(left) :
        status' = [status EXCEPT ![s] = "gone"] /\ RunCallbacks(boxes, onEnd, onDisconnect)
  BY DEF Destroy
<1>2. \A p \in DOMAIN left : left[p] \subseteq live
  BY DEF Left, IInv, ChannelsHoldLiveSessions
<1>3. \A t \in live : status'[t] = "open"
  BY <1>1 DEF IInv, TypeOK
<1> HIDE DEF left, live
<1>4. onEnd \subseteq live /\ onDisconnect \subseteq live
  BY <1>1, <1>2, ReachIsMembers
<1>5. \A t \in Sessions : t \notin onEnd /\ t \notin onDisconnect => out'[t] = boxes[t]
  BY <1>1, RunCallbacksBoxes DEF IInv, TypeOK
<1> QED BY <1>3, <1>4, <1>5

\* The same for any handler that may end in the destructor.
LEMMA ReturnSends ==
    ASSUME IInv, NEW s \in Sessions, status[s] = "open", NEW boxes, AllOK(boxes),
           NEW still, Return(s, boxes, still)
    PROVE  \A t \in Sessions : out'[t] # boxes[t] => status'[t] = "open"
<1>1. path[s] \in DOMAIN channels
  BY DEF IInv, ChannelsHoldLiveSessions
<1>2. CASE still \/ boxes[s].writing # {}
  BY <1>2 DEF Return
<1>3. CASE ~(still \/ boxes[s].writing # {})
  <2>1. Destroy(s, boxes)
    BY <1>3 DEF Return
  <2> QED BY <1>1, <2>1, DestroySends
<1> QED BY <1>2, <1>3

\* A step sends only to sessions that are open after it.
LEMMA NextSends ==
    IInv /\ IInv' /\ [Next]_vars =>
        \A s \in Sessions : out'[s].posted # out[s].posted => status'[s] = "open"
<1> SUFFICES ASSUME IInv, IInv', [Next]_vars, NEW t \in Sessions,
                    out'[t].posted # out[t].posted
             PROVE  status'[t] = "open"
  OBVIOUS
<1>0. AllOK(out) /\ out \in [Sessions -> Outbox] /\ posts \in 0..MaxPosts
  BY BoxesOK DEF IInv, TypeOK
<1>1. ASSUME NEW s \in Sessions, OnAccept(s) PROVE status'[t] = "open"
  <2> DEFINE joined == Joined(channels, s)
             live == {u \in Sessions : status'[u] = "open"}
  <2>1. PICK onConnect \in Reach(joined) \cup {{s}}, onBegin \in Reach(joined) \cup {{s}} :
          RunCallbacks(out, onConnect, onBegin)
    BY <1>1 DEF OnAccept
  <2>2. channels' = joined /\ status' = [status EXCEPT ![s] = "open"]
    BY <1>1 DEF OnAccept
  <2>3. \A p \in DOMAIN joined : joined[p] \subseteq live
    BY <2>2 DEF IInv, ChannelsHoldLiveSessions
  <2>4. {s} \subseteq live
    BY <2>2 DEF IInv, TypeOK
  <2>5. t \in onConnect \/ t \in onBegin
    BY <1>0, <2>1, RunCallbacksBoxes
  <2> HIDE DEF joined, live
  <2>6. onConnect \subseteq live /\ onBegin \subseteq live
    BY <2>1, <2>3, <2>4, ReachIsMembers
  <2> QED BY <2>5, <2>6 DEF live
<1>2. ASSUME NEW s \in Sessions, OnRead(s) PROVE status'[t] = "open"
  <2> DEFINE live == {u \in Sessions : status[u] = "open"}
  <2>1. PICK onData \in Reach(channels) \cup {{s}}, onError \in Reach(channels) \cup {{s}} :
          RunCallbacks(out, onData, onError)
    BY <1>2 DEF OnRead
  <2>2. status' = status /\ {s} \subseteq live
    BY <1>2 DEF OnRead, IInv, OperationsKeepSessions
  <2>3. \A p \in DOMAIN channels : channels[p] \subseteq live
    BY DEF IInv, ChannelsHoldLiveSessions
  <2>4. t \in onData \/ t \in onError
    BY <1>0, <2>1, RunCallbacksBoxes
  <2> HIDE DEF live
  <2>5. onData \subseteq live /\ onError \subseteq live
    BY <2>1, <2>2, <2>3, ReachIsMembers
  <2> QED BY <2>2, <2>4, <2>5 DEF live
<1>3. ASSUME NEW s \in Sessions, OnAcceptFail(s) PROVE status'[t] = "open"
  <2>1. CASE path[s] \in DOMAIN channels
    BY <1>0, <1>3, <2>1, DestroySends DEF OnAcceptFail
  <2>2. CASE path[s] \notin DOMAIN channels
    BY <1>3, <2>2 DEF OnAcceptFail, Destroy
  <2> QED BY <2>1, <2>2
<1>4. ASSUME NEW s \in Sessions, OnReadFail(s) PROVE status'[t] = "open"
  <2>1. status[s] = "open" /\ Return(s, out, FALSE)
    BY <1>4 DEF OnReadFail, IInv, OperationsKeepSessions
  <2> QED BY <1>0, <2>1, ReturnSends
<1>5. ASSUME NEW s \in Sessions, OnWrite(s) PROVE status'[t] = "open"
  <2>1. PICK m \in out[s].writing : Return(s, [out EXCEPT ![s] = Written(@, m)], s \in reading)
    BY <1>5 DEF OnWrite
  <2> DEFINE boxes == [out EXCEPT ![s] = Written(@, m)]
  <2>2. status[s] = "open"
    BY <2>1 DEF IInv, OperationsKeepSessions
  <2>3. BoxOK(Written(out[s], m)) /\ Written(out[s], m).posted = out[s].posted
    BY <1>0, <2>1, WrittenBox DEF AllOK, Written, Outbox
  <2>4. AllOK(boxes) /\ boxes[t].posted = out[t].posted
    BY <1>0, <2>3 DEF AllOK, BoxOK
  <2> HIDE DEF boxes
  <2>5. Return(s, boxes, s \in reading)
    BY <2>1 DEF boxes
  <2> QED BY <2>2, <2>4, <2>5, ReturnSends
<1>6. ASSUME NEW s \in Sessions, OnWriteFail(s) PROVE status'[t] = "open"
  <2>1. PICK m \in out[s].writing : Return(s, [out EXCEPT ![s] = WriteFailed(@, m)], s \in reading)
    BY <1>6 DEF OnWriteFail
  <2> DEFINE boxes == [out EXCEPT ![s] = WriteFailed(@, m)]
  <2>2. status[s] = "open"
    BY <2>1 DEF IInv, OperationsKeepSessions
  <2>3. BoxOK(WriteFailed(out[s], m)) /\ WriteFailed(out[s], m).posted = out[s].posted
    BY <1>0, <2>1, WriteFailedBox DEF AllOK, WriteFailed, Outbox
  <2>4. AllOK(boxes) /\ boxes[t].posted = out[t].posted
    BY <1>0, <2>3 DEF AllOK, BoxOK
  <2> HIDE DEF boxes
  <2>5. Return(s, boxes, s \in reading)
    BY <2>1 DEF boxes
  <2> QED BY <2>2, <2>4, <2>5, ReturnSends
<1>7. (\A s \in Sessions : ~Upgrade(s)) /\ ~UNCHANGED vars
  BY DEF Upgrade, vars
<1> QED BY <1>1, <1>2, <1>3, <1>4, <1>5, <1>6, <1>7 DEF Next

\* No step sends to a session that is not accepted, or is destroyed already.
THEOREM SendsReachLiveSessionsAlways == Spec => SendsReachLiveSessions
<1>1. IInv /\ IInv' /\ [Next]_vars =>
        [\A s \in Sessions : out'[s].posted # out[s].posted => status'[s] = "open"]_vars
  BY NextSends
<1> QED BY <1>1, Invariance, PTL DEF Spec, SendsReachLiveSessions
-----------------------------------------------------------------------------
(* The order of the messages.  A message has the number of its send or     *)
(* broadcast, so that what is posted to a session rises.                   *)

\* What was posted to a session rises, up to the number of the last send.
Rising(box, n) ==
    \A i \in DOMAIN box.posted :
        /\ box.posted[i] <= n
        /\ \A j \in DOMAIN box.posted : i < j => box.posted[i] < box.posted[j]

AllRising(boxes, n) == \A s \in Sessions : Rising(boxes[s], n)

\* A callback sends the next number, to whomever it sends.
LEMMA BroadcastRises ==
    ASSUME NEW boxes, AllOK(boxes), NEW n \in Nat, AllRising(boxes, n),
           NEW T, T # {} => n + 1 \in Messages
    PROVE  AllRising(Broadcast(boxes, T, n + 1), n + Cost(T))
<1> SUFFICES ASSUME NEW s \in Sessions
             PROVE  Rising(Broadcast(boxes, T, n + 1)[s], n + Cost(T))
  BY DEF AllRising
<1>1. /\ boxes[s] \in Outbox /\ boxes[s].posted \in Seq(Messages) /\ Rising(boxes[s], n)
  BY DEF AllOK, AllRising, Outbox
<1> DEFINE old == boxes[s].posted
           new == Broadcast(boxes, T, n + 1)[s].posted
<1>2. DOMAIN old = 1..Len(old) /\ Len(old) \in Nat /\ \A i \in DOMAIN old : old[i] \in Nat
  <2>1. \A i \in 1..Len(old) : old[i] \in Messages
    BY <1>1, ElementOfSeq
  <2> QED BY <1>1, <2>1, LenProperties DEF Messages
<1>3. CASE s \notin T
  <2>1. new = old
    BY <1>3 DEF Broadcast
  <2>2. n <= n + Cost(T) /\ Cost(T) \in Nat
    BY DEF Cost
  <2> HIDE DEF old, new
  <2>3. \A i \in DOMAIN old : /\ old[i] <= n
                              /\ \A j \in DOMAIN old : i < j => old[i] < old[j]
    BY <1>1 DEF Rising, old
  <2>4. \A i \in DOMAIN old : old[i] <= n + Cost(T)
    BY <1>2, <2>2, <2>3
  <2> QED BY <2>1, <2>3, <2>4 DEF Rising, new
<1>4. CASE s \in T
  <2>1. new = Append(old, n + 1) /\ n + 1 \in Messages /\ Cost(T) = 1
    <3>1. Broadcast(boxes, T, n + 1)[s] = Send(boxes[s], n + 1)
      BY <1>4 DEF Broadcast
    <3>2. Send(boxes[s], n + 1).posted = Append(boxes[s].posted, n + 1)
      BY <1>1 DEF Send, Outbox
    <3> QED BY <1>4, <3>1, <3>2 DEF Cost
  <2>2. /\ new \in Seq(Messages) /\ Len(new) = Len(old) + 1
        /\ \A i \in 1..Len(old) : new[i] = old[i]
        /\ new[Len(old) + 1] = n + 1
    <3>1. old \in Seq(Messages)
      BY <1>1
    <3> HIDE DEF old, new
    <3> QED BY <2>1, <3>1, AppendProperties
  <2>3. DOMAIN new = 1..(Len(old) + 1)
    BY <2>2, LenProperties
  <2> HIDE DEF old, new
  <2>4. \A i \in DOMAIN old : /\ old[i] <= n
                              /\ \A j \in DOMAIN old : i < j => old[i] < old[j]
    BY <1>1 DEF Rising, old
  <2>5. ASSUME NEW i \in DOMAIN new
        PROVE  /\ new[i] <= n + 1
               /\ \A j \in DOMAIN new : i < j => new[i] < new[j]
    <3>1. CASE i = Len(old) + 1
      BY <1>2, <2>2, <2>3, <3>1
    <3>2. CASE i \in DOMAIN old
      <4>1. new[i] = old[i] /\ old[i] <= n /\ old[i] \in Nat
        BY <1>2, <2>2, <2>4, <3>2
      <4>2. ASSUME NEW j \in DOMAIN new, i < j PROVE new[i] < new[j]
        <5>1. CASE j = Len(old) + 1
          BY <2>2, <4>1, <5>1
        <5>2. CASE j \in DOMAIN old
          BY <1>2, <2>2, <2>4, <3>2, <4>2, <5>2
        <5> QED BY <1>2, <2>3, <5>1, <5>2
      <4> QED BY <4>1, <4>2
    <3> QED BY <1>2, <2>3, <3>1, <3>2
  <2> QED BY <2>1, <2>5 DEF Rising, new
<1> QED BY <1>3, <1>4

\* The same for the two callbacks of a handler.
LEMMA CallbacksRise ==
    ASSUME NEW boxes, AllOK(boxes), posts \in 0..MaxPosts, AllRising(boxes, posts),
           NEW T1, NEW T2, RunCallbacks(boxes, T1, T2)
    PROVE  AllRising(out', posts')
<1> DEFINE middle == posts + Cost(T1)
           first == Broadcast(boxes, T1, posts + 1)
<1>1. posts' = middle + Cost(T2) /\ posts' <= MaxPosts /\ out' = Broadcast(first, T2, middle + 1)
  BY DEF RunCallbacks
<1>2. /\ posts \in Nat /\ middle \in Nat
      /\ T1 # {} => posts + 1 \in Messages
      /\ T2 # {} => middle + 1 \in Messages
  BY <1>1, MaxPostsAssumption DEF Cost, Messages
<1>3. AllRising(first, middle) /\ AllOK(first)
  BY <1>2, BroadcastRises, BroadcastBoxes
<1> HIDE DEF middle, first
<1> QED BY <1>1, <1>2, <1>3, BroadcastRises

\* The end of a handler posts by the callbacks of the destructor only.
LEMMA DestroyRises ==
    ASSUME posts \in 0..MaxPosts, NEW s, NEW boxes, AllOK(boxes), AllRising(boxes, posts),
           Destroy(s, boxes)
    PROVE  AllRising(out', posts')
<1>1. CASE path[s] \notin DOMAIN channels
  BY <1>1 DEF Destroy
<1>2. CASE path[s] \in DOMAIN channels
  <2>1. PICK onEnd, onDisconnect \in Reach(Left(channels, s)) :
            RunCallbacks(boxes, onEnd, onDisconnect)
    BY <1>2 DEF Destroy
  <2> QED BY <2>1, CallbacksRise
<1> QED BY <1>1, <1>2

\* The end of a handler destroys what it held last: what is posted stays in order.
LEMMA ReturnRises ==
    ASSUME posts \in 0..MaxPosts, NEW s, NEW boxes, AllOK(boxes), AllRising(boxes, posts),
           NEW still, Return(s, boxes, still)
    PROVE  AllRising(out', posts')
  BY DestroyRises DEF Return

\* Every step keeps what is posted rising.
LEMMA NextRises == IInv /\ AllRising(out, posts) /\ [Next]_vars => AllRising(out', posts')
<1> SUFFICES ASSUME IInv, AllRising(out, posts), [Next]_vars PROVE AllRising(out', posts')
  OBVIOUS
<1>1. AllOK(out) /\ out \in [Sessions -> Outbox] /\ posts \in 0..MaxPosts
  BY BoxesOK DEF IInv, TypeOK
<1>2. ASSUME NEW s \in Sessions, OnAccept(s) \/ OnRead(s)
      PROVE  AllRising(out', posts')
  <2>1. PICK T1, T2 : RunCallbacks(out, T1, T2)
    BY <1>2 DEF OnAccept, OnRead
  <2> QED BY <1>1, <2>1, CallbacksRise
<1>3. ASSUME NEW s \in Sessions, OnAcceptFail(s) \/ OnReadFail(s)
      PROVE  AllRising(out', posts')
  BY <1>1, <1>3, DestroyRises, ReturnRises DEF OnAcceptFail, OnReadFail
<1>4. ASSUME NEW s \in Sessions, OnWrite(s) \/ OnWriteFail(s)
      PROVE  AllRising(out', posts')
  <2>1. PICK m \in out[s].writing :
            \E box \in {Written(out[s], m), WriteFailed(out[s], m)} :
                Return(s, [out EXCEPT ![s] = box], s \in reading)
    BY <1>4 DEF OnWrite, OnWriteFail
  <2>0. PICK box \in {Written(out[s], m), WriteFailed(out[s], m)} :
            Return(s, [out EXCEPT ![s] = box], s \in reading)
    BY <2>1
  <2> DEFINE boxes == [out EXCEPT ![s] = box]
  <2>2. BoxOK(box) /\ box.posted = out[s].posted
    <3>1. out[s] \in Outbox /\ BoxOK(out[s]) /\ m \in out[s].writing
      BY <1>1 DEF AllOK
    <3>2. BoxOK(Written(out[s], m)) /\ BoxOK(WriteFailed(out[s], m))
      BY <3>1, WrittenBox, WriteFailedBox
    <3>3. /\ Written(out[s], m).posted = out[s].posted
          /\ WriteFailed(out[s], m).posted = out[s].posted
      BY <3>1 DEF Written, WriteFailed, Outbox
    <3> QED BY <3>2, <3>3
  <2>3. AllOK(boxes) /\ \A t \in Sessions : boxes[t].posted = out[t].posted
    BY <1>1, <2>2 DEF AllOK, BoxOK
  <2> HIDE DEF boxes
  <2>4. AllRising(boxes, posts)
    BY <2>3 DEF AllRising, Rising
  <2>5. Return(s, boxes, s \in reading)
    BY <2>0 DEF boxes
  <2> QED BY <1>1, <2>3, <2>4, <2>5, ReturnRises
<1>5. ASSUME NEW s \in Sessions, Upgrade(s)
      PROVE  AllRising(out', posts')
  BY <1>5 DEF Upgrade
<1>6. CASE UNCHANGED vars
  BY <1>6 DEF vars
<1> QED BY <1>2, <1>3, <1>4, <1>5, <1>6 DEF Next

\* What was posted rises for ever, so what was written does, in every session.
LEMMA RisingIsSameOrder == IInv /\ AllRising(out, posts) => SameOrder
<1> SUFFICES ASSUME IInv, AllRising(out, posts) PROVE SameOrder
  OBVIOUS
<1>1. ASSUME NEW s \in Sessions, NEW i \in DOMAIN out[s].delivered
      PROVE  /\ i \in Nat /\ out[s].delivered[i] \in Nat
             /\ i \in DOMAIN out[s].posted /\ out[s].posted[i] = out[s].delivered[i]
  <2> DEFINE d == out[s].delivered
             q == out[s].que
  <2>1. d \in Seq(Messages) /\ q \in Seq(Messages) /\ out[s].posted = d \o q
    BY DEF IInv, TypeOK, Outbox, Fifo
  <2> HIDE DEF d, q
  <2>2. i \in 1..Len(d)
    BY <1>1, <2>1, LenProperties DEF d
  <2>3. /\ out[s].posted \in Seq(Messages) /\ Len(out[s].posted) = Len(d) + Len(q)
        /\ Len(d) \in Nat /\ Len(q) \in Nat
    BY <2>1, ConcatProperties, LenProperties
  <2>4. out[s].posted[i] = d[i] /\ i \in 1..Len(out[s].posted)
    BY <2>1, <2>2, <2>3, ConcatProperties
  <2>5. d[i] \in Messages
    BY <2>1, <2>2, ElementOfSeq
  <2> QED BY <2>2, <2>3, <2>4, <2>5, LenProperties DEF d, Messages
<1>2. ASSUME NEW s \in Sessions, NEW i \in DOMAIN out[s].delivered,
             NEW j \in DOMAIN out[s].delivered
      PROVE  i < j <=> out[s].delivered[i] < out[s].delivered[j]
  <2>1. \A a, b \in DOMAIN out[s].posted : a < b => out[s].posted[a] < out[s].posted[b]
    BY DEF AllRising, Rising
  <2> QED BY <1>1, <2>1
<1> SUFFICES ASSUME NEW s \in Sessions, NEW t \in Sessions,
                    NEW i \in DOMAIN out[s].delivered, NEW j \in DOMAIN out[s].delivered,
                    NEW k \in DOMAIN out[t].delivered, NEW l \in DOMAIN out[t].delivered,
                    out[s].delivered[i] = out[t].delivered[k],
                    out[s].delivered[j] = out[t].delivered[l], i < j
             PROVE  k < l
  BY DEF SameOrder
<1> QED BY <1>1, <1>2

\* Two sessions get the messages they both get in the same order.
THEOREM SameOrderAlways == Spec => []SameOrder
<1>1. Init => AllRising(out, posts)
  BY DEF Init, AllRising, Rising, NoMessages
<1>2. AllRising(out, posts) /\ IInv /\ [Next]_vars => AllRising(out, posts)'
  BY NextRises DEF AllRising, Rising
<1>3. IInv /\ AllRising(out, posts) => SameOrder
  BY RisingIsSameOrder
<1> QED BY <1>1, <1>2, <1>3, Invariance, PTL DEF Spec
=============================================================================
