---------------------------- MODULE ClientProofs ----------------------------
(***************************************************************************)
(* Proofs about Client, for http and https, any number of requests and of  *)
(* calls of connect(), callbacks that queue and throw, with or without     *)
(* _timeout_max: a response reaches the callback of its request unless     *)
(* sessions overlapped, and unless a connect() was cut short every request *)
(* is answered once, in order, and nothing is left pending between calls.  *)
(***************************************************************************)
EXTENDS Client, SequenceTheorems, TLAPS

\* q holds the newest of n requests, in the order queued.
Newest(q, n) == Len(q) <= n /\ \A i \in DOMAIN q : q[i] = n - Len(q) + i

\* Besides Https::async_shutdown a session has one operation pending at most.
OneOperation ==
    \A c \in 1..MaxConnects : \A o1, o2 \in sess[c].ops \ {"shutdown"} : o1 = o2

\* Only calls of connect() have sessions, and unless sessions overlapped only the
\* session of the last call can have anything pending.
LastAlive ==
    /\ \A c \in 1..MaxConnects : c > connects => ~Alive(sess[c])
    /\ ~overlapped => \A c \in 1..MaxConnects : c # connects => ~Alive(sess[c])

Base == TypeOK /\ Newest(que, issued) /\ OneOperation /\ LastAlive

\* RightCallback and CtxIsFront need that no other session is alive, and
\* AnsweredInOrder that the queue holds the newest requests.
IInv ==
    /\ Base
    /\ CtxIsFront /\ RightCallback
    /\ AnsweredInOrder
    /\ QuietBetween
-----------------------------------------------------------------------------
(* The queue. *)

\* The front of the queue is the oldest request in it, and pop_front leaves the rest.
LEMMA FrontOfNewest ==
    ASSUME NEW q \in Seq(Numbers), NEW n \in 0..MaxRequests, Newest(q, n), q # <<>>
    PROVE  /\ Head(q) \in Numbers /\ Head(q) = n - Len(q) + 1
           /\ Popped(q) \in Seq(Numbers) /\ Newest(Popped(q), n)
           /\ Len(Popped(q)) = Len(q) - 1
<1>1. /\ Popped(q) \in Seq(Numbers) /\ Len(Popped(q)) = Len(q) - 1 /\ Len(q) \in Nat \ {0}
      /\ \A i \in 1..Len(Popped(q)) : Popped(q)[i] = q[i + 1]
      /\ Head(q) = q[1] /\ Head(q) \in Numbers
  BY HeadTailProperties, EmptySeq, LenProperties DEF Popped
<1>2. n \in Int /\ DOMAIN q = 1..Len(q) /\ DOMAIN Popped(q) = 1..Len(Popped(q))
  BY <1>1, LenProperties
<1>3. Head(q) = n - Len(q) + 1
  BY <1>1, <1>2 DEF Newest
<1>4. ASSUME NEW i \in DOMAIN Popped(q)
      PROVE  Popped(q)[i] = n - Len(Popped(q)) + i
  <2>1. i \in 1..Len(Popped(q)) /\ i + 1 \in DOMAIN q
    BY <1>1, <1>2
  <2>2. q[i + 1] = n - Len(q) + (i + 1)
    BY <2>1 DEF Newest
  <2> QED BY <1>1, <1>2, <2>1, <2>2
<1> QED BY <1>1, <1>2, <1>3, <1>4 DEF Newest

\* on_http, called k times, adds the next k numbers behind what is queued.
LEMMA QueuedIsNewest ==
    ASSUME NEW q \in Seq(Numbers), issued \in 0..MaxRequests, Newest(q, issued),
           NEW k \in 0..1, Queued(q, k)
    PROVE  /\ que' \in Seq(Numbers) /\ issued' \in 0..MaxRequests
           /\ issued' = issued + k /\ Len(que') = Len(q) + k
           /\ Newest(que', issued')
           /\ q # <<>> => que' # <<>> /\ Head(que') = Head(q)
<1> DEFINE new == [i \in 1..k |-> issued + i]
<1> USE MaxRequestsAssumption
<1>1. issued' = issued + k /\ issued' \in 0..MaxRequests /\ que' = q \o new
  BY DEF Queued
<1>2. new \in Seq(Numbers) /\ Len(new) = k /\ \A i \in 1..k : new[i] = issued + i
  <2>1. new \in [1..k -> Numbers]
    BY <1>1 DEF Numbers
  <2>2. new \in Seq(Numbers)
    BY <2>1, SeqDef, k \in Nat
  <2> QED BY <2>1, <2>2, LenProperties
<1> HIDE DEF new
<1>3. /\ que' \in Seq(Numbers) /\ Len(que') = Len(q) + k
      /\ \A i \in 1..Len(que') : que'[i] = IF i <= Len(q) THEN q[i] ELSE new[i - Len(q)]
  BY <1>1, <1>2, ConcatProperties
<1>4. Len(q) \in Nat /\ DOMAIN q = 1..Len(q) /\ DOMAIN que' = 1..Len(que')
  BY <1>3, LenProperties
<1>5. ASSUME NEW i \in DOMAIN que'
      PROVE  que'[i] = issued' - Len(que') + i
  <2>1. CASE i <= Len(q)
    <3>1. que'[i] = q[i] /\ q[i] = issued - Len(q) + i
      BY <1>3, <1>4, <2>1 DEF Newest
    <3> QED BY <1>1, <1>3, <1>4, <3>1
  <2>2. CASE ~(i <= Len(q))
    <3>1. que'[i] = new[i - Len(q)] /\ i - Len(q) \in 1..k
      BY <1>3, <1>4, <2>2
    <3> QED BY <1>1, <1>2, <1>3, <1>4, <3>1
  <2> QED BY <2>1, <2>2
<1>6. q # <<>> => que' # <<>> /\ Head(que') = Head(q)
  BY <1>3, <1>4, EmptySeq, HeadTailProperties
<1> QED BY <1>1, <1>3, <1>4, <1>5, <1>6 DEF Newest
-----------------------------------------------------------------------------
(* One step of a session. *)

\* What a step must keep of the queue and the callbacks: either no callback ran and
\* what was queued is counted, or the response that was read is given to the front,
\* which is removed unless the callback threw.
NoCall ==
    /\ UNCHANGED calls
    /\ Len(que') - issued' = Len(que) - issued

Called(c) ==
    /\ "read" \in sess[c].ops /\ que # <<>>
    /\ Call(sess[c].ctx)
    /\ cut' \/ Len(que') - issued' = Len(que) - issued - 1

\* The queue after a step, whatever the step was.
QueueOK ==
    /\ que' \in Seq(Numbers) /\ issued' \in 0..MaxRequests /\ Newest(que', issued')
    /\ serialized' \in [Numbers -> Nat] /\ completed' \in Nat

\* s may follow sess[c].
SessionOK(c, s) ==
    /\ s \in Session
    /\ \A o1, o2 \in s.ops \ {"shutdown"} : o1 = o2
    /\ s.ops \cap {"write", "read"} # {} /\ ~overlapped => que' # <<>> /\ s.ctx = Head(que')

\* Whatever session c does, if it was alive, keeps the invariant as long as it leaves
\* the other sessions alone.
LEMMA SessionStep ==
    ASSUME IInv, NEW c \in 1..MaxConnects, Alive(sess[c]),
           NEW s, SessionOK(c, s), QueueOK, NoCall \/ Called(c),
           sess' = [sess EXCEPT ![c] = s],
           UNCHANGED <<ssl, connects, overlapped, sizeBegin, returned>>,
           \/ UNCHANGED runVars
           \/ running' = FALSE /\ cut' = TRUE /\ stopped' \in BOOLEAN
    PROVE  IInv'
<1>1. /\ Base /\ CtxIsFront /\ RightCallback /\ AnsweredInOrder /\ QuietBetween /\ TypeOK
      /\ OneOperation /\ LastAlive /\ Newest(que, issued)
  BY DEF IInv, Base
<1>2. /\ sess \in [1..MaxConnects -> Session] /\ sess' \in [1..MaxConnects -> Session]
      /\ sess'[c] = s /\ \A d \in 1..MaxConnects : d # c => sess'[d] = sess[d]
  BY <1>1 DEF TypeOK, SessionOK
<1>3. calls' \in Seq([response : 0..MaxRequests, callback : Numbers])
  <2>1. CASE NoCall
    BY <1>1, <2>1 DEF NoCall, TypeOK
  <2>2. CASE Called(c)
    <3>1. sess[c].ctx \in 0..MaxRequests /\ Head(que) \in Numbers
      BY <1>1, <1>2, <2>2, FrontOfNewest DEF Session, TypeOK, Called
    <3> QED BY <1>1, <2>2, <3>1, AppendProperties DEF Called, Call, TypeOK
  <2> QED BY <2>1, <2>2
<1>4. TypeOK'
  BY <1>1, <1>2, <1>3 DEF TypeOK, QueueOK, runVars
<1>5. OneOperation'
  BY <1>1, <1>2 DEF OneOperation, SessionOK
<1>6. LastAlive'
  BY <1>1, <1>2 DEF LastAlive
<1>7. CtxIsFront'
  <2> SUFFICES ASSUME ~overlapped, NEW d \in 1..MaxConnects,
                      sess'[d].ops \cap {"write", "read"} # {}
               PROVE  que' # <<>> /\ sess'[d].ctx = Head(que')
    BY DEF CtxIsFront
  <2>1. d = c
    BY <1>1, <1>2 DEF LastAlive, Alive
  <2> QED BY <1>2, <2>1 DEF SessionOK
<1>8. ASSUME Called(c)
      PROVE  /\ Len(calls') = Len(calls) + 1
             /\ \A i \in 1..Len(calls) : calls'[i] = calls[i]
             /\ calls'[Len(calls) + 1] = [response |-> sess[c].ctx, callback |-> Head(que)]
             /\ DOMAIN calls = 1..Len(calls) /\ DOMAIN calls' = 1..Len(calls')
             /\ Len(calls) \in Nat
  <2>1. sess[c].ctx \in 0..MaxRequests /\ Head(que) \in Numbers
    BY <1>1, <1>2, <1>8, FrontOfNewest DEF Session, TypeOK, Called
  <2>2. [response |-> sess[c].ctx, callback |-> Head(que)]
            \in [response : 0..MaxRequests, callback : Numbers]
    BY <2>1
  <2>3. calls \in Seq([response : 0..MaxRequests, callback : Numbers])
    BY <1>1 DEF TypeOK
  <2>4. DOMAIN calls = 1..Len(calls) /\ Len(calls) \in Nat
    BY <2>3, LenProperties
  <2>5. DOMAIN calls' = 1..Len(calls')
    BY <1>3, LenProperties
  <2> QED BY <1>8, <2>2, <2>3, <2>4, <2>5, AppendProperties DEF Called, Call
<1>9. RightCallback'
  <2> SUFFICES ASSUME ~overlapped, NEW i \in DOMAIN calls'
               PROVE  calls'[i].response = calls'[i].callback
    BY DEF RightCallback
  <2>1. CASE NoCall
    BY <1>1, <2>1 DEF NoCall, RightCallback
  <2>2. CASE Called(c)
    <3>1. sess[c].ctx = Head(que)
      BY <1>1, <2>2 DEF Called, CtxIsFront
    <3>2. i \in 1..Len(calls) \/ i = Len(calls) + 1
      BY <1>8, <2>2
    <3> QED BY <1>1, <1>8, <2>2, <3>1, <3>2 DEF RightCallback
  <2> QED BY <2>1, <2>2
<1>10. AnsweredInOrder'
  <2> SUFFICES ASSUME ~cut'
               PROVE  /\ \A i \in DOMAIN calls' : calls'[i].callback = i
                      /\ Len(calls') + Len(que') = issued'
    BY DEF AnsweredInOrder
  <2>1. /\ ~cut /\ \A i \in DOMAIN calls : calls[i].callback = i
        /\ Len(calls) + Len(que) = issued
    BY <1>1 DEF AnsweredInOrder, runVars
  <2>2. Len(que) \in Nat /\ Len(que') \in Nat /\ Len(calls) \in Nat /\ issued \in Nat /\ issued' \in Nat
    BY <1>1, LenProperties DEF TypeOK, QueueOK
  <2>3. CASE NoCall
    BY <2>1, <2>2, <2>3 DEF NoCall
  <2>4. CASE Called(c)
    <3>1. Head(que) = Len(calls) + 1
      BY <1>1, <2>1, <2>2, <2>4, FrontOfNewest DEF Called, TypeOK
    <3>2. \A i \in DOMAIN calls' : i \in 1..Len(calls) \/ i = Len(calls) + 1
      BY <1>8, <2>4
    <3>3. \A i \in DOMAIN calls' : calls'[i].callback = i
      BY <1>8, <2>1, <2>4, <3>1, <3>2
    <3>4. Len(que') - issued' = Len(que) - issued - 1 /\ Len(calls') = Len(calls) + 1
      BY <1>8, <2>4 DEF Called
    <3> QED BY <2>1, <2>2, <3>3, <3>4
  <2> QED BY <2>3, <2>4
<1>11. QuietBetween'
  BY <1>1 DEF QuietBetween, Quiet, runVars
<1> QED BY <1>4, <1>5, <1>6, <1>7, <1>9, <1>10, <1>11 DEF IInv, Base, QueueOK
\* The timer operations keep a timer a timer.
LEMMA TimerTypes ==
    ASSUME NEW t \in Timers
    PROVE  /\ \A e \in Expiries : ExpiresAt(t, e) \in Timers
           /\ AsyncWait(t) \in Timers /\ Elapsed(t) \in Timers /\ HandlerTaken(t) \in Timers
  BY DEF Timers, Expiries, Waits, ExpiresAt, AsyncWait, Elapsed, HandlerTaken

\* do_close adds a shutdown at most.
LEMMA DoCloseSession ==
    ASSUME NEW s \in Session
    PROVE  /\ DoClose(s) \in Session /\ DoClose(s).ctx = s.ctx
           /\ DoClose(s).ops \in {s.ops, s.ops \cup {"shutdown"}}
  BY DEF DoClose, Session, Ops

\* A handler that fails ends its operation and touches only the timer besides.
LEMMA FailedSession ==
    ASSUME NEW s \in Session, NEW op
    PROVE  /\ Failed(s, op) \in Session /\ Failed(s, op).ctx = s.ctx
           /\ Failed(s, op).ops = s.ops \ {op}
<1>1. ExpiresAt(s.timer, "min") \in Timers
  BY TimerTypes DEF Session, Expiries
<1> QED BY <1>1 DEF Failed, Session, Ops

\* What is known of a session before a step.
LEMMA SessionBefore ==
    ASSUME IInv, NEW c \in 1..MaxConnects
    PROVE  /\ sess[c] \in Session /\ sess[c].ops \subseteq Ops
           /\ \A o1, o2 \in sess[c].ops \ {"shutdown"} : o1 = o2
           /\ ~overlapped /\ sess[c].ops \cap {"write", "read"} # {} =>
                que # <<>> /\ sess[c].ctx = Head(que)
  BY DEF IInv, Base, TypeOK, OneOperation, CtxIsFront, Session

\* A session that does less of what it did, or closes, on the same request, while the
\* front of the queue stays.
LEMMA SameRequest ==
    ASSUME IInv, NEW c \in 1..MaxConnects, NEW s \in Session,
           s.ops \subseteq sess[c].ops \cup {"shutdown"}, s.ctx = sess[c].ctx,
           que # <<>> => que' # <<>> /\ Head(que') = Head(que)
    PROVE  SessionOK(c, s)
  BY SessionBefore DEF SessionOK

\* A step that leaves the queue alone.
LEMMA QueueUnchanged ==
    ASSUME IInv, UNCHANGED queueVars, UNCHANGED completed
    PROVE  QueueOK /\ que' = que /\ (UNCHANGED calls => NoCall)
  BY DEF IInv, Base, TypeOK, QueueOK, queueVars, NoCall

\* A step that queues behind what is there.
LEMMA QueueGrows ==
    ASSUME IInv, NEW k \in 0..1, Queued(que, k), UNCHANGED <<serialized, completed>>
    PROVE  /\ QueueOK
           /\ que # <<>> => que' # <<>> /\ Head(que') = Head(que)
           /\ UNCHANGED calls => NoCall
           /\ Len(que') - issued' = Len(que) - issued
<1>1. /\ que \in Seq(Numbers) /\ issued \in 0..MaxRequests /\ Newest(que, issued)
      /\ serialized \in [Numbers -> Nat] /\ completed \in Nat
  BY DEF IInv, Base, TypeOK
<1>2. /\ que' \in Seq(Numbers) /\ issued' \in 0..MaxRequests /\ Newest(que', issued')
      /\ issued' = issued + k /\ Len(que') = Len(que) + k
      /\ que # <<>> => que' # <<>> /\ Head(que') = Head(que)
  BY <1>1, QueuedIsNewest
<1>3. Len(que') - issued' = Len(que) - issued
  BY <1>1, <1>2, LenProperties
<1> QED BY <1>1, <1>2, <1>3 DEF QueueOK, NoCall

\* How a handler may leave run(), stated as in SessionStep.
LEMMA ReturnRuns ==
    ASSUME NEW c, NEW s, NEW throws, Return(c, s, throws)
    PROVE  /\ sess' = [sess EXCEPT ![c] = s]
           /\ \/ UNCHANGED runVars
              \/ running' = FALSE /\ cut' = TRUE /\ stopped' \in BOOLEAN
  BY DEF Return, Quiet, runVars
-----------------------------------------------------------------------------
(* The handlers. *)

\* A deadline that passes changes the timer only.
LEMMA ElapseInv ==
    ASSUME IInv, NEW c \in 1..MaxConnects, Elapse(c)
    PROVE  IInv'
<1> DEFINE s == [sess[c] EXCEPT !.timer = Elapsed(@)]
<1>1. sess' = [sess EXCEPT ![c] = s] /\ Alive(sess[c])
  BY DEF Elapse, Alive
<1>2. s \in Session /\ s.ops = sess[c].ops /\ s.ctx = sess[c].ctx
  BY SessionBefore, TimerTypes DEF Session
<1>3. QueueOK /\ NoCall /\ que' = que
  BY QueueUnchanged DEF Elapse, callVars
<1>4. SessionOK(c, s)
  BY <1>2, <1>3, SameRequest
<1> HIDE DEF s
<1> QED BY <1>1, <1>3, <1>4, SessionStep DEF Elapse, callVars

\* on_timer may close the socket; the queue and the request stay.
LEMMA OnTimerInv ==
    ASSUME IInv, NEW c \in 1..MaxConnects, OnTimer(c)
    PROVE  IInv'
<1> DEFINE t == [sess[c] EXCEPT !.timer = HandlerTaken(@)]
           s == IF t.timer.expiry # "min" /\ HasExpired(t.timer) THEN DoClose(t) ELSE t
<1>1. sess' = [sess EXCEPT ![c] = s] /\ Alive(sess[c])
  BY DEF OnTimer, Alive
<1>2. t \in Session /\ t.ops = sess[c].ops /\ t.ctx = sess[c].ctx
  BY SessionBefore, TimerTypes DEF Session
<1>3. s \in Session /\ s.ops \subseteq sess[c].ops \cup {"shutdown"} /\ s.ctx = sess[c].ctx
  <2> HIDE DEF t
  <2> QED BY <1>2, DoCloseSession
<1>4. QueueOK /\ NoCall /\ que' = que
  BY QueueUnchanged DEF OnTimer, callVars
<1> HIDE DEF s
<1>5. SessionOK(c, s)
  BY <1>3, <1>4, SameRequest
<1> QED BY <1>1, <1>4, <1>5, SessionStep DEF OnTimer, callVars

\* A failed step (on_resolve, on_connect, on_handshake, on_write, on_read) ends the session.
LEMMA OnFailInv ==
    ASSUME IInv, NEW c \in 1..MaxConnects, OnFail(c)
    PROVE  IInv'
<1>1. PICK op \in Ops \ {"shutdown"} :
            Completes(c, op) /\ OnHttpError(c, Failed(sess[c], op), que)
  BY DEF OnFail
<1> DEFINE s == Failed(sess[c], op)
<1>2. PICK k \in 0..1, throws \in Throwing : Queued(que, k) /\ Return(c, s, throws)
  BY <1>1 DEF OnHttpError
<1>3. s \in Session /\ s.ctx = sess[c].ctx /\ s.ops \subseteq sess[c].ops
  BY SessionBefore, FailedSession
<1> HIDE DEF s
<1>4. QueueOK /\ NoCall /\ (que # <<>> => que' # <<>> /\ Head(que') = Head(que))
  BY <1>2, QueueGrows DEF OnFail, callVars
<1>5. SessionOK(c, s)
  BY <1>3, <1>4, SameRequest
<1>6. Alive(sess[c])
  BY <1>1 DEF Completes, Alive
<1> QED BY <1>2, <1>4, <1>5, <1>6, ReturnRuns, SessionStep DEF OnFail, callVars

\* A step that succeeded posts the next one.
LEMMA OnStepInv ==
    ASSUME IInv, NEW c \in 1..MaxConnects, OnStep(c)
    PROVE  IInv'
<1>1. PICK o1 \in Ops, o2 \in Ops :
            /\ Completes(c, o1)
            /\ o2 \in {"write", "read"} => o1 \in {"write", "read"}
            /\ o1 # "shutdown"
            /\ sess' = [sess EXCEPT ![c].ops = (@ \ {o1}) \cup {o2}]
  <2>1. PICK step \in {<<"resolve", "connect">>, <<"write", "read">>, <<"connect", "handshake">>} :
            /\ Completes(c, step[1])
            /\ sess' = [sess EXCEPT ![c].ops = (@ \ {step[1]}) \cup {step[2]}]
    BY DEF OnStep
  <2>2. /\ step[1] \in Ops /\ step[2] \in Ops /\ step[1] # "shutdown"
        /\ step[2] \in {"write", "read"} => step[1] \in {"write", "read"}
    BY <2>1 DEF Ops
  <2> QED BY <2>1, <2>2
<1> DEFINE s == [sess[c] EXCEPT !.ops = (@ \ {o1}) \cup {o2}]
<1>2. sess' = [sess EXCEPT ![c] = s] /\ Alive(sess[c]) /\ o1 \in sess[c].ops
  BY <1>1 DEF Completes, Alive
<1>3. QueueOK /\ NoCall /\ que' = que
  BY QueueUnchanged DEF OnStep, callVars
<1>4. SessionOK(c, s)
  <2>1. s \in Session /\ s.ctx = sess[c].ctx /\ s.ops = (sess[c].ops \ {o1}) \cup {o2}
    BY SessionBefore DEF Session
  <2> HIDE DEF s
  <2>2. \A a, b \in s.ops \ {"shutdown"} : a = b
    BY <1>1, <1>2, <2>1, SessionBefore
  <2>3. s.ops \cap {"write", "read"} # {} => sess[c].ops \cap {"write", "read"} # {}
    BY <1>1, <1>2, <2>1
  <2> QED BY <1>3, <2>1, <2>2, <2>3, SessionBefore DEF SessionOK
<1> HIDE DEF s
<1> QED BY <1>2, <1>3, <1>4, SessionStep DEF OnStep, callVars

\* on_shutdown of the secure session lets its last operation go.
LEMMA OnShutdownInv ==
    ASSUME IInv, NEW c \in 1..MaxConnects, OnShutdown(c)
    PROVE  IInv'
<1> DEFINE s == Failed(sess[c], "shutdown")
<1>1. sess' = [sess EXCEPT ![c] = s] /\ Alive(sess[c])
  BY DEF OnShutdown, Alive, Completes
<1>2. s \in Session /\ s.ctx = sess[c].ctx /\ s.ops \subseteq sess[c].ops
  BY SessionBefore, FailedSession
<1> HIDE DEF s
<1>3. QueueOK /\ NoCall /\ que' = que
  BY QueueUnchanged DEF OnShutdown, callVars
<1>4. SessionOK(c, s)
  BY <1>2, <1>3, SameRequest
<1> QED BY <1>1, <1>3, <1>4, SessionStep DEF OnShutdown, callVars
\* DoWrite begins to write the front of the queue after the step.
LEMMA WrittenSession ==
    ASSUME NEW s \in Session, s.ops \subseteq {"shutdown"}, NEW q \in Seq(Numbers), q # <<>>
    PROVE  /\ DoWrite(s, q) \in Session
           /\ \A o1, o2 \in DoWrite(s, q).ops \ {"shutdown"} : o1 = o2
           /\ DoWrite(s, q).ctx = Head(q)
<1>1. ExpiresAt(s.timer, "later") \in Timers
  BY TimerTypes DEF Session, Expiries
<1>2. Head(q) \in 0..MaxRequests
  <2>1. Head(q) \in Numbers
    BY HeadTailProperties
  <2> QED BY <2>1, MaxRequestsAssumption DEF Numbers
<1>3. DoWrite(s, q) \in Session
  BY <1>1, <1>2 DEF DoWrite, Session, Ops
<1> QED BY <1>3 DEF DoWrite, Session

\* prepare_request of the front counts one more serialization.
LEMMA PreparedCounts ==
    ASSUME serialized \in [Numbers -> Nat], NEW q \in Seq(Numbers), q # <<>>, Prepared(q)
    PROVE  serialized' \in [Numbers -> Nat]
<1>1. Head(q) \in Numbers
  BY HeadTailProperties
<1> QED BY <1>1 DEF Prepared

\* on_connect or on_handshake writes the front of the queue.
LEMMA OnConnectedInv ==
    ASSUME IInv, NEW c \in 1..MaxConnects, OnConnected(c)
    PROVE  IInv'
<1> DEFINE op == IF ssl THEN "handshake" ELSE "connect"
           b == [sess[c] EXCEPT !.ops = @ \ {op}, !.close = FALSE]
           s == DoWrite(b, que)
<1>1. /\ sess' = [sess EXCEPT ![c] = s] /\ op \in sess[c].ops /\ Alive(sess[c])
      /\ que # <<>> /\ Prepared(que) /\ op # "shutdown"
  BY DEF OnConnected, Alive, Completes
<1>2. b \in Session /\ b.ops = sess[c].ops \ {op}
  <2>1. sess[c] \in Session
    BY SessionBefore
  <2>2. PICK o : o = sess[c].ops \ {op} /\ o \in SUBSET Ops
    BY <2>1 DEF Session
  <2>3. b = [sess[c] EXCEPT !.ops = o, !.close = FALSE]
    BY <2>2
  <2> HIDE DEF b, op
  <2> QED BY <2>1, <2>2, <2>3 DEF Session
<1> HIDE DEF b, op
<1>3. b.ops \subseteq {"shutdown"}
  BY <1>1, <1>2, SessionBefore
<1>4. /\ que \in Seq(Numbers) /\ issued \in 0..MaxRequests /\ Newest(que, issued)
      /\ serialized \in [Numbers -> Nat] /\ completed \in Nat /\ issued' = issued /\ que' = que
      /\ UNCHANGED <<calls, completed>>
  BY DEF IInv, Base, TypeOK, OnConnected, callVars
<1>5. QueueOK /\ NoCall
  BY <1>1, <1>4, PreparedCounts DEF QueueOK, NoCall
<1>6. SessionOK(c, s)
  BY <1>1, <1>2, <1>3, <1>4, WrittenSession DEF SessionOK
<1> HIDE DEF s
<1> QED BY <1>1, <1>5, <1>6, SessionStep DEF OnConnected, callVars

\* A callback of the user that throws leaves the queue with its request at the front.
LEMMA OnReadThrowInv ==
    ASSUME IInv, NEW c \in 1..MaxConnects, OnReadThrow(c)
    PROVE  IInv'
<1> DEFINE s == [sess[c] EXCEPT !.ops = @ \ {"read"}]
<1>1. PICK k \in 0..1 : Queued(que, k)
  BY DEF OnReadThrow
<1>2. /\ Return(c, s, TRUE) /\ "read" \in sess[c].ops /\ Alive(sess[c])
      /\ que # <<>> /\ Call(sess[c].ctx) /\ TRUE \in Throwing
  BY DEF OnReadThrow, Alive, Completes
<1>3. s \in Session /\ s.ops \subseteq sess[c].ops /\ s.ctx = sess[c].ctx
  BY SessionBefore DEF Session
<1> HIDE DEF s
<1>4. QueueOK /\ (que # <<>> => que' # <<>> /\ Head(que') = Head(que))
  BY <1>1, QueueGrows DEF OnReadThrow, callVars
<1>5. SessionOK(c, s)
  BY <1>3, <1>4, SameRequest
<1>6. Called(c)
  BY <1>2 DEF Called, Return
<1> QED BY <1>2, <1>4, <1>5, <1>6, ReturnRuns, SessionStep DEF OnReadThrow, callVars

\* on_read removes the front of the queue; the callback queued k behind it.
LEMMA QueueAdvances ==
    ASSUME IInv, que # <<>>, NEW k \in 0..1, Queued(Popped(que), k)
    PROVE  /\ que' \in Seq(Numbers) /\ issued' \in 0..MaxRequests /\ Newest(que', issued')
           /\ Len(que') - issued' = Len(que) - issued - 1
<1>1. que \in Seq(Numbers) /\ issued \in 0..MaxRequests /\ Newest(que, issued)
  BY DEF IInv, Base, TypeOK
<1>2. /\ Popped(que) \in Seq(Numbers) /\ Newest(Popped(que), issued)
      /\ Len(Popped(que)) = Len(que) - 1
  BY <1>1, FrontOfNewest
<1>3. /\ que' \in Seq(Numbers) /\ issued' \in 0..MaxRequests /\ Newest(que', issued')
      /\ issued' = issued + k /\ Len(que') = Len(Popped(que)) + k
  BY <1>1, <1>2, QueuedIsNewest
<1> QED BY <1>1, <1>2, <1>3, LenProperties

\* The session when its read is over.
LEMMA ReadSession ==
    ASSUME IInv, NEW c \in 1..MaxConnects, "read" \in sess[c].ops
    PROVE  LET s == [sess[c] EXCEPT !.ops = @ \ {"read"}] IN
           s \in Session /\ s.ops \subseteq {"shutdown"} /\ s.ctx = sess[c].ctx
<1>1. \A o \in sess[c].ops : o = "shutdown" \/ o = "read"
  BY SessionBefore
<1> QED BY <1>1, SessionBefore DEF Session

\* After an answer on_read takes the request off and writes the next one.
LEMMA OnReadNextInv ==
    ASSUME IInv, NEW c \in 1..MaxConnects, OnReadNext(c)
    PROVE  IInv'
<1> DEFINE b == [sess[c] EXCEPT !.ops = @ \ {"read"}]
           s == DoWrite(b, que')
<1>1. PICK k \in 0..1 : Queued(Popped(que), k)
  BY DEF OnReadNext
<1>2. /\ sess' = [sess EXCEPT ![c] = s] /\ "read" \in sess[c].ops /\ Alive(sess[c])
      /\ que # <<>> /\ que' # <<>> /\ Call(b.ctx) /\ Prepared(que')
      /\ completed' = completed + 1
  BY DEF OnReadNext, Alive, Completes
<1>3. b \in Session /\ b.ops \subseteq {"shutdown"} /\ b.ctx = sess[c].ctx
  BY <1>2, ReadSession
<1> HIDE DEF b
<1>4. /\ que' \in Seq(Numbers) /\ issued' \in 0..MaxRequests /\ Newest(que', issued')
      /\ Len(que') - issued' = Len(que) - issued - 1
  BY <1>1, <1>2, QueueAdvances
<1>5. serialized' \in [Numbers -> Nat] /\ completed' \in Nat
  <2>1. serialized \in [Numbers -> Nat] /\ completed \in Nat
    BY DEF IInv, Base, TypeOK
  <2> QED BY <1>2, <1>4, <2>1, PreparedCounts
<1>6. QueueOK /\ Called(c)
  BY <1>2, <1>3, <1>4, <1>5 DEF QueueOK, Called
<1>7. SessionOK(c, s)
  BY <1>2, <1>3, <1>4, WrittenSession DEF SessionOK
<1> HIDE DEF s
<1> QED BY <1>2, <1>6, <1>7, SessionStep DEF OnReadNext

\* After the last answer on_read leaves an empty queue and closes.
LEMMA OnReadLastInv ==
    ASSUME IInv, NEW c \in 1..MaxConnects, OnReadLast(c)
    PROVE  IInv'
<1> DEFINE b == [sess[c] EXCEPT !.ops = @ \ {"read"}]
<1>1. /\ "read" \in sess[c].ops /\ Alive(sess[c]) /\ que # <<>> /\ Popped(que) = <<>>
      /\ Call(b.ctx) /\ completed' = completed + 1
      /\ \/ Queued(<<>>, 0) /\ Return(c, DoClose(b), FALSE)
         \/ OnHttpError(c, Failed(b, "read"), <<>>)
  BY DEF OnReadLast, Alive, Completes
<1>2. b \in Session /\ b.ops \subseteq {"shutdown"} /\ b.ctx = sess[c].ctx
  BY <1>1, ReadSession
<1> HIDE DEF b
<1>3. PICK s \in {DoClose(b), Failed(b, "read")}, k \in 0..1, throws \in BOOLEAN :
            /\ Queued(<<>>, k) /\ Return(c, s, throws)
            /\ throws => throws \in Throwing
  <2>1. CASE Queued(<<>>, 0) /\ Return(c, DoClose(b), FALSE)
    <3>1. 0 \in 0..1
      OBVIOUS
    <3> QED BY <2>1, <3>1, Zenon
  <2>2. CASE OnHttpError(c, Failed(b, "read"), <<>>)
    <3>1. PICK k \in 0..1, throws \in Throwing :
                Queued(<<>>, k) /\ Return(c, Failed(b, "read"), throws)
      BY <2>2 DEF OnHttpError
    <3>2. throws \in BOOLEAN
      BY ThrowingAssumption, Zenon
    <3> QED BY <3>1, <3>2, Zenon
  <2> QED BY <1>1, <2>1, <2>2
<1>4. s \in Session /\ s.ops \subseteq {"shutdown"}
  BY <1>2, <1>3, DoCloseSession, FailedSession
<1>5. SessionOK(c, s)
  BY <1>4 DEF SessionOK
<1>6. /\ que' \in Seq(Numbers) /\ issued' \in 0..MaxRequests /\ Newest(que', issued')
      /\ Len(que') - issued' = Len(que) - issued - 1
  BY <1>1, <1>3, QueueAdvances
<1>7. serialized' \in [Numbers -> Nat] /\ completed' \in Nat
  BY <1>1 DEF IInv, Base, TypeOK, OnReadLast
<1>8. QueueOK /\ Called(c)
  BY <1>1, <1>2, <1>6, <1>7 DEF QueueOK, Called
<1> QED BY <1>1, <1>3, <1>5, <1>8, ReturnRuns, SessionStep DEF OnReadLast
-----------------------------------------------------------------------------
(* The caller. *)

\* on_http adds a request at the back.
LEMMA OnHttpInv ==
    ASSUME IInv, OnHttp
    PROVE  IInv'
<1>1. 1 \in 0..1 /\ Queued(que, 1) /\ UNCHANGED <<serialized, completed, calls>>
  BY DEF OnHttp, callVars
<1>2. /\ QueueOK /\ Len(que') - issued' = Len(que) - issued
      /\ que # <<>> => que' # <<>> /\ Head(que') = Head(que)
  BY <1>1, QueueGrows
<1>3. UNCHANGED <<ssl, sess, connects, running, stopped, cut, sizeBegin, returned, calls, overlapped>>
  BY DEF OnHttp, runVars, callVars
<1>4. /\ TypeOK /\ OneOperation /\ LastAlive /\ CtxIsFront /\ RightCallback
      /\ AnsweredInOrder /\ QuietBetween
  BY DEF IInv, Base
<1>5. TypeOK'
  BY <1>2, <1>3, <1>4 DEF TypeOK, QueueOK
<1>6. OneOperation' /\ LastAlive' /\ RightCallback' /\ QuietBetween'
  BY <1>3, <1>4 DEF OneOperation, LastAlive, RightCallback, QuietBetween, Quiet
<1>7. CtxIsFront'
  BY <1>2, <1>3, <1>4 DEF CtxIsFront
<1>8. AnsweredInOrder'
  <2>1. Len(que) \in Nat /\ Len(que') \in Nat /\ Len(calls) \in Nat /\ issued \in Nat /\ issued' \in Nat
    BY <1>2, <1>4, LenProperties DEF TypeOK, QueueOK
  <2> QED BY <1>2, <1>3, <1>4, <2>1 DEF AnsweredInOrder
<1> QED BY <1>2, <1>5, <1>6, <1>7, <1>8 DEF IInv, Base, QueueOK

\* The difference of two sizes is a size.
LEMMA DifferenceIsSize ==
    ASSUME NEW a \in Int, NEW b \in Int
    PROVE  Difference(a, b) \in 0..(SizeModulus - 1)
  BY SizeModulusAssumption, MaxRequestsAssumption DEF Difference

\* A call of connect() that ends changes no queue, no session and no callback.
LEMMA ConnectEnds ==
    ASSUME IInv, running' = FALSE, stopped' \in BOOLEAN, cut' \in BOOLEAN,
           returned' = Difference(sizeBegin, Len(que)),
           UNCHANGED <<ssl, queueVars, sess, connects, sizeBegin, completed, calls, overlapped>>,
           ~cut' => ~cut /\ ~overlapped /\ ~stopped' /\ Quiet(sess)
    PROVE  IInv'
<1>1. /\ TypeOK /\ OneOperation /\ LastAlive /\ CtxIsFront /\ RightCallback
      /\ AnsweredInOrder /\ Newest(que, issued)
  BY DEF IInv, Base
<1>2. returned' \in 0..(SizeModulus - 1)
  BY <1>1, DifferenceIsSize, LenProperties DEF TypeOK
<1>3. TypeOK'
  BY <1>1, <1>2 DEF TypeOK, queueVars
<1>4. OneOperation' /\ LastAlive' /\ CtxIsFront' /\ RightCallback' /\ AnsweredInOrder' /\ QuietBetween'
  BY <1>1 DEF OneOperation, LastAlive, CtxIsFront, RightCallback, AnsweredInOrder,
              QuietBetween, Quiet, queueVars
<1> QED BY <1>1, <1>3, <1>4 DEF IInv, Base, queueVars

\* connect() returns once its io context has no work left.
LEMMA ConnectReturnInv ==
    ASSUME IInv, ConnectReturn
    PROVE  IInv'
<1>1. ~cut' => ~cut /\ ~overlapped /\ ~stopped' /\ Quiet(sess)
  BY DEF ConnectReturn, IInv, QuietBetween, RunEnds
<1>2. stopped' \in BOOLEAN /\ cut' \in BOOLEAN
  BY DEF ConnectReturn, IInv, Base, TypeOK
<1> QED BY <1>1, <1>2, ConnectEnds DEF ConnectReturn

\* connect() gives up when its time is over; the sessions stay as they are.
LEMMA ConnectTimeoutInv ==
    ASSUME IInv, ConnectTimeout
    PROVE  IInv'
<1>1. stopped' \in BOOLEAN /\ cut' = TRUE
  BY DEF ConnectTimeout, IInv, Base, TypeOK
<1> QED BY <1>1, ConnectEnds DEF ConnectTimeout

\* A new session, which has nothing to do with a request yet, takes the place of the
\* next NoSession.  It overlaps with others unless they are quiet.
LEMMA NewSession ==
    ASSUME IInv, connects < MaxConnects, connects' = connects + 1,
           NEW s \in Session, s.ops \subseteq {"resolve"},
           sess' = [sess EXCEPT ![connects + 1] = s],
           overlapped' = (overlapped \/ ~Quiet(sess)),
           QueueOK, NoCall, UNCHANGED <<ssl, stopped, returned>>,
           running' \in BOOLEAN, cut' \in BOOLEAN, sizeBegin' \in 0..MaxRequests,
           ~running, cut => cut', running' \/ cut'
    PROVE  IInv'
<1>1. /\ TypeOK /\ OneOperation /\ LastAlive /\ CtxIsFront /\ RightCallback
      /\ AnsweredInOrder /\ Newest(que, issued) /\ QuietBetween
  BY DEF IInv, Base
<1>2. /\ connects + 1 \in 1..MaxConnects /\ connects \in Nat
      /\ sess' \in [1..MaxConnects -> Session] /\ sess'[connects'] = s
      /\ \A d \in 1..MaxConnects : d # connects' => sess'[d] = sess[d]
  BY <1>1, MaxConnectsAssumption DEF TypeOK
<1>3. TypeOK'
  BY <1>1, <1>2 DEF TypeOK, QueueOK, NoCall
<1>4. OneOperation'
  BY <1>1, <1>2 DEF OneOperation
<1>5. LastAlive'
  <2>1. \A d \in 1..MaxConnects : d > connects' => ~Alive(sess'[d])
    BY <1>1, <1>2 DEF LastAlive
  <2>2. ~overlapped' => \A d \in 1..MaxConnects : d # connects' => ~Alive(sess'[d])
    BY <1>1, <1>2 DEF Quiet
  <2> QED BY <2>1, <2>2 DEF LastAlive
<1>6. CtxIsFront'
  <2> SUFFICES ASSUME ~overlapped', NEW d \in 1..MaxConnects,
                      sess'[d].ops \cap {"write", "read"} # {}
               PROVE  FALSE
    BY DEF CtxIsFront
  <2>1. CASE d = connects'
    BY <1>2, <2>1
  <2>2. CASE d # connects'
    BY <1>2, <2>2 DEF Quiet, Alive
  <2> QED BY <2>1, <2>2
<1>7. RightCallback'
  BY <1>1 DEF RightCallback, NoCall
<1>8. AnsweredInOrder'
  <2>1. Len(que) \in Nat /\ Len(que') \in Nat /\ Len(calls) \in Nat /\ issued \in Nat /\ issued' \in Nat
    BY <1>1, LenProperties DEF TypeOK, QueueOK
  <2> QED BY <1>1, <2>1 DEF AnsweredInOrder, NoCall
<1>9. QuietBetween'
  BY <1>1 DEF QuietBetween
<1> QED BY <1>3, <1>4, <1>5, <1>6, <1>7, <1>8, <1>9 DEF IInv, Base, QueueOK

\* The length of the queue is a size within the bound.
LEMMA QueueLength ==
    ASSUME QueueOK
    PROVE  Len(que') \in 0..MaxRequests
  BY LenProperties, MaxRequestsAssumption DEF QueueOK, Newest

\* NoSession and what becomes of it when its timer and operations are set.
LEMMA IdleSession ==
    /\ NoSession \in Session /\ NoSession.ops = {}
    /\ \A t \in Timers, o \in SUBSET Ops, b \in BOOLEAN :
        LET s == [NoSession EXCEPT !.timer = t, !.ops = o, !.close = b]
            r == [NoSession EXCEPT !.timer = t, !.close = b]
        IN  /\ s \in Session /\ s.ops = o
            /\ r \in Session /\ r.ops = {}
<1>1. NoSession \in Session /\ NoSession.ops = {}
  BY MaxRequestsAssumption DEF NoSession, Session, NewTimer, Timers, Expiries, Waits
<1> QED BY <1>1 DEF Session

\* connect() starts a session and its timer.
LEMMA ConnectInv ==
    ASSUME IInv, Connect
    PROVE  IInv'
<1> DEFINE s == [NoSession EXCEPT !.timer = ExpiresAt(AsyncWait(@), "later"),
                                  !.ops = {"resolve"}, !.close = ssl]
<1>1. UNCHANGED <<que, issued, serialized, calls>> /\ completed' = 0
  BY DEF Connect, queueVars
<1>2. QueueOK /\ NoCall
  BY <1>1 DEF IInv, Base, TypeOK, QueueOK, NoCall
<1>3. sizeBegin' \in 0..MaxRequests
  <2>1. Len(que') \in 0..MaxRequests
    BY <1>2, QueueLength
  <2> QED BY <1>1, <2>1 DEF Connect
<1>4. ssl \in BOOLEAN /\ cut \in BOOLEAN
  BY DEF IInv, Base, TypeOK
<1>5. s \in Session /\ s.ops = {"resolve"}
  <2>1. ExpiresAt(AsyncWait(NewTimer), "later") \in Timers
    BY DEF NewTimer, ExpiresAt, AsyncWait, Timers, Expiries, Waits
  <2>2. {"resolve"} \in SUBSET Ops
    BY DEF Ops
  <2>3. NoSession.timer = NewTimer
    BY DEF NoSession
  <2> QED BY <1>4, <2>1, <2>2, <2>3, IdleSession
<1>6. /\ sess' = [sess EXCEPT ![connects + 1] = s] /\ connects' = connects + 1
      /\ connects < MaxConnects /\ overlapped' = (overlapped \/ ~Quiet(sess))
      /\ running' = TRUE /\ ~running /\ UNCHANGED <<ssl, stopped, returned, cut>>
  BY DEF Connect
<1> HIDE DEF s
<1> QED BY <1>2, <1>3, <1>4, <1>5, <1>6, NewSession

\* connect() that cannot set the name of the server: on_http_error at once.
LEMMA ConnectNoNameInv ==
    ASSUME IInv, ConnectNoName
    PROVE  IInv'
<1> DEFINE s == [NoSession EXCEPT !.timer = ExpiresAt(AsyncWait(@), "min"), !.close = TRUE]
<1>1. /\ sess' = [sess EXCEPT ![connects + 1] = s] /\ connects' = connects + 1
      /\ connects < MaxConnects /\ overlapped' = (overlapped \/ ~Quiet(sess))
      /\ ~running /\ UNCHANGED <<ssl, stopped, returned, serialized, calls>> /\ completed' = 0
  BY DEF ConnectNoName
<1>2. PICK k \in 0..1, throws \in Throwing :
            /\ Queued(que, k)
            /\ running' = ~throws /\ cut' = (cut \/ throws)
            /\ sizeBegin' = IF throws THEN sizeBegin ELSE Len(que')
  BY DEF ConnectNoName
<1>3. throws \in BOOLEAN
  BY ThrowingAssumption
<1>4. /\ que \in Seq(Numbers) /\ issued \in 0..MaxRequests /\ Newest(que, issued)
      /\ serialized \in [Numbers -> Nat] /\ sizeBegin \in 0..MaxRequests /\ cut \in BOOLEAN
  BY DEF IInv, Base, TypeOK
<1>5. /\ que' \in Seq(Numbers) /\ issued' \in 0..MaxRequests /\ Newest(que', issued')
      /\ Len(que') - issued' = Len(que) - issued
  BY <1>2, <1>4, QueuedIsNewest, LenProperties
<1>6. QueueOK /\ NoCall
  BY <1>1, <1>4, <1>5 DEF QueueOK, NoCall
<1>7. sizeBegin' \in 0..MaxRequests
  BY <1>2, <1>4, <1>6, QueueLength
<1>8. running' \in BOOLEAN /\ cut' \in BOOLEAN /\ (cut => cut') /\ (running' \/ cut')
  BY <1>2, <1>3, <1>4
<1>9. s \in Session /\ s.ops = {}
  <2>1. ExpiresAt(AsyncWait(NewTimer), "min") \in Timers
    BY DEF NewTimer, ExpiresAt, AsyncWait, Timers, Expiries, Waits
  <2>2. NoSession.timer = NewTimer
    BY DEF NoSession
  <2> QED BY <2>1, <2>2, IdleSession
<1> HIDE DEF s
<1> QED BY <1>1, <1>6, <1>7, <1>8, <1>9, NewSession
-----------------------------------------------------------------------------
\* Nothing was called yet: the invariant holds.
LEMMA InitInv ==
    ASSUME Init
    PROVE  IInv
<1>1. NoSession \in Session /\ ~Alive(NoSession) /\ NoSession.ops = {}
  BY IdleSession DEF NoSession, NewTimer, Alive
<1>2. TypeOK
  <2>1. ssl \in BOOLEAN
    BY SslAssumption, Zenon DEF Init
  <2>2. 0 \in 0..MaxRequests /\ 0 \in 0..MaxConnects /\ 0 \in 0..(SizeModulus - 1) /\ 0 \in Nat
    BY MaxRequestsAssumption, MaxConnectsAssumption, SizeModulusAssumption
  <2>3. que \in Seq(Numbers) /\ calls \in Seq([response : 0..MaxRequests, callback : Numbers])
    BY EmptySeq DEF Init
  <2> QED BY <1>1, <2>1, <2>2, <2>3 DEF Init, TypeOK
<1>3. Newest(que, issued) /\ OneOperation /\ LastAlive
  BY <1>1 DEF Init, Newest, OneOperation, LastAlive
<1>4. CtxIsFront /\ RightCallback /\ AnsweredInOrder /\ QuietBetween
  BY <1>1 DEF Init, CtxIsFront, RightCallback, AnsweredInOrder, QuietBetween, Quiet
<1> QED BY <1>2, <1>3, <1>4 DEF IInv, Base

\* A step that changes nothing keeps the invariant.
LEMMA StutterInv ==
    ASSUME IInv, UNCHANGED vars
    PROVE  IInv'
  BY DEF IInv, Base, TypeOK, Newest, OneOperation, LastAlive, CtxIsFront, RightCallback,
         AnsweredInOrder, QuietBetween, Quiet, Numbers, vars, queueVars, runVars, callVars

\* IInv is kept by every step: of the caller, of the clock and of every handler.
THEOREM Inductive == Spec => []IInv
<1>1. Init => IInv
  BY InitInv
<1>2. IInv /\ [Next]_vars => IInv'
  <2> SUFFICES ASSUME IInv, [Next]_vars PROVE IInv'
    OBVIOUS
  <2>1. CASE OnHttp
    BY <2>1, OnHttpInv
  <2>2. CASE Connect
    BY <2>2, ConnectInv
  <2>3. CASE ConnectNoName
    BY <2>3, ConnectNoNameInv
  <2>4. CASE ConnectReturn
    BY <2>4, ConnectReturnInv
  <2>5. CASE ConnectTimeout
    BY <2>5, ConnectTimeoutInv
  <2>6. ASSUME NEW c \in 1..MaxConnects, Elapse(c) \/ OnTimer(c)
        PROVE  IInv'
    BY <2>6, ElapseInv, OnTimerInv
  <2>7. ASSUME NEW c \in 1..MaxConnects, OnOperation(c)
        PROVE  IInv'
    BY <2>7, OnFailInv, OnStepInv, OnConnectedInv, OnReadThrowInv, OnReadNextInv,
       OnReadLastInv, OnShutdownInv DEF OnOperation
  <2>8. CASE UNCHANGED vars
    BY <2>8, StutterInv
  <2> QED BY <2>1, <2>2, <2>3, <2>4, <2>5, <2>6, <2>7, <2>8 DEF Next
<1> QED BY <1>1, <1>2, PTL DEF Spec

\* Every variable of the client and every pending operation keeps its kind; what
\* connect() returns is a size_t.
THEOREM ClientTypeOK == Spec => []TypeOK
<1>1. IInv => TypeOK
  BY DEF IInv, Base
<1> QED BY <1>1, Inductive, PTL

\* While a request is written or its response read, it is the front of the queue:
\* _ctx.req does not dangle, whatever the callbacks queue and on_read removes.
THEOREM RequestIsFront == Spec => []CtxIsFront
<1>1. IInv => CtxIsFront
  BY DEF IInv
<1> QED BY <1>1, Inductive, PTL

\* on_read runs the callback of the request that was answered, unless two sessions
\* shared the queue.
THEOREM ResponseReachesItsCallback == Spec => []RightCallback
<1>1. IInv => RightCallback
  BY DEF IInv
<1> QED BY <1>1, Inductive, PTL

\* Until a connect() is cut short every request is answered once, in the order of
\* the calls of on_http, and none is lost between two calls of connect().
THEOREM RequestsAnsweredInOrder == Spec => []AnsweredInOrder
<1>1. IInv => AnsweredInOrder
  BY DEF IInv
<1> QED BY <1>1, Inductive, PTL

\* connect() leaves nothing pending and the io_context ready, unless it was cut short:
\* only after an exception or _timeout_max can sessions overlap.
THEOREM NothingPendingBetween == Spec => []QuietBetween
<1>1. IInv => QuietBetween
  BY DEF IInv
<1> QED BY <1>1, Inductive, PTL
=============================================================================
