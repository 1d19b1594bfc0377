---------------------- MODULE WebhookDispatcher_proofs ----------------------
(***************************************************************************)
(* Proofs about WebhookDispatcher for every list of endpoints, filter,     *)
(* queue size, number of retries and number of callers of Stop.            *)
(***************************************************************************)
EXTENDS WebhookDispatcher, TLAPS

USE DispatcherAssumption DEF Endpoints, Numbers

\* The initial state satisfies the inductive invariant.
LEMMA InitIInv == Init => IInv
<1> SUFFICES ASSUME Init PROVE IInv
  OBVIOUS
<1> USE DEF Init
<1>1. TypeOK
  BY DEF TypeOK
<1>2. RoomInv /\ QueueInv /\ StopInv
  BY DEF RoomInv, QueueInv, StopInv
<1>3. PostInv /\ DeliveredOrExhausted
  BY DEF PostInv, DeliveredOrExhausted, Through
<1> QED
  BY <1>1, <1>2, <1>3 DEF IInv

\* A step that touches neither queue, worker nor history.
LEMMA CallerStep ==
  ASSUME IInv, UNCHANGED <<queue, worker, history>>,
         epc' \in {"idle", "send"}, etype' \in Types,
         closed' \in {"no", "yes"}, quit' \in {"open", "closed"},
         once' \in {"new", "running", "done"},
         spc' \in [Stoppers -> {"idle", "close", "wait", "returned"}],
         RoomInv', StopInv'
  PROVE  IInv'
<1> USE DEF worker, history
<1>1. TypeOK'
  BY DEF IInv, TypeOK
<1>2. QueueInv' /\ PostInv' /\ DeliveredOrExhausted'
  BY DEF IInv, QueueInv, PostInv, Deliverable, DeliveredOrExhausted, Through
<1> QED
  BY <1>1, <1>2 DEF IInv

\* Emit's check.
LEMMA EmitCheckStep ==
  ASSUME IInv, NEW type \in Types, EmitCheck(type)
  PROVE  IInv'
<1> USE DEF EmitCheck, stop
<1>1. RoomInv' /\ StopInv' /\ UNCHANGED <<queue, worker, history>>
  BY DEF IInv, RoomInv, StopInv, worker, history
<1> QED
  BY <1>1, CallerStep DEF IInv, TypeOK

\* Stop.
LEMMA StopStep ==
  ASSUME IInv, NEW s \in Stoppers, Stop(s)
  PROVE  IInv'
<1> USE DEF Stop, StopFirst, StopClose, StopLater, StopReturn, emit
<1>1. spc \in [Stoppers -> {"idle", "close", "wait", "returned"}]
  BY DEF IInv, TypeOK
<1>2. spc' \in [Stoppers -> {"idle", "close", "wait", "returned"}]
  BY <1>1
<1>3. RoomInv' /\ UNCHANGED <<queue, worker, history>>
  BY DEF IInv, RoomInv, history
<1>4. StopInv'
  BY <1>1 DEF IInv, StopInv, worker
<1> QED
  BY <1>2, <1>3, <1>4, CallerStep DEF IInv, TypeOK

\* The worker is started.
LEMMA StartStep ==
  ASSUME IInv, Start
  PROVE  IInv'
<1> USE DEF Start, emit, stop, history
<1>1. TypeOK' /\ RoomInv' /\ QueueInv'
  BY DEF IInv, TypeOK, RoomInv, QueueInv
<1>2. PostInv' /\ StopInv'
  BY DEF IInv, TypeOK, PostInv, StopInv
<1>3. DeliveredOrExhausted'
  BY DEF IInv, TypeOK, PostInv, DeliveredOrExhausted, Through
<1> QED
  BY <1>1, <1>2, <1>3 DEF IInv

\* Emit's send.
LEMMA EmitSendStep ==
  ASSUME IInv, EmitSend
  PROVE  IInv'
<1> USE DEF EmitSend, stop, worker
<1>1. CASE UNCHANGED <<queue, kind>>
  <2>1. RoomInv' /\ StopInv' /\ UNCHANGED <<queue, worker, history>>
    BY <1>1 DEF IInv, RoomInv, StopInv, history
  <2> QED
    BY <2>1, CallerStep DEF IInv, TypeOK
<1>2. CASE /\ Len(queue) < QueueSize
           /\ queue' = Append(queue, Len(kind) + 1)
           /\ kind' = Append(kind, etype)
  <2>1. /\ kind \in Seq(Types) /\ queue \in Seq(Numbers) /\ etype \in Types
        /\ Len(kind) \in Nat /\ Len(queue) \in Nat /\ current \in Nat
        /\ Len(kind) + 1 \in Numbers
    BY DEF IInv, TypeOK, RoomInv
  <2>2. /\ queue' \in Seq(Numbers) /\ Len(queue') = Len(queue) + 1
        /\ \A i \in 1..Len(queue) : queue'[i] = queue[i]
        /\ queue'[Len(queue) + 1] = Len(kind) + 1
    BY <1>2, <2>1
  <2>3. /\ kind' \in Seq(Types) /\ Len(kind') = Len(kind) + 1
        /\ \A i \in 1..Len(kind) : kind'[i] = kind[i]
    BY <1>2, <2>1
  <2>4. TypeOK'
    BY <1>2, <2>1, <2>2, <2>3 DEF IInv, TypeOK
  <2>5. RoomInv' /\ StopInv'
    BY DEF IInv, RoomInv, StopInv
  <2>6. QueueInv'
    <3>1. Len(kind') = current' + Len(queue')
      BY <2>1, <2>2, <2>3 DEF IInv, QueueInv
    <3>2. ASSUME NEW i \in 1..Len(queue') PROVE queue'[i] = current' + i
      <4>1. CASE i = Len(queue) + 1
        BY <2>1, <2>2, <4>1 DEF IInv, QueueInv
      <4>2. CASE i # Len(queue) + 1
        <5>1. i \in 1..Len(queue)
          BY <2>1, <2>2, <4>2
        <5> QED
          BY <2>2, <5>1 DEF IInv, QueueInv
      <4> QED
        BY <4>1, <4>2
    <3> QED
      BY <3>1, <3>2 DEF QueueInv
  <2>7. current <= Len(kind)
    BY <2>1 DEF IInv, QueueInv
  <2>8. PostInv'
    <3>1. wpc \in {"dispatch", "deliver"} => kind'[current] = kind[current]
      BY <2>1, <2>3, <2>7 DEF IInv, PostInv
    <3> QED
      BY <3>1 DEF IInv, PostInv, Deliverable
  <2>9. DeliveredOrExhausted'
    <3>1. SUFFICES ASSUME NEW e \in Endpoints \ BadUrls, NEW n \in Numbers,
                          Through(e, n), wants(e, kind'[n])
                   PROVE  <<e, n>> \in acked \/ posts[e][n] = MaxRetries + 1
      BY DEF DeliveredOrExhausted, Through
    <3>2. n <= Len(kind) /\ kind'[n] = kind[n]
      BY <2>1, <2>3, <2>7, <3>1 DEF Through
    <3> QED
      BY <3>1, <3>2 DEF IInv, DeliveredOrExhausted
  <2> QED
    BY <2>4, <2>5, <2>6, <2>8, <2>9 DEF IInv
<1> QED
  BY <1>1, <1>2

\* The worker quits.
LEMMA QuitStep ==
  ASSUME IInv, WorkerQuit
  PROVE  IInv'
<1> USE DEF WorkerQuit, emit, stop, history
<1>1. TypeOK' /\ RoomInv' /\ QueueInv'
  BY DEF IInv, TypeOK, RoomInv, QueueInv
<1>2. PostInv' /\ StopInv'
  BY DEF IInv, TypeOK, PostInv, StopInv
<1>3. DeliveredOrExhausted'
  BY DEF IInv, DeliveredOrExhausted, Through
<1> QED
  BY <1>1, <1>2, <1>3 DEF IInv

\* The worker takes an event.
LEMMA TakeStep ==
  ASSUME IInv, WorkerTake
  PROVE  IInv'
<1>0. /\ wpc = "select" /\ wpc' = "dispatch" /\ ep' = 1
      /\ current' = Head(queue) /\ queue' = Tail(queue) /\ queue # <<>>
      /\ UNCHANGED <<epc, etype, closed, quit, once, spc, attempt, kind, posts, acked>>
  BY DEF WorkerTake, emit, stop, history
<1>1. /\ queue \in Seq(Numbers) /\ current \in Nat /\ Len(kind) <= MaxEvents
      /\ Len(queue) \in Nat \ {0} /\ Len(kind) = current + Len(queue)
  BY <1>0 DEF IInv, TypeOK, QueueInv
<1>2. current' = current + 1 /\ current' \in Numbers
  <2>1. Head(queue) = queue[1] /\ 1 \in 1..Len(queue)
    BY <1>0, <1>1
  <2>2. queue[1] = current + 1
    BY <2>1 DEF IInv, QueueInv
  <2> QED
    BY <1>0, <1>1, <2>1, <2>2
<1>3. /\ queue' \in Seq(Numbers) /\ Len(queue') = Len(queue) - 1
      /\ \A i \in 1..Len(queue') : queue'[i] = queue[i + 1]
  BY <1>0, <1>1
<1>4. TypeOK'
  <2>1. ep' \in 1..NumEndpoints+1 /\ current' \in 0..MaxEvents /\ Len(queue') <= QueueSize
    BY <1>0, <1>1, <1>2, <1>3 DEF IInv, TypeOK
  <2> QED
    BY <1>0, <1>3, <2>1 DEF IInv, TypeOK
<1>5. RoomInv' /\ StopInv'
  BY <1>0 DEF IInv, RoomInv, StopInv
<1>6. QueueInv'
  <2>1. ASSUME NEW i \in 1..Len(queue') PROVE queue'[i] = current' + i
    <3>1. i + 1 \in 1..Len(queue) /\ i \in Int
      BY <1>1, <1>3
    <3>2. queue[i + 1] = current + (i + 1)
      BY <3>1 DEF IInv, QueueInv
    <3> QED
      BY <1>1, <1>2, <1>3, <3>1, <3>2
  <2> QED
    BY <1>0, <1>1, <1>2, <1>3, <2>1 DEF QueueInv
<1>7. PostInv'
  <2>1. \A e \in Endpoints, n \in Numbers : n > current => posts[e][n] = 0
    BY DEF IInv, PostInv
  <2>2. \A e \in Endpoints, n \in Numbers : n >= current' => posts[e][n] = 0
    BY <1>1, <1>2, <2>1
  <2>3. ep' <= NumEndpoints => posts[ep'][current'] = 0
    BY <1>0, <1>1, <1>2, <2>1
  <2> QED
    BY <1>0, <1>2, <2>2, <2>3 DEF PostInv
<1>8. DeliveredOrExhausted'
  <2>1. \A e \in Endpoints, n \in Numbers : Through(e, n)' => Through(e, n)
    BY <1>0, <1>1, <1>2 DEF Through
  <2> QED
    BY <1>0, <2>1 DEF IInv, DeliveredOrExhausted
<1> QED
  BY <1>4, <1>5, <1>6, <1>7, <1>8 DEF IInv

\* dispatch's loop.
LEMMA DispatchStep ==
  ASSUME IInv, Dispatch
  PROVE  IInv'
<1>0. /\ wpc = "dispatch"
      /\ UNCHANGED <<epc, etype, queue, closed, quit, once, spc, current, kind, posts, acked>>
  BY DEF Dispatch, emit, stop, history
<1>1. /\ ep \in 1..NumEndpoints+1 /\ current \in 0..MaxEvents /\ current >= 1
      /\ ep <= NumEndpoints => posts[ep][current] = 0
      /\ \A e \in Endpoints, n \in Numbers :
           n > current \/ (n = current /\ e > ep) => posts[e][n] = 0
  BY <1>0 DEF IInv, TypeOK, PostInv
<1>2. RoomInv' /\ QueueInv' /\ StopInv'
  BY <1>0 DEF IInv, RoomInv, QueueInv, StopInv, Dispatch
<1>3. CASE ep > NumEndpoints /\ wpc' = "select" /\ ep' = ep /\ attempt' = attempt
  <2>1. TypeOK'
    BY <1>0, <1>3 DEF IInv, TypeOK
  <2>2. PostInv'
    BY <1>0, <1>1, <1>3 DEF PostInv
  <2>3. \A e \in Endpoints, n \in Numbers : Through(e, n)' => Through(e, n)
    BY <1>0, <1>1, <1>3 DEF Through
  <2>4. DeliveredOrExhausted'
    BY <1>0, <2>3 DEF IInv, DeliveredOrExhausted
  <2> QED
    BY <1>2, <2>1, <2>2, <2>4 DEF IInv
<1>4. CASE ep <= NumEndpoints /\ ~Deliverable /\ wpc' = wpc /\ ep' = ep + 1 /\ attempt' = attempt
  <2>1. TypeOK'
    <3>1. ep' \in 1..NumEndpoints+1
      BY <1>1, <1>4
    <3> QED
      BY <1>0, <1>4, <3>1 DEF IInv, TypeOK
  <2>2. PostInv'
    <3>1. \A e \in Endpoints, n \in Numbers :
            n > current \/ (n = current /\ e > ep') => posts[e][n] = 0
      BY <1>1, <1>4
    <3>2. ep' <= NumEndpoints => posts[ep'][current] = 0
      BY <1>1, <1>4
    <3> QED
      BY <1>0, <1>1, <1>4, <3>1, <3>2 DEF PostInv
  <2>3. \A e \in Endpoints \ BadUrls, n \in Numbers :
          Through(e, n)' /\ wants(e, kind[n]) => Through(e, n)
    BY <1>0, <1>1, <1>4 DEF Through, Deliverable
  <2>4. DeliveredOrExhausted'
    BY <1>0, <2>3 DEF IInv, DeliveredOrExhausted
  <2> QED
    BY <1>2, <2>1, <2>2, <2>4 DEF IInv
<1>5. CASE Deliverable /\ wpc' = "deliver" /\ attempt' = 0 /\ ep' = ep
  <2>1. TypeOK'
    BY <1>0, <1>5 DEF IInv, TypeOK
  <2>2. PostInv'
    BY <1>0, <1>1, <1>5 DEF PostInv, Deliverable
  <2>3. \A e \in Endpoints, n \in Numbers : Through(e, n)' => Through(e, n)
    BY <1>0, <1>1, <1>5 DEF Through
  <2>4. DeliveredOrExhausted'
    BY <1>0, <2>3 DEF IInv, DeliveredOrExhausted
  <2> QED
    BY <1>2, <2>1, <2>2, <2>4 DEF IInv
<1> QED
  BY <1>3, <1>4, <1>5 DEF Dispatch

\* What holds while a request is being made.
LEMMA DeliverFacts ==
  ASSUME IInv, wpc = "deliver"
  PROVE  /\ ep \in Endpoints /\ current \in Numbers /\ current <= Len(kind)
         /\ attempt \in 0..MaxRetries /\ posts[ep][current] = attempt
         /\ Deliverable
<1>1. Deliverable /\ posts[ep][current] = attempt /\ current >= 1
  BY DEF IInv, PostInv
<1>2. ep \in Endpoints
  BY <1>1 DEF Deliverable
<1>3. current \in Numbers /\ attempt \in 0..MaxRetries
  BY <1>1 DEF IInv, TypeOK
<1>4. current <= Len(kind)
  <2>1. Len(queue) \in Nat /\ current \in Int
    BY DEF IInv, TypeOK
  <2> QED
    BY <2>1 DEF IInv, QueueInv
<1> QED
  BY <1>1, <1>2, <1>3, <1>4

\* A request, answered or not.
LEMMA PostStep ==
  ASSUME IInv, PostOk \/ PostFails
  PROVE  IInv'
<1>0. /\ wpc = "deliver" /\ posts' = [posts EXCEPT ![ep][current] = @ + 1]
      /\ UNCHANGED <<epc, etype, queue, closed, quit, once, spc, current, kind>>
      /\ acked' = acked \/ acked' = acked \cup {<<ep, current>>}
  BY DEF PostOk, PostFails, Posted, emit, stop
<1>1. /\ ep \in Endpoints /\ current \in Numbers
      /\ posts \in [Endpoints -> [Numbers -> 0..MaxRetries+1]]
      /\ attempt \in 0..MaxRetries /\ posts[ep][current] = attempt
      /\ Deliverable
  <2>1. posts \in [Endpoints -> [Numbers -> 0..MaxRetries+1]]
    BY DEF IInv, TypeOK
  <2> QED
    BY <1>0, <2>1, DeliverFacts
<1>2. /\ posts' \in [Endpoints -> [Numbers -> 0..MaxRetries+1]]
      /\ posts'[ep][current] = attempt + 1
      /\ \A e \in Endpoints, n \in Numbers :
           e # ep \/ n # current => posts'[e][n] = posts[e][n]
  <2>1. [posts[ep] EXCEPT ![current] = @ + 1] \in [Numbers -> 0..MaxRetries+1]
    BY <1>1
  <2> QED
    BY <1>0, <1>1, <2>1
<1>3. \/ wpc' = wpc /\ ep' = ep /\ attempt' = attempt + 1 /\ attempt < MaxRetries /\ acked' = acked
      \/ /\ wpc' = "dispatch" /\ ep' = ep + 1 /\ attempt' = 0
         /\ attempt = MaxRetries \/ <<ep, current>> \in acked'
  BY DEF PostOk, PostFails, Delivered
<1>4. TypeOK'
  <2>1. attempt' \in 0..MaxRetries /\ ep' \in 1..NumEndpoints+1 /\ wpc' \in {"dispatch", "deliver"}
    <3>1. wpc = "deliver" /\ ep \in 1..NumEndpoints /\ attempt \in 0..MaxRetries
      BY <1>0, <1>1
    <3> QED
      BY <3>1, <1>3
  <2>2. acked' \subseteq Endpoints \X Numbers
    <3>1. acked \subseteq Endpoints \X Numbers
      BY DEF IInv, TypeOK
    <3>2. <<ep, current>> \in Endpoints \X Numbers
      BY <1>1
    <3>3. acked' \subseteq acked \cup {<<ep, current>>}
      BY <1>0
    <3> QED
      BY <3>1, <3>2, <3>3, Zenon
  <2> QED
    BY <1>0, <1>2, <2>1, <2>2 DEF IInv, TypeOK
<1>5. RoomInv' /\ QueueInv' /\ StopInv'
  BY <1>0, <1>3 DEF IInv, RoomInv, QueueInv, StopInv
<1>6. \A e \in Endpoints, n \in Numbers :
        n > current \/ (n = current /\ e > ep) => posts'[e][n] = 0
  <2>1. \A e \in Endpoints, n \in Numbers :
          n > current \/ (n = current /\ e > ep) => posts[e][n] = 0
    BY <1>0 DEF IInv, PostInv
  <2>2. \A e \in Endpoints, n \in Numbers :
          n > current \/ (n = current /\ e > ep) => e # ep \/ n # current
    BY <1>1
  <2>3. \A e \in Endpoints, n \in Numbers :
          e # ep \/ n # current => posts'[e][n] = posts[e][n]
    BY <1>2
  <2> QED
    BY <2>1, <2>2, <2>3
<1>7. CASE wpc' = wpc /\ ep' = ep /\ attempt' = attempt + 1 /\ attempt < MaxRetries /\ acked' = acked
  <2>1. PostInv'
    BY <1>0, <1>1, <1>2, <1>6, <1>7 DEF PostInv, Deliverable
  <2>2. \A e \in Endpoints, n \in Numbers :
          Through(e, n)' => Through(e, n) /\ (e # ep \/ n # current)
    BY <1>0, <1>1, <1>7 DEF Through
  <2>3. DeliveredOrExhausted'
    BY <1>0, <1>2, <1>7, <2>2 DEF IInv, DeliveredOrExhausted
  <2> QED
    BY <1>4, <1>5, <2>1, <2>3 DEF IInv
<1>8. CASE /\ wpc' = "dispatch" /\ ep' = ep + 1 /\ attempt' = 0
           /\ attempt = MaxRetries \/ <<ep, current>> \in acked'
  <2>1. PostInv'
    <3>1. ep' <= NumEndpoints => posts'[ep'][current'] = 0
      <4>1. current' = current /\ current \in Numbers /\ ep \in Endpoints /\ ep' = ep + 1
        BY <1>0, <1>1, <1>8
      <4> QED
        BY <1>6, <4>1
    <3>2. \A e \in Endpoints, n \in Numbers :
            n > current' \/ (n = current' /\ e > ep') => posts'[e][n] = 0
      <4>1. current' = current /\ ep \in Int /\ ep' = ep + 1
        BY <1>0, <1>1, <1>8
      <4> QED
        BY <1>6, <4>1
    <3> QED
      BY <1>0, <1>1, <1>8, <3>1, <3>2 DEF PostInv
  <2>2. DeliveredOrExhausted'
    <3>1. SUFFICES ASSUME NEW e \in Endpoints \ BadUrls, NEW n \in Numbers,
                          n <= Len(kind), Through(e, n)', wants(e, kind[n])
                   PROVE  <<e, n>> \in acked' \/ posts'[e][n] = MaxRetries + 1
      BY <1>0 DEF DeliveredOrExhausted
    <3>2. CASE e = ep /\ n = current
      BY <1>1, <1>2, <1>8, <3>2
    <3>3. CASE e # ep \/ n # current
      <4>1. Through(e, n)
        BY <1>0, <1>1, <1>8, <3>1, <3>3 DEF Through
      <4>2. <<e, n>> \in acked \/ posts[e][n] = MaxRetries + 1
        BY <3>1, <4>1 DEF IInv, DeliveredOrExhausted
      <4> QED
        BY <1>0, <1>2, <3>3, <4>2
    <3> QED
      BY <3>2, <3>3
  <2> QED
    BY <1>4, <1>5, <2>1, <2>2 DEF IInv
<1> QED
  BY <1>3, <1>7, <1>8

\* The invariant is inductive.
LEMMA StepIInv == IInv /\ [Next]_vars => IInv'
<1> SUFFICES ASSUME IInv, [Next]_vars PROVE IInv'
  OBVIOUS
<1>1. CASE Start
  BY <1>1, StartStep
<1>2. ASSUME NEW type \in Types, EmitCheck(type) PROVE IInv'
  BY <1>2, EmitCheckStep
<1>3. CASE EmitSend
  BY <1>3, EmitSendStep
<1>4. ASSUME NEW s \in Stoppers, Stop(s) PROVE IInv'
  BY <1>4, StopStep
<1>5. CASE Worker
  BY <1>5, QuitStep, TakeStep, DispatchStep, PostStep DEF Worker
<1>6. CASE UNCHANGED vars
  <2>1. UNCHANGED <<queue, worker, history>> /\ UNCHANGED <<emit, stop>>
    BY <1>6 DEF vars
  <2>2. RoomInv' /\ StopInv'
    BY <2>1 DEF IInv, RoomInv, StopInv, emit, stop, worker, history
  <2> QED
    BY <2>1, <2>2, CallerStep DEF IInv, TypeOK, emit, stop
<1> QED
  BY <1>1, <1>2, <1>3, <1>4, <1>5, <1>6 DEF Next

\* The invariant holds in every reachable state.
THEOREM Invariance == Spec => []IInv
BY InitIInv, StepIInv, PTL DEF Spec

\* Every variable keeps its type, the queue its capacity, and no event is posted
\* to an endpoint more than MaxRetries + 1 times.
THEOREM TypeCorrect == Spec => []TypeOK
<1>1. IInv => TypeOK
  BY DEF IInv
<1> QED
  BY <1>1, Invariance, PTL

\* What the worker is through with was acknowledged or tried to the end at every
\* endpoint that wants it.
THEOREM DeliveryIsThorough == Spec => []DeliveredOrExhausted
<1>1. IInv => DeliveredOrExhausted
  BY DEF IInv
<1> QED
  BY <1>1, Invariance, PTL

\* No request is made once a call of Stop has returned.
THEOREM StopIsQuiet == Spec => QuietAfterStop
<1>1. IInv /\ [Next]_vars => [(\E s \in Stoppers : spc[s] = "returned") => UNCHANGED posts]_vars
  <2> SUFFICES ASSUME IInv, Next, NEW s \in Stoppers, spc[s] = "returned"
               PROVE  UNCHANGED posts
    OBVIOUS
  <2>1. wpc = "exited"
    BY DEF IInv, StopInv
  <2> QED
    BY <2>1 DEF Next, Start, EmitCheck, EmitSend, Stop, StopFirst, StopClose, StopLater,
                StopReturn, Worker, WorkerQuit, WorkerTake, Dispatch, PostOk, PostFails,
                history
<1> QED
  BY <1>1, Invariance, PTL DEF Spec, QuietAfterStop

\* A step of the worker that makes a request is a Post of the feed.
LEMMA PostRefines ==
  ASSUME IInv, PostOk \/ PostFails
  PROVE  Feed!Post(ep, current)
<1>1. /\ wpc = "deliver" /\ ep \in Endpoints /\ current \in Numbers
      /\ current <= Len(kind) /\ Deliverable /\ posts[ep][current] = attempt
      /\ attempt \in 0..MaxRetries
  BY DeliverFacts DEF PostOk, PostFails
<1>2. Feed!Wants(ep, kind[current])
  BY <1>1 DEF Feed!Wants, Deliverable, wants
<1>3. posts[ep][current] < MaxRetries + 1
  BY <1>1
<1>4. \A later \in Feed!Numbers : later > current => posts[ep][later] = 0
  BY <1>1 DEF IInv, PostInv, Feed!Numbers
<1> QED
  BY <1>1, <1>2, <1>3, <1>4 DEF Feed!Post, PostOk, PostFails, Posted

\* Every step of the dispatcher is a step of the feed or leaves it alone.
LEMMA StepRefines ==
  ASSUME IInv, [Next]_vars
  PROVE  [Feed!Next]_Feed!feed
<1>1. CASE EmitSend
  <2>1. etype \in Types /\ Len(kind) < MaxEvents
    BY <1>1 DEF IInv, TypeOK, RoomInv, EmitSend
  <2>2. Feed!Accept(etype) \/ UNCHANGED Feed!feed
    BY <1>1, <2>1 DEF EmitSend, Feed!Accept, Feed!feed
  <2> QED
    BY <2>1, <2>2 DEF Feed!Next
<1>2. CASE PostOk \/ PostFails
  <2>1. ep \in Endpoints /\ current \in Feed!Numbers
    BY <1>2 DEF PostOk, PostFails, IInv, TypeOK, PostInv, Deliverable, Feed!Numbers
  <2> QED
    BY <1>2, <2>1, PostRefines DEF Feed!Next
<1>3. ASSUME NEW s \in Stoppers, Stop(s) PROVE UNCHANGED Feed!feed
  BY <1>3 DEF Stop, StopFirst, StopClose, StopLater, StopReturn, history, Feed!feed
<1>4. ASSUME NEW type \in Types, EmitCheck(type) PROVE UNCHANGED Feed!feed
  BY <1>4 DEF EmitCheck, history, Feed!feed
<1>5. CASE Start \/ WorkerQuit \/ WorkerTake \/ Dispatch \/ UNCHANGED vars
  BY <1>5 DEF Start, WorkerQuit, WorkerTake, Dispatch, vars, history, Feed!feed
<1> QED
  BY <1>1, <1>2, <1>3, <1>4, <1>5 DEF Next, Worker

\* The dispatcher implements the feed it promises its endpoints.
THEOREM Refinement == Spec => FeedSpec
<1>1. Init => Feed!Init
  BY DEF Init, Feed!Init, Feed!Numbers
<1>2. IInv /\ [Next]_vars => [Feed!Next]_Feed!feed
  BY StepRefines
<1> QED
  BY <1>1, <1>2, Invariance, PTL DEF Spec, FeedSpec, Feed!Spec
=============================================================================
