------------------------- MODULE WebhookDispatcher --------------------------
(***************************************************************************)
(* The webhook dispatcher: Emit puts an event into a bounded queue, one    *)
(* worker takes events from it and posts each to every endpoint that wants *)
(* it, with retries, and Stop ends the worker.                             *)
(*                                                                         *)
(* Code: internal/webhooks/dispatcher.go, AttachWebhooks and Run of        *)
(* internal/indexer/indexer.go, the emission of processor.go.              *)
(*                                                                         *)
(* Emit runs on the indexer's main goroutine.  Stop may be called by       *)
(* several goroutines and at any point of an Emit, as its contract allows. *)
(* Events are numbered in the order in which the queue accepts them.       *)
(* Marshalling a payload of strings and numbers does not fail.             *)
(***************************************************************************)
EXTENDS Integers, Sequences

CONSTANTS
  Types,         \* event types
  NumEndpoints,  \* endpoints, in the order of the configuration
  Filter,        \* endpoint -> Endpoint.Events, {} for all
  BadUrls,       \* endpoints for which no request can be built
  MaxRetries,    \* maxRetries
  QueueSize,     \* capacity of the queue (1024 in the code)
  MaxEvents,     \* bound: accepted events
  Stoppers       \* goroutines that call Stop

Endpoints == 1..NumEndpoints
Numbers == 1..MaxEvents

ASSUME DispatcherAssumption ==
  /\ NumEndpoints \in Nat
  /\ Filter \in [Endpoints -> SUBSET Types]
  /\ BadUrls \subseteq Endpoints
  /\ MaxRetries \in Nat
  /\ QueueSize \in Nat \ {0}
  /\ MaxEvents \in Nat

VARIABLES
  epc,      \* Emit: "idle" or "send"
  etype,    \* the type of its event
  queue,    \* Dispatcher.queue
  closed,   \* Dispatcher.closed: "no" or "yes"
  quit,     \* Dispatcher.quit: "open" or "closed"
  once,     \* stopOnce: "new", "running" or "done"
  spc,      \* goroutine -> where its Stop is
  wpc,      \* the worker: "off", "select", "dispatch", "deliver" or "exited"
  current,  \* the event it dispatches, the last one otherwise
  ep,       \* the endpoint it is at
  attempt,  \* deliver's loop variable
  kind,     \* types of the accepted events (history)
  posts,    \* endpoint -> event -> requests made (history)
  acked     \* <<endpoint, event>> answered with 2xx (history)

emit    == <<epc, etype>>
stop    == <<closed, quit, once, spc>>
worker  == <<wpc, current, ep, attempt>>
history == <<kind, posts, acked>>

vars == <<emit, queue, stop, worker, history>>

Feed == INSTANCE EventFeed WITH MaxPosts <- MaxRetries + 1

wants(endpoint, type) == Filter[endpoint] = {} \/ type \in Filter[endpoint]

----------------------------------------------------------------------------

Init ==
  /\ epc = "idle" /\ etype \in Types
  /\ queue = <<>>
  /\ closed = "no" /\ quit = "open" /\ once = "new"
  /\ spc = [s \in Stoppers |-> "idle"]
  /\ wpc = "off" /\ current = 0 /\ ep = 1 /\ attempt = 0
  /\ kind = <<>>
  /\ posts = [e \in Endpoints |-> [n \in Numbers |-> 0]]
  /\ acked = {}

\* AttachWebhooks starts the worker before anything is emitted.
Start ==
  /\ wpc = "off"
  /\ wpc' = "select"
  /\ UNCHANGED <<emit, queue, stop, current, ep, attempt, history>>

(***************************************************************************)
(* Emit                                                                    *)
(***************************************************************************)

\* The closed flag; a closed dispatcher takes nothing.
EmitCheck(type) ==
  /\ wpc # "off"
  /\ epc = "idle"
  /\ closed = "no"
  /\ Len(kind) < MaxEvents
  /\ epc' = "send" /\ etype' = type
  /\ UNCHANGED <<queue, stop, worker, history>>

\* Mutation: the queue is not bounded.
EmitSendUnbounded ==
  /\ epc = "send"
  /\ epc' = "idle"
  /\ queue' = Append(queue, Len(kind) + 1)
  /\ kind' = Append(kind, etype)
  /\ UNCHANGED <<etype, stop, worker, posts, acked>>

\* The send, or the drop when the queue is full.  The dispatcher may have been
\* stopped since the check.
EmitSend ==
  /\ epc = "send"
  /\ epc' = "idle"
  /\ \/ /\ Len(queue) < QueueSize
        /\ queue' = Append(queue, Len(kind) + 1)
        /\ kind' = Append(kind, etype)
     \/ /\ Len(queue) >= QueueSize
        /\ UNCHANGED <<queue, kind>>
  /\ UNCHANGED <<etype, stop, worker, posts, acked>>

----------------------------------------------------------------------------
(***************************************************************************)
(* Stop                                                                    *)
(***************************************************************************)

\* stopOnce: the first caller sets the flag, ...
StopFirst(s) ==
  /\ wpc # "off"
  /\ spc[s] = "idle" /\ once = "new"
  /\ once' = "running"
  /\ closed' = "yes"
  /\ spc' = [spc EXCEPT ![s] = "close"]
  /\ UNCHANGED <<emit, queue, quit, worker, history>>

\* Mutation: the flag is all that is set.
StopCloseSilent(s) ==
  /\ spc[s] = "close"
  /\ once' = "done"
  /\ spc' = [spc EXCEPT ![s] = "wait"]
  /\ UNCHANGED <<emit, queue, closed, quit, worker, history>>

\* ... then closes quit.
StopClose(s) ==
  /\ spc[s] = "close"
  /\ quit' = "closed" /\ once' = "done"
  /\ spc' = [spc EXCEPT ![s] = "wait"]
  /\ UNCHANGED <<emit, queue, closed, worker, history>>

\* A later caller waits for the first one to be through.
StopLater(s) ==
  /\ spc[s] = "idle" /\ once = "done"
  /\ spc' = [spc EXCEPT ![s] = "wait"]
  /\ UNCHANGED <<emit, queue, closed, quit, once, worker, history>>

\* Mutation: Stop does not wait for the worker.
StopReturnAtOnce(s) ==
  /\ spc[s] = "wait"
  /\ spc' = [spc EXCEPT ![s] = "returned"]
  /\ UNCHANGED <<emit, queue, closed, quit, once, worker, history>>

\* <-done: the worker has returned.
StopReturn(s) ==
  /\ spc[s] = "wait"
  /\ wpc = "exited"
  /\ spc' = [spc EXCEPT ![s] = "returned"]
  /\ UNCHANGED <<emit, queue, closed, quit, once, worker, history>>

Stop(s) == StopFirst(s) \/ StopClose(s) \/ StopLater(s) \/ StopReturn(s)

----------------------------------------------------------------------------
(***************************************************************************)
(* The worker                                                              *)
(***************************************************************************)

\* run's select: quit, ...
WorkerQuit ==
  /\ wpc = "select"
  /\ quit = "closed"
  /\ wpc' = "exited"
  /\ UNCHANGED <<emit, queue, stop, current, ep, attempt, history>>

\* ... or an event, also when quit is closed.
WorkerTake ==
  /\ wpc = "select"
  /\ queue # <<>>
  /\ current' = Head(queue) /\ queue' = Tail(queue)
  /\ ep' = 1
  /\ wpc' = "dispatch"
  /\ UNCHANGED <<emit, stop, attempt, history>>

\* The endpoint dispatch is at wants the event, and a request can be built.
Deliverable == ep \in Endpoints /\ wants(ep, kind[current]) /\ ep \notin BadUrls

\* dispatch's loop: all endpoints done, one skipped, or one to deliver to.
Dispatch ==
  /\ wpc = "dispatch"
  /\ \/ /\ ep > NumEndpoints
        /\ wpc' = "select"
        /\ UNCHANGED <<ep, attempt>>
     \/ /\ ep <= NumEndpoints /\ ~Deliverable
        /\ ep' = ep + 1
        /\ UNCHANGED <<wpc, attempt>>
     \/ /\ Deliverable
        /\ wpc' = "deliver" /\ attempt' = 0
        /\ UNCHANGED ep
  /\ UNCHANGED <<emit, queue, stop, current, history>>

\* deliver returns to dispatch's loop.
Delivered == wpc' = "dispatch" /\ ep' = ep + 1 /\ attempt' = 0

Posted == posts' = [posts EXCEPT ![ep][current] = @ + 1]

\* A request answered with 2xx.
PostOk ==
  /\ wpc = "deliver"
  /\ Posted
  /\ acked' = acked \cup {<<ep, current>>}
  /\ Delivered
  /\ UNCHANGED <<emit, queue, stop, current, kind>>

\* Mutation: a failure ends the dispatch of the event.
PostFailsForAll ==
  /\ wpc = "deliver"
  /\ Posted
  /\ \/ /\ attempt < MaxRetries
        /\ attempt' = attempt + 1
        /\ UNCHANGED <<wpc, ep>>
     \/ /\ attempt = MaxRetries
        /\ wpc' = "select" /\ attempt' = 0
        /\ UNCHANGED ep
  /\ UNCHANGED <<emit, queue, stop, current, kind, acked>>

\* Mutation: one retry too many.
PostFailsOnceMore ==
  /\ wpc = "deliver"
  /\ Posted
  /\ \/ /\ attempt <= MaxRetries
        /\ attempt' = attempt + 1
        /\ UNCHANGED <<wpc, ep>>
     \/ attempt = MaxRetries + 1 /\ Delivered
  /\ UNCHANGED <<emit, queue, stop, current, kind, acked>>

\* An error, a timeout or another status: a retry, or the end of them.
PostFails ==
  /\ wpc = "deliver"
  /\ Posted
  /\ \/ /\ attempt < MaxRetries
        /\ attempt' = attempt + 1
        /\ UNCHANGED <<wpc, ep>>
     \/ attempt = MaxRetries /\ Delivered
  /\ UNCHANGED <<emit, queue, stop, current, kind, acked>>

Worker == WorkerQuit \/ WorkerTake \/ Dispatch \/ PostOk \/ PostFails

----------------------------------------------------------------------------

Next ==
  \/ Start
  \/ \E type \in Types : EmitCheck(type)
  \/ EmitSend
  \/ \E s \in Stoppers : Stop(s)
  \/ Worker

Spec == Init /\ [][Next]_vars

\* The goroutines are scheduled and every request ends, by its timeout at the
\* latest.  The select may pick either ready channel: nothing is assumed of it.
Fairness == WF_vars(Worker) /\ \A s \in Stoppers : WF_vars(Stop(s))

FairSpec == Spec /\ Fairness

----------------------------------------------------------------------------
(***************************************************************************)
(* Properties                                                              *)
(***************************************************************************)

\* Every variable has its type and the queue its capacity.
TypeOK ==
  /\ epc \in {"idle", "send"} /\ etype \in Types
  /\ queue \in Seq(Numbers) /\ Len(queue) <= QueueSize
  /\ closed \in {"no", "yes"} /\ quit \in {"open", "closed"}
  /\ once \in {"new", "running", "done"}
  /\ spc \in [Stoppers -> {"idle", "close", "wait", "returned"}]
  /\ wpc \in {"off", "select", "dispatch", "deliver", "exited"}
  /\ current \in 0..MaxEvents /\ ep \in 1..NumEndpoints+1 /\ attempt \in 0..MaxRetries
  /\ kind \in Seq(Types) /\ Len(kind) <= MaxEvents
  /\ posts \in [Endpoints -> [Numbers -> 0..MaxRetries+1]]
  /\ acked \subseteq Endpoints \X Numbers

\* The worker has done with event n at endpoint e.
Through(e, n) ==
  \/ n < current
  \/ n = current /\ (wpc \in {"select", "exited"} \/ e < ep)

\* An event the worker is through with was acknowledged by, or tried
\* MaxRetries + 1 times at, every endpoint that wants it: an endpoint that
\* fails costs the others nothing, and a shutdown lets a delivery finish.
DeliveredOrExhausted ==
  \A e \in Endpoints \ BadUrls, n \in Numbers :
    n <= Len(kind) /\ Through(e, n) /\ wants(e, kind[n]) =>
      <<e, n>> \in acked \/ posts[e][n] = MaxRetries + 1

\* Once a call of Stop has returned no request is made.
QuietAfterStop == [][(\E s \in Stoppers : spc[s] = "returned") => UNCHANGED posts]_vars

\* Every endpoint is fed as EventFeed says: in order, only what it wants, with
\* a bounded number of retries, although events are dropped and the dispatcher
\* is stopped at any point.
FeedSpec == Feed!Spec

\* Stop returns, with endpoints that never answer and events in the queue.
StopReturns == \A s \in Stoppers : spc[s] \in {"close", "wait"} ~> spc[s] = "returned"

----------------------------------------------------------------------------
(***************************************************************************)
(* The inductive invariant                                                 *)
(***************************************************************************)

\* Between the check and the send nobody else emits.
RoomInv == epc = "send" => Len(kind) < MaxEvents

\* The queue holds the last events accepted, in order, and the worker has the
\* one before them.
QueueInv ==
  /\ Len(kind) = current + Len(queue)
  /\ \A i \in 1..Len(queue) : queue[i] = current + i

\* How far the worker's posts have got: none beyond where it is.
PostInv ==
  /\ wpc = "off" => current = 0
  /\ wpc \in {"dispatch", "deliver"} => current >= 1
  /\ wpc = "deliver" => Deliverable /\ posts[ep][current] = attempt
  /\ wpc = "dispatch" /\ ep <= NumEndpoints => posts[ep][current] = 0
  /\ \A e \in Endpoints, n \in Numbers :
       n > current \/ (n = current /\ wpc \in {"dispatch", "deliver"} /\ e > ep)
         => posts[e][n] = 0

\* A call of Stop returns after the worker only.
StopInv ==
  /\ (\E s \in Stoppers : spc[s] = "returned") => wpc = "exited"
  /\ wpc = "off" => closed = "no"

IInv ==
  /\ TypeOK
  /\ RoomInv
  /\ QueueInv
  /\ PostInv
  /\ StopInv
  /\ DeliveredOrExhausted
=============================================================================
