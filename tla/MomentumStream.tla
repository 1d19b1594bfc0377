--------------------------- MODULE MomentumStream ---------------------------
(***************************************************************************)
(* The WebSocket stream of momentums: the indexer's NOTIFY, the hub that   *)
(* LISTENs and fans out, and the handler of each connection, which replays *)
(* from the database and then goes live.                                   *)
(*                                                                         *)
(* Code: internal/api/stream/hub.go (Hub, Subscriber), MomentumsStream,    *)
(* replay and runLive of internal/api/handlers/momentums_stream.go, the    *)
(* notify of internal/indexer/processor.go.                                *)
(*                                                                         *)
(* A momentum is its height.  A connection is one request and its          *)
(* Subscriber; after it is gone the same client may ask again.  The hub's  *)
(* mutex is explicit where it is held across a step of another goroutine,  *)
(* that is between Subscribe's check of the state, which no lock protects, *)
(* and its registration.                                                   *)
(***************************************************************************)
EXTENDS Integers, Sequences, FiniteSets

CONSTANTS
  Clients,        \* connections
  Subjects,       \* JWT subjects
  SubjectOf,      \* connection -> subject
  NoClient,       \* the mutex is free
  MaxHeight,      \* bound: heights the indexer may store
  FromHeights,    \* values of from_height, 0 for a request without it
  BufSize,        \* ClientBuf (32 in the code)
  PerSubjectMax,  \* connections per subject (8 in the code)
  ReplayMax,      \* streamReplayMaxRows (10 000 in the code)
  MaxTransit      \* bound: notifications on their way to the hub

ASSUME StreamAssumption ==
  /\ SubjectOf \in [Clients -> Subjects]
  /\ NoClient \notin Clients
  /\ MaxHeight \in Nat \ {0} /\ BufSize \in Nat \ {0} /\ PerSubjectMax \in Nat \ {0}
  /\ FromHeights \subseteq Nat
  /\ ReplayMax \in Nat \ {0} /\ MaxTransit \in Nat \ {0}

Heights == 1..MaxHeight

VARIABLES
  table,       \* heights in table momentums
  late,        \* those stored below a height already there (history)
  transit,     \* notifications on the LISTEN connection
  hubState,    \* Hub.state
  hpc,         \* where Run is
  ctx,         \* the hub's context: "live" or "canceled"
  mutex,       \* the connection in Subscribe's critical section, or NoClient
  subs,        \* Hub.subs
  perSubject,  \* Hub.perSubject
  cpc,         \* connection -> where its handler is
  from,        \* connection -> from_height, 0 when absent
  end,         \* connection -> replay's end
  lastSent,    \* connection -> height of the last frame
  buf,         \* connection -> contents of Subscriber.ch
  lagged,      \* connection -> Subscriber.lagged, 0 or 1 (more)
  closed,      \* connection -> Subscriber.closed: "no" or "yes"
  closes,      \* connection -> 1 once the hub has closed the channel
  sent,        \* connection -> heights of its frames (history)
  beyond       \* connection -> heights stored when the cap cut its replay short (history)

db     == <<table, late>>
hub    == <<transit, hubState, hpc, ctx>>
reg    == <<mutex, subs, perSubject>>
handler == <<cpc, from, end, lastSent>>
channel == <<buf, lagged, closed, closes>>
history == <<sent, beyond>>

vars == <<db, hub, reg, handler, channel, history>>

\* A goroutine may enter the hub's critical section.
Free == mutex = NoClient

NoRow == [s \in Subjects |-> 0]

----------------------------------------------------------------------------

Init ==
  /\ table = {} /\ late = {}
  /\ transit = <<>> /\ hubState = "pending" /\ hpc = "connect" /\ ctx = "live"
  /\ mutex = NoClient /\ subs = {} /\ perSubject = NoRow
  /\ cpc = [c \in Clients |-> "idle"]
  /\ from = [c \in Clients |-> 0]
  /\ end = [c \in Clients |-> 0]
  /\ lastSent = [c \in Clients |-> 0]
  /\ buf = [c \in Clients |-> <<>>]
  /\ lagged = [c \in Clients |-> 0]
  /\ closed = [c \in Clients |-> "no"]
  /\ closes = [c \in Clients |-> 0]
  /\ sent = [c \in Clients |-> {}]
  /\ beyond = [c \in Clients |-> {}]

(***************************************************************************)
(* The indexer                                                             *)
(***************************************************************************)

\* A committed transaction stores h and delivers its NOTIFY to a LISTENing
\* hub.  Heights may be left out, stored late by a backfill, or committed a
\* second time (the row stays, the NOTIFY is sent again).
Commit(h) ==
  /\ table' = table \cup {h}
  /\ late' = IF h \notin table /\ \E k \in table : k > h THEN late \cup {h} ELSE late
  /\ \/ /\ hpc = "wait" /\ Len(transit) < MaxTransit
        /\ transit' = Append(transit, h)
     \/ /\ hpc # "wait" /\ h \notin table
        /\ UNCHANGED transit
  /\ UNCHANGED <<hubState, hpc, ctx, reg, handler, channel, history>>

----------------------------------------------------------------------------
(***************************************************************************)
(* The hub: Run, connectAndListen, dispatch, closeAllSubs, drainAll        *)
(***************************************************************************)

\* Connect and LISTEN; a failed attempt is repeated after a pause.
HubListen ==
  /\ hpc = "connect"
  /\ ctx = "live"
  /\ hpc' = "wait" /\ hubState' = "running"
  /\ UNCHANGED <<db, transit, ctx, reg, handler, channel, history>>

\* Mutation: the channel is not bounded.
HubDispatchUnbounded ==
  /\ hpc = "wait"
  /\ transit # <<>>
  /\ Free
  /\ transit' = Tail(transit)
  /\ buf' = [c \in Clients |-> IF c \in subs THEN Append(buf[c], Head(transit)) ELSE buf[c]]
  /\ UNCHANGED <<db, hubState, hpc, ctx, reg, handler, lagged, closed, closes, history>>

\* dispatch: a subscriber whose channel is full loses the event.
HubDispatch ==
  /\ hpc = "wait"
  /\ transit # <<>>
  /\ Free
  /\ transit' = Tail(transit)
  /\ buf' = [c \in Clients |-> IF c \in subs /\ Len(buf[c]) < BufSize
                               THEN Append(buf[c], Head(transit)) ELSE buf[c]]
  /\ lagged' = [c \in Clients |-> IF c \in subs /\ Len(buf[c]) >= BufSize
                                  THEN 1 ELSE lagged[c]]
  /\ UNCHANGED <<db, hubState, hpc, ctx, reg, handler, closed, closes, history>>

\* Mutation: the state flips only after the subscribers were closed.
HubWaitFailsStillRunning ==
  /\ hpc = "wait"
  /\ hpc' = "closeSubs"
  /\ transit' = <<>>
  /\ UNCHANGED <<db, hubState, ctx, reg, handler, channel, history>>

\* WaitForNotification fails: the connection broke or the context is canceled.
HubWaitFails ==
  /\ hpc = "wait"
  /\ hpc' = "closeSubs"
  /\ hubState' = IF ctx = "live" THEN "degraded" ELSE hubState
  /\ transit' = <<>>
  /\ UNCHANGED <<db, ctx, reg, handler, channel, history>>

\* Mutation: the closed flag is not consulted.
closeAllSubsUnflagged ==
  /\ Free
  /\ closed' = [c \in Clients |-> IF c \in subs THEN "yes" ELSE closed[c]]
  /\ closes' = [c \in Clients |-> IF c \in subs THEN 1 ELSE closes[c]]
  /\ subs' = {} /\ perSubject' = NoRow
  /\ UNCHANGED <<mutex, buf, lagged>>

\* closeAllSubs, in one critical section.
closeAllSubs ==
  /\ Free
  /\ closed' = [c \in Clients |-> IF c \in subs THEN "yes" ELSE closed[c]]
  /\ closes' = [c \in Clients |-> IF c \in subs /\ closed[c] = "no" THEN 1 ELSE closes[c]]
  /\ subs' = {} /\ perSubject' = NoRow
  /\ UNCHANGED <<mutex, buf, lagged>>

HubCloseSubs ==
  /\ hpc = "closeSubs"
  /\ closeAllSubs
  /\ hpc' = "connect"
  /\ UNCHANGED <<db, transit, hubState, ctx, handler, history>>

\* Run returns: drainAll flips the state, then closes.
HubStop ==
  /\ hpc = "connect"
  /\ ctx = "canceled"
  /\ hpc' = "drain" /\ hubState' = "stopped"
  /\ UNCHANGED <<db, transit, ctx, reg, handler, channel, history>>

HubDrain ==
  /\ hpc = "drain"
  /\ closeAllSubs
  /\ hpc' = "exited"
  /\ UNCHANGED <<db, transit, hubState, ctx, handler, history>>

Hub ==
  \/ HubListen \/ HubDispatch \/ HubWaitFails \/ HubCloseSubs
  \/ HubStop \/ HubDrain

\* SIGTERM reaches cmd/api.
Shutdown ==
  /\ ctx = "live"
  /\ ctx' = "canceled"
  /\ UNCHANGED <<db, transit, hubState, hpc, reg, handler, channel, history>>

----------------------------------------------------------------------------
(***************************************************************************)
(* A connection                                                            *)
(***************************************************************************)

\* Subscribe under the lock: the state and the cap, ...
SubscribeCheck(c, f) ==
  /\ cpc[c] = "idle"
  /\ Free
  /\ hubState = "running"
  /\ perSubject[SubjectOf[c]] < PerSubjectMax
  /\ mutex' = c
  /\ cpc' = [cpc EXCEPT ![c] = "register"]
  /\ from' = [from EXCEPT ![c] = f]
  /\ UNCHANGED <<db, hub, subs, perSubject, end, lastSent, channel, history>>

\* ... then the registration.  The state may have changed in between.
SubscribeRegister(c) ==
  /\ cpc[c] = "register"
  /\ subs' = subs \cup {c}
  /\ perSubject' = [perSubject EXCEPT ![SubjectOf[c]] = @ + 1]
  /\ mutex' = NoClient
  /\ cpc' = [cpc EXCEPT ![c] = "accept"]
  /\ UNCHANGED <<db, hub, from, end, lastSent, channel, history>>

\* websocket.Accept succeeds; without from_height there is no replay.
Accept(c) ==
  /\ cpc[c] = "accept"
  /\ cpc' = [cpc EXCEPT ![c] = IF from[c] = 0 THEN "live" ELSE "latest"]
  /\ UNCHANGED <<db, hub, reg, from, end, lastSent, channel, history>>

\* The handler returns: its variables are gone, its deferred Close is next.
Return(c) ==
  /\ cpc' = [cpc EXCEPT ![c] = "close"]
  /\ from' = [from EXCEPT ![c] = 0]
  /\ end' = [end EXCEPT ![c] = 0]
  /\ lastSent' = [lastSent EXCEPT ![c] = 0]
  /\ sent' = [sent EXCEPT ![c] = {}]
  /\ beyond' = [beyond EXCEPT ![c] = {}]

\* The upgrade, a query or a write fails, or the client is gone.
HandlerFails(c) ==
  /\ cpc[c] \in {"accept", "latest", "scan", "live"}
  /\ Return(c)
  /\ UNCHANGED <<db, hub, reg, channel>>

\* The highest stored momentum; the table is not empty.
GetLatest == CHOOSE h \in table : \A k \in table : k <= h

\* The rows of a range; the callers' limit is never below its width.
ListByHeightRange(first, last) == {h \in table : first <= h /\ h <= last}

\* replay reads the latest height: nothing stored, nothing to replay, or a
\* range, which ends there unless it is longer than ReplayMax.
ReplayLatest(c) ==
  /\ cpc[c] = "latest"
  /\ \/ /\ table = {}
        /\ cpc' = [cpc EXCEPT ![c] = "live"]
        /\ UNCHANGED <<end, lastSent, beyond>>
     \/ /\ table # {} /\ from[c] > GetLatest
        /\ cpc' = [cpc EXCEPT ![c] = "live"]
        /\ lastSent' = [lastSent EXCEPT ![c] = from[c] - 1]
        /\ UNCHANGED <<end, beyond>>
     \/ /\ table # {} /\ from[c] <= GetLatest
        /\ cpc' = [cpc EXCEPT ![c] = "scan"]
        /\ \/ /\ GetLatest - from[c] + 1 > ReplayMax
              /\ end' = [end EXCEPT ![c] = from[c] + ReplayMax - 1]
              /\ beyond' = [beyond EXCEPT ![c] = {h \in table : h > from[c] + ReplayMax - 1}]
           \/ /\ GetLatest - from[c] + 1 <= ReplayMax
              /\ end' = [end EXCEPT ![c] = GetLatest]
              /\ UNCHANGED beyond
        /\ UNCHANGED lastSent
  /\ UNCHANGED <<db, hub, reg, from, channel, sent>>

\* Mutation: the live events go on above the highest height now stored, not
\* above the last row of the scan.
ReplayScanToLatest(c) ==
  /\ cpc[c] = "scan"
  /\ sent' = [sent EXCEPT ![c] = ListByHeightRange(from[c], end[c])]
  /\ lastSent' = [lastSent EXCEPT ![c] = GetLatest]
  /\ end' = [end EXCEPT ![c] = 0]
  /\ cpc' = [cpc EXCEPT ![c] = "live"]
  /\ UNCHANGED <<db, hub, reg, from, channel, beyond>>

\* The range scan and its frames; replay returns.
ReplayScan(c) ==
  /\ cpc[c] = "scan"
  /\ LET rows == ListByHeightRange(from[c], end[c]) IN
       /\ sent' = [sent EXCEPT ![c] = rows]
       /\ lastSent' = [lastSent EXCEPT ![c] =
            IF rows = {} THEN 0 ELSE CHOOSE h \in rows : \A k \in rows : k <= h]
  /\ end' = [end EXCEPT ![c] = 0]
  /\ cpc' = [cpc EXCEPT ![c] = "live"]
  /\ UNCHANGED <<db, hub, reg, from, channel, beyond>>

\* Mutation: a height already sent is skipped before the lag is looked at.
LiveReceiveSkipsFirst(c) ==
  /\ cpc[c] = "live"
  /\ buf[c] # <<>>
  /\ buf' = [buf EXCEPT ![c] = Tail(@)]
  /\ \/ /\ Head(buf[c]) > lastSent[c] /\ lagged[c] > 0
        /\ Return(c)
     \/ /\ Head(buf[c]) <= lastSent[c]
        /\ UNCHANGED <<handler, history>>
     \/ /\ lagged[c] = 0 /\ Head(buf[c]) > lastSent[c]
        /\ sent' = [sent EXCEPT ![c] = @ \cup {Head(buf[c])}]
        /\ lastSent' = [lastSent EXCEPT ![c] = Head(buf[c])]
        /\ UNCHANGED <<cpc, from, end, beyond>>
  /\ UNCHANGED <<db, hub, reg, lagged, closed, closes>>

\* runLive takes an event: a lagged subscriber is closed (4000), a height
\* already sent is skipped, anything else becomes a frame.
LiveReceive(c) ==
  /\ cpc[c] = "live"
  /\ buf[c] # <<>>
  /\ buf' = [buf EXCEPT ![c] = Tail(@)]
  /\ \/ /\ lagged[c] > 0
        /\ Return(c)
     \/ /\ lagged[c] = 0 /\ Head(buf[c]) <= lastSent[c]
        /\ UNCHANGED <<handler, history>>
     \/ /\ lagged[c] = 0 /\ Head(buf[c]) > lastSent[c]
        /\ sent' = [sent EXCEPT ![c] = @ \cup {Head(buf[c])}]
        /\ lastSent' = [lastSent EXCEPT ![c] = Head(buf[c])]
        /\ UNCHANGED <<cpc, from, end, beyond>>
  /\ UNCHANGED <<db, hub, reg, lagged, closed, closes>>

\* The channel is closed and empty.
LiveHubClosed(c) ==
  /\ cpc[c] = "live"
  /\ buf[c] = <<>> /\ closes[c] > 0
  /\ Return(c)
  /\ UNCHANGED <<db, hub, reg, channel>>

\* The connection is over and its Subscriber garbage; the client may connect
\* again.
Gone(c) ==
  /\ cpc' = [cpc EXCEPT ![c] = "idle"]
  /\ buf' = [buf EXCEPT ![c] = <<>>]
  /\ lagged' = [lagged EXCEPT ![c] = 0]
  /\ closed' = [closed EXCEPT ![c] = "no"]
  /\ closes' = [closes EXCEPT ![c] = 0]

\* The deferred Subscriber.Close: the flag, ...
Close(c) ==
  /\ cpc[c] = "close"
  /\ \/ closed[c] = "yes" /\ Gone(c)
     \/ /\ closed[c] = "no"
        /\ closed' = [closed EXCEPT ![c] = "yes"]
        /\ cpc' = [cpc EXCEPT ![c] = "unsubscribe"]
        /\ UNCHANGED <<buf, lagged, closes>>
  /\ UNCHANGED <<db, hub, reg, from, end, lastSent, history>>

\* Mutation: the subject's count goes down even if the hub has dropped the
\* subscriber already.
UnsubscribeUnchecked(c) ==
  /\ cpc[c] = "unsubscribe"
  /\ Free
  /\ subs' = subs \ {c}
  /\ perSubject' = [perSubject EXCEPT ![SubjectOf[c]] = IF @ = 0 THEN 0 ELSE @ - 1]
  /\ cpc' = [cpc EXCEPT ![c] = "closeCh"]
  /\ UNCHANGED <<db, hub, mutex, from, end, lastSent, channel, history>>

\* ... unsubscribe, ...
Unsubscribe(c) ==
  /\ cpc[c] = "unsubscribe"
  /\ Free
  /\ subs' = subs \ {c}
  /\ perSubject' = IF c \in subs THEN [perSubject EXCEPT ![SubjectOf[c]] = @ - 1]
                   ELSE perSubject
  /\ cpc' = [cpc EXCEPT ![c] = "closeCh"]
  /\ UNCHANGED <<db, hub, mutex, from, end, lastSent, channel, history>>

\* ... and close(ch), which would panic on a closed channel.
CloseChannel(c) ==
  /\ cpc[c] = "closeCh"
  /\ Gone(c)
  /\ UNCHANGED <<db, hub, reg, from, end, lastSent, history>>

Handler(c) ==
  \/ SubscribeRegister(c)
  \/ Accept(c) \/ ReplayLatest(c) \/ ReplayScan(c)
  \/ LiveReceive(c) \/ LiveHubClosed(c)
  \/ Close(c) \/ Unsubscribe(c) \/ CloseChannel(c)

----------------------------------------------------------------------------

Next ==
  \/ \E h \in Heights : Commit(h)
  \/ Hub \/ Shutdown
  \/ \E c \in Clients :
       \/ \E f \in FromHeights : SubscribeCheck(c, f)
       \/ Handler(c) \/ HandlerFails(c)

Spec == Init /\ [][Next]_vars

----------------------------------------------------------------------------
(***************************************************************************)
(* Properties                                                              *)
(***************************************************************************)

HandlerPcs == {"idle", "register", "accept", "latest", "scan", "live", "close",
               "unsubscribe", "closeCh"}
HubPcs == {"connect", "wait", "closeSubs", "drain", "exited"}

\* Every variable has its type and every queue its bound.
TypeOK ==
  /\ table \subseteq Heights /\ late \subseteq table
  /\ transit \in Seq(Heights) /\ Len(transit) <= MaxTransit
  /\ hubState \in {"pending", "running", "degraded", "stopped"}
  /\ hpc \in HubPcs /\ ctx \in {"live", "canceled"}
  /\ mutex \in Clients \cup {NoClient} /\ subs \subseteq Clients
  /\ perSubject \in [Subjects -> Nat]
  /\ cpc \in [Clients -> HandlerPcs]
  /\ from \in [Clients -> FromHeights \cup {0}] /\ end \in [Clients -> 0..MaxHeight]
  /\ lastSent \in [Clients -> Nat]
  /\ \A c \in Clients : buf[c] \in Seq(Heights) /\ Len(buf[c]) <= BufSize
  /\ lagged \in [Clients -> 0..1] /\ closed \in [Clients -> {"no", "yes"}]
  /\ closes \in [Clients -> 0..1]
  /\ sent \in [Clients -> SUBSET Heights] /\ beyond \in [Clients -> SUBSET Heights]

\* A channel is closed at most once, and dispatch never sends on a closed one,
\* however Close, a lost LISTEN connection and the shutdown interleave.
ChannelsCloseOnce ==
  \A c \in Clients : c \in subs \/ cpc[c] = "closeCh" => closes[c] = 0

\* The per-subject counts are those of the registered connections, and within
\* the cap, although closeAllSubs resets them behind the handlers' backs.
CapExact ==
  \A s \in Subjects :
    /\ perSubject[s] = Cardinality({c \in subs : SubjectOf[c] = s})
    /\ perSubject[s] <= PerSubjectMax

\* No connection stays registered at a hub that does not listen: it would wait
\* for frames that never come.  The state flips before the subscribers are
\* closed, so a Subscribe in the middle of it is either closed or refused.
NoOrphans == hpc = "exited" \/ (hpc = "connect" /\ ctx = "live") => subs = {}

\* A connection with from_height has received, up to its last frame, every
\* stored momentum from there on: none falls between the replay and the live
\* events, also of those committed while the replay was between its two
\* queries, and none is lost to a full buffer unnoticed.  Excepted are heights
\* stored late, and those already stored when a replay was cut short by its cap.
GapFree ==
  \A c \in Clients :
    cpc[c] = "live" /\ from[c] > 0 =>
      \A h \in table :
        from[c] <= h /\ h <= lastSent[c] => h \in sent[c] \cup late \cup beyond[c]

\* A connection that lost an event still has one to take, and with it to find
\* out: the counter is only looked at when an event arrives.
LaggedNoticed ==
  \A c \in Clients : cpc[c] = "live" /\ lagged[c] > 0 => buf[c] # <<>>

----------------------------------------------------------------------------
(***************************************************************************)
(* The inductive invariant of the hub and its registered connections       *)
(***************************************************************************)

\* The part of the type invariant the others need.
RegType ==
  /\ subs \subseteq Clients /\ IsFiniteSet(subs)
  /\ perSubject \in [Subjects -> Int]
  /\ cpc \in [Clients -> HandlerPcs]
  /\ buf \in [Clients -> Seq(Heights)]
  /\ transit \in Seq(Heights)
  /\ lagged \in [Clients -> Nat]
  /\ closed \in [Clients -> {"no", "yes"}] /\ closes \in [Clients -> Nat]

\* Who holds the mutex, and what the check under it has established.
MutexInv ==
  \A c \in Clients :
    /\ cpc[c] = "register" <=> mutex = c
    /\ cpc[c] = "register" => perSubject[SubjectOf[c]] < PerSubjectMax

\* Whoever sets the flag first closes the channel: a registered connection is
\* unflagged until its own Close, and the hub closes no flagged channel.
CloseInv ==
  \A c \in Clients :
    /\ closed[c] = "no" => closes[c] = 0
    /\ cpc[c] \in {"idle", "register"} =>
         c \notin subs /\ closed[c] = "no" /\ closes[c] = 0 /\ lagged[c] = 0
    /\ cpc[c] = "closeCh" => c \notin subs
    /\ cpc[c] \in {"unsubscribe", "closeCh"} => closed[c] = "yes" /\ closes[c] = 0
    /\ c \in subs => closes[c] = 0 /\ (cpc[c] # "unsubscribe" => closed[c] = "no")

\* A hub that is not listening, and not about to close its subscribers, has
\* none, and nobody is between Subscribe's check and its registration.
HubInv ==
  /\ hpc \in {"connect", "closeSubs"} /\ ctx = "live" => hubState # "running"
  /\ hpc \in {"drain", "exited"} => ctx = "canceled" /\ hubState = "stopped"
  /\ hpc = "exited" \/ (hpc = "connect" /\ ctx = "live") => subs = {} /\ mutex = NoClient

\* From the registration to the handler's return, an event lost leaves one in
\* the channel.
LagInv ==
  \A c \in Clients :
    cpc[c] \in {"accept", "latest", "scan", "live"} /\ lagged[c] > 0 => buf[c] # <<>>

RegistryInv == RegType /\ MutexInv /\ CloseInv /\ HubInv /\ CapExact /\ LagInv

----------------------------------------------------------------------------
(***************************************************************************)
(* The inductive invariant of the frames of a connection                   *)
(***************************************************************************)

\* Only a stored momentum is notified.
QueueInv ==
  /\ \A i \in 1..Len(transit) : transit[i] \in table
  /\ \A c \in Clients : \A i \in 1..Len(buf[c]) : buf[c][i] \in table

\* Before it goes live a handler has sent no frame.
FrameInv ==
  \A c \in Clients :
    /\ cpc[c] # "live" => lastSent[c] = 0 /\ sent[c] = {}
    /\ cpc[c] = "live" /\ from[c] > 0 => lastSent[c] < from[c] \/ lastSent[c] \in table

\* A connection with from_height that has read the latest height: what the
\* range does not reach is left to the live events.
Replays(c) == cpc[c] = "scan" \/ (cpc[c] = "live" /\ from[c] > 0)

\* The stored momentums such a connection has not received, will not get from
\* the scan, and will not get from the REST API either.
Owed(c) ==
  {h \in table : /\ IF cpc[c] = "scan" THEN end[c] < h ELSE from[c] <= h
                 /\ h \notin sent[c] \cup late \cup beyond[c]}

\* A momentum still owed is above the last frame.  Until the connection loses
\* an event no greater one waits before it in the channel, and while the hub
\* serves the connection it is on its way: in the channel, or in transit with
\* no greater one before it.
InOrder(c, h) ==
  /\ h > lastSent[c]
  /\ lagged[c] = 0 => \A i \in 1..Len(buf[c]) :
       buf[c][i] > h => \E j \in 1..(i - 1) : buf[c][j] = h
  /\ lagged[c] = 0 /\ c \in subs /\ hpc = "wait" =>
       \/ \E j \in 1..Len(buf[c]) : buf[c][j] = h
       \/ \E j \in 1..Len(transit) :
            transit[j] = h /\ \A i \in 1..(j - 1) : transit[i] <= h

OwedInv ==
  \A c \in Clients : Replays(c) => \A h \in Owed(c) : InOrder(c, h)

FramesInv == TypeOK /\ QueueInv /\ FrameInv /\ OwedInv
=============================================================================
