---------------------------- MODULE MomentumSync ----------------------------
(***************************************************************************)
(* How one nom-indexer process follows the chain: the catch-up loop, the   *)
(* live subscription, the client swap that the watchdog performs under     *)
(* them, the gap-filling backfill, and process crashes.                    *)
(*                                                                         *)
(* Code: internal/indexer/indexer.go (Run, sync, runSubscriptionLoop,      *)
(* runSubscriptionSession, swapActiveClient, Backfill), the transaction of *)
(* internal/indexer/processor.go, and the start-up of cmd/indexer.         *)
(*                                                                         *)
(* The nodes serve one chain of momentums 1, 2, 3, ...; frontier[n] is how *)
(* much of it node n has.  A momentum and its account blocks are immutable *)
(* once served, so a momentum is just its height.  What processMomentum    *)
(* writes is kept as far as the sync logic depends on it: is there a row,  *)
(* does it have all its account blocks, how often were its counters added. *)
(***************************************************************************)
EXTENDS Naturals

CONSTANTS
  Nodes,        \* the node pool
  Primary,      \* its entry 0, the node cmd/backfill talks to
  MaxHeight,    \* bound: length of the chain
  TxHeights,    \* heights whose momentum has account blocks
  BatchSize,    \* momentums per catch-up request (100 in the code)
  MaxLinks,     \* bound: connections opened by one process
  MaxFaults,    \* bound: RPC or database errors not caused by a lost connection
  MaxCrashes,   \* bound: crashes of the process
  MaxTools      \* bound: runs of cmd/backfill

ASSUME SyncAssumption ==
  /\ Primary \in Nodes
  /\ MaxHeight \in Nat \ {0}
  /\ TxHeights \subseteq 1..MaxHeight
  /\ BatchSize \in Nat \ {0}
  /\ MaxLinks \in Nat \ {0}
  /\ MaxFaults \in Nat
  /\ MaxCrashes \in Nat
  /\ MaxTools \in Nat

Heights == 1..MaxHeight

\* A momentum's rows: none, the momentum row without all of its account
\* blocks, or everything.
Status == {"absent", "partial", "full"}

\* The two runs of Indexer.Backfill: at start-up (BACKFILL_ON_STARTUP) and
\* the cmd/backfill tool, a process of its own beside the indexer.
Jobs == {"startup", "tool"}

VARIABLES
  frontier,   \* node -> height of its frontier momentum
  stored,     \* height -> Status: tables momentums and account_blocks
  applied,    \* height -> committed processMomentum transactions
  emitted,    \* heights whose webhook events were handed to the dispatcher
  pc,         \* where the main goroutine is
  stage,      \* "initial" in the first sync, called from Run; then "loop"
  pillars,    \* pillarNameToOwner: "empty" or "loaded"
  cursor,     \* sync's dbHeight
  next,       \* the height being processed ...
  last,       \* ... and the last one of this batch
  link,       \* number of the connection activeClient is using
  node,       \* the node at its other end
  conn,       \* it is "up" or "lost"
  owed,       \* goroutines between a connection change and their signal
  restart,    \* signals held by restartSubCh (its capacity is 1)
  sub,        \* connection of the session's subscription, 0 when none
  subNode,    \* the node it is on
  subConn,    \* "up" while that connection still delivers
  recvd,      \* last height the session took from its channel
  pushed,     \* last height put into the channel
  bpc,        \* job -> "idle", "work", "emit" or "done"
  blist,      \* job -> heights still to be backfilled
  bheight,    \* job -> the height whose events are being emitted
  bclean,     \* job -> "clean" until a momentum of this run fails (history)
  gaveUp,     \* heights a live session left behind (history)
  faults, crashes, tools

chain  == <<frontier>>
db     == <<stored, applied, emitted>>
main   == <<pc, stage, pillars, cursor, next, last>>
client == <<link, node, conn, owed>>
session == <<sub, subNode, subConn, recvd, pushed>>
fill   == <<bpc, blist, bheight, bclean>>
bounds == <<faults, crashes, tools>>

vars == <<chain, db, main, client, restart, session, fill, gaveUp, bounds>>

SyncPcs == {"prime", "readDb", "frontier", "fetch", "process", "emit"}
LivePcs == {"live", "liveFetch", "liveProcess", "liveEmit"}
Pcs == {"down", "backfill", "backoff", "drain", "load", "subscribe"}
         \cup SyncPcs \cup LivePcs

Running == pc \notin {"down", "backfill"}

----------------------------------------------------------------------------
(***************************************************************************)
(* The database and the errors                                             *)
(***************************************************************************)

\* h is what GetLatestHeight returns: MAX(height), 0 for an empty table.
GetLatestHeight(h) ==
  /\ h = 0 \/ (h \in Heights /\ stored[h] # "absent")
  /\ \A k \in Heights : stored[k] # "absent" => k <= h

\* An error that is not due to a lost connection.
Fault == faults < MaxFaults /\ faults' = faults + 1

\* A call through the active client fails: the connection is down, or it errs.
CallFails == \/ conn = "lost" /\ UNCHANGED faults
             \/ Fault

\* What the committed transaction of processMomentum leaves of momentum h.
\* An account block that could not be fetched is skipped and the momentum is
\* committed without it; stored rows are never taken away.
Better(old, new) == IF old = "full" THEN old ELSE new

Commit(h, s) ==
  /\ stored' = [stored EXCEPT ![h] = Better(@, s)]
  /\ applied' = [applied EXCEPT ![h] = @ + 1]

\* processMomentum(h) commits.  reachable: the block lookups can succeed.
ProcessMomentum(h, reachable) ==
  \/ /\ reachable \/ h \notin TxHeights
     /\ Commit(h, "full")
     /\ UNCHANGED faults
  \/ /\ h \in TxHeights
     /\ Commit(h, "partial")
     /\ \/ ~reachable /\ UNCHANGED faults
        \/ Fault

----------------------------------------------------------------------------
(***************************************************************************)
(* Start-up and crashes                                                    *)
(***************************************************************************)

Init ==
  /\ frontier = [n \in Nodes |-> 1]
  /\ stored = [h \in Heights |-> "absent"]
  /\ applied = [h \in Heights |-> 0]
  /\ emitted = {}
  /\ pc = "down" /\ stage = "initial" /\ pillars = "empty"
  /\ cursor = 0 /\ next = 0 /\ last = 0
  /\ link = 0 /\ node = Primary /\ conn = "lost" /\ owed = 0
  /\ restart = 0
  /\ sub = 0 /\ subNode = Primary /\ subConn = "lost"
  /\ recvd = 0 /\ pushed = 0
  /\ bpc = [j \in Jobs |-> "idle"]
  /\ blist = [j \in Jobs |-> {}]
  /\ bheight = [j \in Jobs |-> 0]
  /\ bclean = [j \in Jobs |-> "clean"]
  /\ gaveUp = {}
  /\ faults = 0 /\ crashes = 0 /\ tools = 0

\* cmd/indexer comes up on the first node its start-up probe reaches; one
\* other than the primary goes through StartupSwap, whose swapActiveClient
\* leaves a restart signal behind.  withBackfill is BACKFILL_ON_STARTUP.
Boot(n, withBackfill) ==
  /\ pc = "down"
  /\ pc' = IF withBackfill THEN "backfill" ELSE "prime"
  /\ link' = 1 /\ node' = n /\ conn' = "up" /\ owed' = 0
  /\ restart' = IF n = Primary THEN 0 ELSE 1
  /\ UNCHANGED <<chain, db, stage, pillars, cursor, next, last, session, fill,
                 gaveUp, bounds>>

\* Everything the process holds in memory goes; the database stays.
ProcessGone ==
  /\ pc' = "down" /\ stage' = "initial" /\ pillars' = "empty"
  /\ cursor' = 0 /\ next' = 0 /\ last' = 0
  /\ link' = 0 /\ node' = Primary /\ conn' = "lost" /\ owed' = 0
  /\ restart' = 0
  /\ sub' = 0 /\ subNode' = Primary /\ subConn' = "lost"
  /\ recvd' = 0 /\ pushed' = 0
  /\ bpc' = [bpc EXCEPT !["startup"] = "idle"]
  /\ blist' = [blist EXCEPT !["startup"] = {}]
  /\ bheight' = [bheight EXCEPT !["startup"] = 0]
  /\ bclean' = [bclean EXCEPT !["startup"] = "clean"]

Crash ==
  /\ pc # "down"
  /\ crashes < MaxCrashes
  /\ crashes' = crashes + 1
  /\ ProcessGone
  /\ UNCHANGED <<chain, db, gaveUp, faults, tools>>

----------------------------------------------------------------------------
(***************************************************************************)
(* Catch-up: sync                                                          *)
(***************************************************************************)

\* sync returns an error.  The first sync is called by Run, which returns it:
\* cmd/indexer exits and is restarted.  Later ones are called by
\* runSubscriptionLoop, which waits five seconds and goes on.
SyncError ==
  \/ /\ stage = "initial"
     /\ ProcessGone
  \/ /\ stage = "loop"
     /\ pc' = "backoff"
     /\ cursor' = 0 /\ next' = 0 /\ last' = 0
     /\ UNCHANGED <<stage, pillars, client, restart, session, fill>>

\* updatePillarCache publishes the name -> owner map.
PrimePillarCache ==
  /\ pc = "prime"
  /\ conn = "up"
  /\ pillars' = "loaded"
  /\ pc' = "readDb"
  /\ UNCHANGED <<chain, db, stage, cursor, next, last, client, restart, session,
                 fill, gaveUp, bounds>>

\* Mutation: a failed refresh is only logged.
PrimePillarCacheFailsOpen ==
  /\ pc = "prime"
  /\ CallFails
  /\ pc' = "readDb"
  /\ UNCHANGED <<chain, db, stage, pillars, cursor, next, last, client, restart,
                 session, fill, gaveUp, crashes, tools>>

\* It cannot: sync fails closed.
PrimePillarCacheFails ==
  /\ pc = "prime"
  /\ CallFails
  /\ SyncError
  /\ UNCHANGED <<chain, db, gaveUp, crashes, tools>>

SyncReadDbHeight ==
  /\ pc = "readDb"
  /\ \E h \in 0..MaxHeight : GetLatestHeight(h) /\ cursor' = h
  /\ pc' = "frontier"
  /\ UNCHANGED <<chain, db, stage, pillars, next, last, client, restart, session,
                 fill, gaveUp, bounds>>

\* Mutation: off by one.
SyncCompleteOneShort ==
  /\ pc = "frontier"
  /\ conn = "up"
  /\ cursor + 1 >= frontier[node]
  /\ pc' = "drain"
  /\ stage' = "loop"
  /\ cursor' = 0
  /\ UNCHANGED <<chain, db, pillars, next, last, client, restart, session,
                 fill, gaveUp, bounds>>

\* sync complete: the session starts next.
SyncComplete ==
  /\ pc = "frontier"
  /\ conn = "up"
  /\ cursor >= frontier[node]
  /\ pc' = "drain"
  /\ stage' = "loop"
  /\ cursor' = 0
  /\ UNCHANGED <<chain, db, pillars, next, last, client, restart, session,
                 fill, gaveUp, bounds>>

SyncBehind ==
  /\ pc = "frontier"
  /\ conn = "up"
  /\ cursor < frontier[node]
  /\ pc' = "fetch"
  /\ UNCHANGED <<chain, db, stage, pillars, cursor, next, last, client, restart,
                 session, fill, gaveUp, bounds>>

\* Mutation: the batch is not cut at the node's frontier.
SyncFetchUncut ==
  /\ pc = "fetch"
  /\ conn = "up"
  /\ cursor < frontier[node]
  /\ next' = cursor + 1
  /\ last' = cursor + BatchSize
  /\ cursor' = 0
  /\ pc' = "process"
  /\ UNCHANGED <<chain, db, stage, pillars, client, restart, session,
                 fill, gaveUp, bounds>>

\* GetMomentumsByHeight(cursor + 1, BatchSize), through whichever client is
\* active now.
SyncFetch ==
  /\ pc = "fetch"
  /\ conn = "up"
  /\ cursor < frontier[node]
  /\ next' = cursor + 1
  /\ last' = IF cursor + BatchSize <= frontier[node]
             THEN cursor + BatchSize ELSE frontier[node]
  /\ cursor' = 0
  /\ pc' = "process"
  /\ UNCHANGED <<chain, db, stage, pillars, client, restart, session,
                 fill, gaveUp, bounds>>

\* The list is empty: the client was swapped for one that is behind.
SyncFetchEmpty ==
  /\ pc = "fetch"
  /\ conn = "up"
  /\ cursor >= frontier[node]
  /\ pc' = "readDb"
  /\ cursor' = 0
  /\ UNCHANGED <<chain, db, stage, pillars, next, last, client, restart,
                 session, fill, gaveUp, bounds>>

\* A database or RPC call of the loop fails for good.
SyncCallFails ==
  /\ \/ pc = "readDb" /\ Fault
     \/ pc \in {"frontier", "fetch"} /\ CallFails
  /\ SyncError
  /\ UNCHANGED <<chain, db, gaveUp, crashes, tools>>

\* On to the next momentum of the batch, or round the loop again.
SyncAdvance ==
  IF next < last
  THEN next' = next + 1 /\ pc' = "process" /\ UNCHANGED last
  ELSE pc' = "readDb" /\ next' = 0 /\ last' = 0

SyncProcess ==
  /\ pc = "process"
  /\ ProcessMomentum(next, conn = "up")
  /\ pc' = "emit"
  /\ UNCHANGED <<chain, emitted, stage, pillars, cursor, next, last, client, restart,
                 session, fill, gaveUp, crashes, tools>>

\* Mutation: the failed momentum is logged and the batch goes on.
SyncProcessSkips ==
  /\ pc = "process"
  /\ Fault
  /\ SyncAdvance
  /\ UNCHANGED <<chain, db, stage, pillars, cursor, client, restart, session,
                 fill, gaveUp, crashes, tools>>

\* The transaction is rolled back and sync returns.
SyncProcessFails ==
  /\ pc = "process"
  /\ Fault
  /\ SyncError
  /\ UNCHANGED <<chain, db, gaveUp, crashes, tools>>

\* After the commit: the webhook events, then the next momentum of the batch.
SyncEmit ==
  /\ pc = "emit"
  /\ emitted' = emitted \cup {next}
  /\ SyncAdvance
  /\ UNCHANGED <<chain, stored, applied, stage, pillars, cursor, client, restart,
                 session, fill, gaveUp, bounds>>

\* The five second wait after a failed catch-up; the session follows.
BackoffOver ==
  /\ pc = "backoff"
  /\ pc' = "drain"
  /\ UNCHANGED <<chain, db, stage, pillars, cursor, next, last, client, restart,
                 session, fill, gaveUp, bounds>>

Sync ==
  \/ PrimePillarCache \/ PrimePillarCacheFails
  \/ SyncReadDbHeight \/ SyncComplete \/ SyncBehind
  \/ SyncFetch \/ SyncFetchEmpty \/ SyncCallFails
  \/ SyncProcess \/ SyncProcessFails \/ SyncEmit
  \/ BackoffOver

----------------------------------------------------------------------------
(***************************************************************************)
(* The live subscription: runSubscriptionLoop and runSubscriptionSession   *)
(***************************************************************************)

\* Take a pending restart signal out of restartSubCh before subscribing.
DrainRestart ==
  /\ pc = "drain"
  /\ restart' = 0
  /\ pc' = "load"
  /\ UNCHANGED <<chain, db, stage, pillars, cursor, next, last, client, session,
                 fill, gaveUp, bounds>>

\* client() is read here; the subscribe request then goes to that client.
LoadClient ==
  /\ pc = "load"
  /\ sub' = link /\ subNode' = node /\ subConn' = conn
  /\ pc' = "subscribe"
  /\ UNCHANGED <<chain, db, stage, pillars, cursor, next, last, client, restart,
                 recvd, pushed, fill, gaveUp, bounds>>

\* What the node has by now will never be sent on this subscription.
Window(n) == {h \in Heights : h <= frontier[n] /\ stored[h] = "absent"}

\* Mutation: the pending signal is drained after subscribing, not before.
SubscribeThenDrain ==
  /\ pc = "subscribe"
  /\ subConn = "up"
  /\ recvd' = frontier[subNode] /\ pushed' = frontier[subNode]
  /\ gaveUp' = gaveUp \cup Window(subNode)
  /\ restart' = 0
  /\ pc' = "live"
  /\ UNCHANGED <<chain, db, stage, pillars, cursor, next, last, client,
                 sub, subNode, subConn, fill, bounds>>

\* ToMomentums succeeds: the node pushes every momentum from now on.
Subscribe ==
  /\ pc = "subscribe"
  /\ subConn = "up"
  /\ recvd' = frontier[subNode] /\ pushed' = frontier[subNode]
  /\ gaveUp' = gaveUp \cup Window(subNode)
  /\ pc' = "live"
  /\ UNCHANGED <<chain, db, stage, pillars, cursor, next, last, client, restart,
                 sub, subNode, subConn, fill, bounds>>

\* The session returns (deferred Unsubscribe) and the catch-up follows.
SessionOver ==
  /\ pc' = "prime"
  /\ sub' = 0 /\ subNode' = Primary /\ subConn' = "lost"
  /\ recvd' = 0 /\ pushed' = 0

SubscribeFails ==
  /\ pc = "subscribe"
  /\ \/ subConn = "lost" /\ UNCHANGED faults
     \/ Fault
  /\ SessionOver
  /\ UNCHANGED <<chain, db, stage, pillars, cursor, next, last, client, restart,
                 fill, gaveUp, crashes, tools>>

\* The three cases of the session's select.  Whether a dead connection closes
\* the channel is up to the SDK.
SessionRestart ==
  /\ pc = "live"
  /\ restart = 1
  /\ restart' = 0
  /\ SessionOver
  /\ UNCHANGED <<chain, db, stage, pillars, cursor, next, last, client, fill,
                 gaveUp, bounds>>

SessionChannelClosed ==
  /\ pc = "live"
  /\ subConn = "lost" /\ recvd = pushed
  /\ SessionOver
  /\ UNCHANGED <<chain, db, stage, pillars, cursor, next, last, client, restart,
                 fill, gaveUp, bounds>>

\* One message of the channel is a list of one or more momentums.
SessionReceive ==
  /\ pc = "live"
  /\ \E k \in Heights :
       /\ recvd < k /\ k <= pushed
       /\ next' = recvd + 1 /\ last' = k /\ recvd' = k
  /\ pc' = "liveFetch"
  /\ UNCHANGED <<chain, db, stage, pillars, cursor, client, restart, sub, subNode,
                 subConn, pushed, fill, gaveUp, bounds>>

\* On to the next momentum of the message, or back to the select.
LiveAdvance ==
  IF next < last
  THEN next' = next + 1 /\ pc' = "liveFetch" /\ UNCHANGED last
  ELSE pc' = "live" /\ next' = 0 /\ last' = 0

\* The details are fetched from the client active now, not the subscribed one.
LiveFetch ==
  /\ pc = "liveFetch"
  /\ conn = "up" /\ next <= frontier[node]
  /\ pc' = "liveProcess"
  /\ UNCHANGED <<chain, db, stage, pillars, cursor, next, last, client, restart,
                 session, fill, gaveUp, bounds>>

\* An error or an empty list: the momentum is logged and left behind.
LiveFetchFails ==
  /\ pc = "liveFetch"
  /\ \/ conn = "up" /\ next > frontier[node] /\ UNCHANGED faults
     \/ CallFails
  /\ gaveUp' = gaveUp \cup {next}
  /\ LiveAdvance
  /\ UNCHANGED <<chain, db, stage, pillars, cursor, client, restart, session,
                 fill, crashes, tools>>

LiveProcess ==
  /\ pc = "liveProcess"
  /\ ProcessMomentum(next, conn = "up")
  /\ pc' = "liveEmit"
  /\ UNCHANGED <<chain, emitted, stage, pillars, cursor, next, last, client, restart,
                 session, fill, gaveUp, crashes, tools>>

\* Rolled back, logged and left behind.
LiveProcessFails ==
  /\ pc = "liveProcess"
  /\ Fault
  /\ gaveUp' = gaveUp \cup {next}
  /\ LiveAdvance
  /\ UNCHANGED <<chain, db, stage, pillars, cursor, client, restart, session,
                 fill, crashes, tools>>

LiveEmit ==
  /\ pc = "liveEmit"
  /\ emitted' = emitted \cup {next}
  /\ LiveAdvance
  /\ UNCHANGED <<chain, stored, applied, stage, pillars, cursor, client, restart,
                 session, fill, gaveUp, bounds>>

Live ==
  \/ DrainRestart \/ LoadClient \/ Subscribe \/ SubscribeFails
  \/ SessionRestart \/ SessionReceive
  \/ LiveFetch \/ LiveFetchFails
  \/ LiveProcess \/ LiveProcessFails \/ LiveEmit

----------------------------------------------------------------------------
(***************************************************************************)
(* The nodes and the connections                                           *)
(***************************************************************************)

Subscribed == pc \in LivePcs

\* Node n receives a momentum and pushes it to its subscriber.
NodeAdvance(n) ==
  /\ frontier[n] < MaxHeight
  /\ frontier' = [frontier EXCEPT ![n] = @ + 1]
  /\ pushed' = IF Subscribed /\ subConn = "up" /\ subNode = n THEN pushed + 1 ELSE pushed
  /\ UNCHANGED <<db, main, client, restart, sub, subNode, subConn, recvd, fill, gaveUp,
                 bounds>>

\* The watchdog replaces the client; its signal is still to come.
SwapActiveClient(n) ==
  /\ Running
  /\ link < MaxLinks
  /\ n # node
  /\ link' = link + 1 /\ node' = n /\ conn' = "up"
  /\ owed' = owed + 1
  /\ UNCHANGED <<chain, db, main, restart, session, fill, gaveUp, bounds>>

\* The active client's connection breaks; what was under way on it is lost.
ConnectionLost ==
  /\ Running
  /\ conn = "up" /\ link < MaxLinks
  /\ conn' = "lost"
  /\ IF sub = link
     THEN /\ subConn' = "lost"
          /\ pushed' \in {p \in 0..MaxHeight : recvd <= p /\ p <= pushed}
     ELSE UNCHANGED <<subConn, pushed>>
  /\ UNCHANGED <<chain, db, main, link, node, owed, restart, sub, subNode, recvd, fill,
                 gaveUp, bounds>>

\* The SDK reconnects on its own and calls OnConnectionEstablished.
ConnectionEstablished ==
  /\ Running
  /\ conn = "lost"
  /\ link' = link + 1 /\ conn' = "up"
  /\ owed' = owed + 1
  /\ UNCHANGED <<chain, db, main, node, restart, session, fill, gaveUp, bounds>>

\* A replaced client is stopped after its grace period.
OldClientStopped ==
  /\ sub # 0 /\ sub # link /\ subConn = "up"
  /\ subConn' = "lost"
  /\ UNCHANGED <<chain, db, main, client, restart, sub, subNode, recvd, pushed, fill,
                 gaveUp, bounds>>

\* Mutation: the send finds no receiver waiting and is dropped.
SignalDropped ==
  /\ owed > 0
  /\ owed' = owed - 1
  /\ UNCHANGED <<chain, db, main, link, node, conn, restart, session, fill, gaveUp, bounds>>

\* The non-blocking send on restartSubCh, of the swap or of the callback.
SignalSubscriptionRestart ==
  /\ owed > 0
  /\ owed' = owed - 1
  /\ restart' = 1
  /\ UNCHANGED <<chain, db, main, link, node, conn, session, fill, gaveUp, bounds>>

\* A tick of the watchdog finds the indexer lagging or stalled.
WatchdogRestart ==
  /\ Running
  /\ restart = 0
  /\ restart' = 1
  /\ UNCHANGED <<chain, db, main, client, session, fill, gaveUp, bounds>>

\* runCachedDataSyncLoop refreshes the pillar cache in the background.
CachedDataRefresh ==
  /\ Running
  /\ conn = "up"
  /\ pillars = "empty"
  /\ pillars' = "loaded"
  /\ UNCHANGED <<chain, db, pc, stage, cursor, next, last, client, restart, session,
                 fill, gaveUp, bounds>>

Environment ==
  \/ \E n \in Nodes : NodeAdvance(n) \/ SwapActiveClient(n)
  \/ ConnectionLost \/ ConnectionEstablished \/ OldClientStopped
  \/ SessionChannelClosed
  \/ SignalSubscriptionRestart \/ WatchdogRestart \/ CachedDataRefresh

----------------------------------------------------------------------------
(***************************************************************************)
(* Backfill                                                                *)
(***************************************************************************)

\* Mutation: only heights without a row are looked for.
MissingRowsOnly(top) ==
  {h \in Heights : h <= top /\ stored[h] = "absent"}

\* Mutation: the scan runs to the node's frontier instead of MAX(height).
MissingUpToFrontier(top) ==
  {h \in Heights : h <= frontier[Primary] /\ stored[h] # "full"}

\* The query: heights up to MAX(height) with no row, and rows with fewer
\* account blocks than tx_count.
MissingHeights(top) ==
  {h \in Heights : h <= top /\ stored[h] # "full"}

JobReachable(j) == j = "tool" \/ conn = "up"
JobNode(j) == IF j = "tool" THEN Primary ELSE node

BackfillScan(j) ==
  /\ bpc[j] = "idle"
  /\ \/ j = "startup" /\ pc = "backfill" /\ UNCHANGED tools
     \/ j = "tool" /\ tools < MaxTools /\ tools' = tools + 1
  /\ \E top \in 0..MaxHeight :
       /\ GetLatestHeight(top)
       /\ blist' = [blist EXCEPT ![j] = MissingHeights(top)]
       /\ bpc' = [bpc EXCEPT ![j] = IF MissingHeights(top) = {} THEN "done" ELSE "work"]
  /\ bclean' = [bclean EXCEPT ![j] = "clean"]
  /\ UNCHANGED <<chain, db, main, client, restart, session, bheight, gaveUp, faults,
                 crashes>>

\* h is the next height of the job's ascending list.
NextMissing(j, h) ==
  /\ bpc[j] = "work"
  /\ h \in blist[j]
  /\ \A k \in blist[j] : h <= k

JobDrops(j, h) ==
  /\ blist' = [blist EXCEPT ![j] = @ \ {h}]
  /\ bpc' = [bpc EXCEPT ![j] = IF blist[j] = {h} THEN "done" ELSE "work"]

\* Fetch and process.  Only the indexer process has webhooks attached.
BackfillProcess(j, h) ==
  /\ NextMissing(j, h)
  /\ JobReachable(j) /\ h <= frontier[JobNode(j)]
  /\ ProcessMomentum(h, TRUE)
  /\ bclean' = [bclean EXCEPT ![j] = IF faults' = faults THEN @ ELSE "dirty"]
  /\ IF j = "startup"
     THEN /\ bpc' = [bpc EXCEPT ![j] = "emit"]
          /\ bheight' = [bheight EXCEPT ![j] = h]
          /\ UNCHANGED blist
     ELSE JobDrops(j, h) /\ UNCHANGED bheight
  /\ UNCHANGED <<chain, emitted, main, client, restart, session, gaveUp, crashes, tools>>

BackfillEmit(j) ==
  /\ bpc[j] = "emit"
  /\ emitted' = emitted \cup {bheight[j]}
  /\ JobDrops(j, bheight[j])
  /\ bheight' = [bheight EXCEPT ![j] = 0]
  /\ UNCHANGED <<chain, stored, applied, main, client, restart, session, bclean, gaveUp,
                 bounds>>

\* The node does not have the momentum, or the request fails: next height.
BackfillFetchFails(j, h) ==
  /\ NextMissing(j, h)
  /\ \/ (~JobReachable(j) \/ h > frontier[JobNode(j)]) /\ UNCHANGED faults
     \/ Fault
  /\ bclean' = [bclean EXCEPT ![j] = "dirty"]
  /\ JobDrops(j, h)
  /\ UNCHANGED <<chain, db, main, client, restart, session, bheight, gaveUp, crashes,
                 tools>>

\* processMomentum fails: backfillMomentumDirect tries to insert the bare row.
BackfillMomentumDirect(j, h) ==
  /\ NextMissing(j, h)
  /\ JobReachable(j) /\ h <= frontier[JobNode(j)]
  /\ Fault
  /\ bclean' = [bclean EXCEPT ![j] = "dirty"]
  /\ JobDrops(j, h)
  /\ \/ UNCHANGED stored
     \/ /\ stored[h] = "absent"
        /\ stored' = [stored EXCEPT ![h] = IF h \in TxHeights THEN "partial" ELSE "full"]
  /\ UNCHANGED <<chain, applied, emitted, main, client, restart, session, bheight,
                 gaveUp, crashes, tools>>

\* main goes on with Run once the start-up backfill has returned, also when
\* its query failed.
BackfillReturns ==
  /\ pc = "backfill"
  /\ \/ bpc["startup"] = "done" /\ UNCHANGED faults
     \/ bpc["startup"] = "idle" /\ Fault
  /\ pc' = "prime"
  /\ bpc' = [bpc EXCEPT !["startup"] = "idle"]
  /\ bclean' = [bclean EXCEPT !["startup"] = "clean"]
  /\ UNCHANGED <<chain, db, stage, pillars, cursor, next, last, client, restart, session,
                 blist, bheight, gaveUp, crashes, tools>>

\* cmd/backfill is through, or is stopped on its way.
ToolExits ==
  /\ bpc["tool"] # "idle"
  /\ bpc' = [bpc EXCEPT !["tool"] = "idle"]
  /\ blist' = [blist EXCEPT !["tool"] = {}]
  /\ bclean' = [bclean EXCEPT !["tool"] = "clean"]
  /\ UNCHANGED <<chain, db, main, client, restart, session, bheight,
                 gaveUp, bounds>>

Backfill(j) ==
  \/ BackfillScan(j)
  \/ \E h \in Heights : \/ BackfillProcess(j, h)
                        \/ BackfillFetchFails(j, h)
                        \/ BackfillMomentumDirect(j, h)
  \/ BackfillEmit(j)

----------------------------------------------------------------------------

Startup == \E n \in Nodes, withBackfill \in BOOLEAN : Boot(n, withBackfill)

Next ==
  \/ Startup \/ Crash
  \/ Sync \/ Live \/ Environment
  \/ \E j \in Jobs : Backfill(j)
  \/ BackfillReturns \/ ToolExits

(***************************************************************************)
(* Fairness: goroutines are scheduled, the SDK keeps reconnecting, and the *)
(* container is restarted (restart: unless-stopped).  Nothing is assumed   *)
(* of the nodes, of the operator or of errors.                             *)
(***************************************************************************)
Fairness ==
  /\ WF_vars(Startup)
  /\ WF_vars(Sync)
  /\ WF_vars(Live)
  /\ WF_vars(ConnectionEstablished)
  /\ WF_vars(SignalSubscriptionRestart)
  /\ WF_vars(Backfill("startup"))
  /\ WF_vars(BackfillReturns)

Spec == Init /\ [][Next]_vars

FairSpec == Spec /\ Fairness

----------------------------------------------------------------------------
(***************************************************************************)
(* Properties                                                              *)
(***************************************************************************)

DbType ==
  /\ stored \in [Heights -> Status]
  /\ applied \in [Heights -> Nat]
  /\ emitted \subseteq Heights
MainType ==
  /\ pc \in Pcs /\ stage \in {"initial", "loop"} /\ pillars \in {"empty", "loaded"}
  /\ cursor \in 0..MaxHeight /\ next \in 0..MaxHeight /\ last \in 0..MaxHeight
ClientType ==
  /\ link \in 0..MaxLinks /\ node \in Nodes /\ conn \in {"up", "lost"} /\ owed \in Nat
SessionType ==
  /\ sub \in 0..MaxLinks /\ subNode \in Nodes /\ subConn \in {"up", "lost"}
  /\ recvd \in 0..MaxHeight /\ pushed \in 0..MaxHeight
FillType ==
  /\ bpc \in [Jobs -> {"idle", "work", "emit", "done"}]
  /\ blist \in [Jobs -> SUBSET Heights]
  /\ bheight \in [Jobs -> 0..MaxHeight]
  /\ bclean \in [Jobs -> {"clean", "dirty"}]
BoundsType ==
  /\ faults \in 0..MaxFaults /\ crashes \in 0..MaxCrashes /\ tools \in 0..MaxTools

\* Every variable has its type; the heights a loop handles exist.
TypeOK ==
  /\ frontier \in [Nodes -> Heights]
  /\ DbType
  /\ MainType
  /\ ClientType
  /\ restart \in 0..1
  /\ SessionType
  /\ FillType
  /\ gaveUp \subseteq Heights
  /\ BoundsType

\* The session listens, or is about to, on a connection that was replaced.
StaleSession == pc \in LivePcs \cup {"subscribe"} /\ sub # link

\* Whenever the session is bound to a replaced client or connection, a restart
\* signal is in restartSubCh or a goroutine is about to send one: draining the
\* channel before client() is read never swallows the one signal that matters.
StaleSessionSignalled == StaleSession => restart = 1 \/ owed > 0

\* sync and the session never process a momentum with an empty pillar map,
\* however the process was started: sync fails closed.
PrimedBeforeProcessing == pc \notin {"down", "backfill", "prime"} => pillars = "loaded"

\* A height below MAX(height) with no row was passed over by a live session:
\* produced between the catch-up's last look and the subscription, or
\* received and not stored.  Catch-up, failover, reconnection, crashes and
\* backfill leave no hole of their own.
NoOtherLoss ==
  \A h, k \in Heights :
    h < k /\ stored[k] # "absent" /\ stored[h] = "absent" => h \in gaveUp

\* When the start-up backfill returns and no momentum of it failed, every
\* height up to MAX(height) is complete, even with cmd/backfill at work.
StartupBackfillRepairs ==
  pc = "backfill" /\ bpc["startup"] = "done" /\ bclean["startup"] = "clean" =>
    \A h, k \in Heights : h <= k /\ stored[k] # "absent" => stored[h] = "full"

\* The catch-up loop commits a momentum only on top of MAX(height): it never
\* skips one and never repeats one, although it reads the height once per
\* batch and cmd/backfill writes to the same table meanwhile.
SyncCommits == pc = "process" /\ pc' = "emit"
CatchUpAppends == [][SyncCommits => GetLatestHeight(next - 1)]_vars

\* A session on a replaced client does not go on for ever.
StaleSessionEnds == StaleSession ~> ~StaleSession

\* A catch-up that starts when every node has height h stores it (or a later
\* one), unless it reports an error or the process ends.
CatchUpReaches ==
  \A h \in Heights :
    (pc = "prime" /\ \A n \in Nodes : frontier[n] >= h)
      ~> (pc \in {"down", "backoff"} \/ \E k \in Heights : k >= h /\ stored[k] # "absent")

(***************************************************************************)
(* The inductive strengthening of the invariants above                     *)
(***************************************************************************)

Below(h) == \A k \in Heights : k <= h /\ stored[k] = "absent" => k \in gaveUp

\* Where each part of the code may find its loop variables.
LoopInv ==
  /\ pc \in {"frontier", "fetch"} => GetLatestHeight(cursor)
  /\ pc = "process" => next \in 1..last /\ GetLatestHeight(next - 1)
  /\ pc = "emit" => next \in 1..last /\ GetLatestHeight(next)
  /\ pc \in LivePcs \ {"live"} => next \in 1..last /\ last = recvd
  /\ pc \in {"down", "backfill"} => stage = "initial"
  /\ stage = "loop" => pillars = "loaded"
  /\ pc \in LivePcs \cup {"drain", "load", "subscribe", "backoff"} => stage = "loop"

\* Connections: a lost one can be replaced, a subscription delivers no more
\* than its node has.
LinkInv ==
  /\ conn = "lost" => link < MaxLinks
  /\ pc \in LivePcs => pushed <= frontier[subNode]

\* What a live session has dealt with is stored or given up.
LossInv ==
  /\ pc = "live" => Below(recvd)
  /\ pc \in {"liveFetch", "liveProcess"} => Below(next - 1)
  /\ pc = "liveEmit" => Below(next)

\* A backfill works below MAX(height) and, until something fails, on every
\* height that needs it.
BackfillInv ==
  /\ \A j \in Jobs : \A h \in blist[j] : \E k \in Heights : h <= k /\ stored[k] # "absent"
  /\ \A j \in Jobs : bpc[j] \in {"idle", "done"} => blist[j] = {}
  /\ bpc["tool"] # "emit"
  /\ bpc["startup"] = "emit" => bheight["startup"] \in blist["startup"]
  /\ bpc["startup"] # "idle" => pc = "backfill"
  /\ bpc["startup"] = "emit" => stored[bheight["startup"]] = "full" \/ bclean["startup"] = "dirty"
  /\ bpc["startup"] # "idle" /\ bclean["startup"] = "clean" =>
       \A h, k \in Heights :
         h <= k /\ stored[k] # "absent" => stored[h] = "full" \/ h \in blist["startup"]

IInv ==
  /\ TypeOK
  /\ StaleSessionSignalled
  /\ PrimedBeforeProcessing
  /\ NoOtherLoss
  /\ LoopInv
  /\ LinkInv
  /\ LossInv
  /\ BackfillInv

(***************************************************************************)
(* What the documentation says and the code does not do                    *)
(***************************************************************************)

\* docs/architecture/sync-and-recovery.md: MAX(height) is a reliable cursor,
\* so nothing below it is missing.
MaxIsReliableCursor ==
  \A h, k \in Heights : h < k /\ stored[k] # "absent" => stored[h] # "absent"

\* docs/architecture/sync-and-recovery.md: the per-momentum rollback handles
\* the failures of the per-block calls, so a stored momentum is complete.
StoredMomentumsComplete == \A h \in Heights : stored[h] # "partial"

\* docs/architecture/overview.md: processing a momentum again is safe; the
\* counters that are added on every commit are added once.
CountersAddedOnce == \A h \in Heights : applied[h] <= 1

\* internal/indexer/processor.go: after a crash the height is re-processed and
\* its events fire, so none is missing once catch-up is through.
EventsAtLeastOnce ==
  pc = "drain" => \A h \in Heights : stored[h] # "absent" => h \in emitted
=============================================================================
