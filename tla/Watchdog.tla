------------------------------ MODULE Watchdog ------------------------------
(***************************************************************************)
(* The sync watchdog: it probes the active node on every tick, classifies  *)
(* what it sees, counts streaks, fails over to a later node of the pool,   *)
(* fails back to an earlier one, and publishes a status row, from which the*)
(* API answers /readyz; the indexer's own /readyz reads the state itself.  *)
(*                                                                         *)
(* Code: internal/indexer/watchdog.go and nodepool.go, StartupSwap and     *)
(* HealthSnapshot of indexer.go, the start-up probe of cmd/indexer, readyz *)
(* of internal/api/router/router.go.                                       *)
(*                                                                         *)
(* Heights and times appear only through the comparisons classify makes:   *)
(* a node is down (its probe errs), behind (target - frontier exceeds      *)
(* NodeDriftThreshold) or at head; the database is near or far from the    *)
(* frontier (IndexerDriftThreshold); the last progress is recent or stale  *)
(* (StallThreshold).  Each probe of a tick sees the node as it is at that  *)
(* moment, and everything may change between two of them.                  *)
(***************************************************************************)
EXTENDS Naturals

CONSTANTS
  NumNodes,         \* nodes 0 .. NumNodes - 1; 0 is the primary
  Genesis,          \* node -> the genesis hash of the chain it serves
  NoChain,          \* chainIdentifier's empty string
  UnhealthyStreak,  \* bad ticks before failover
  FailbackStreak,   \* good probes before failback
  UnhealthyStreakForReady,  \* bad ticks before the API is not ready
  MaxStreak,        \* bound: where the counters saturate
  MaxErrors         \* bound: database errors and clients that cannot be built

Idx == 0..NumNodes-1
Chains == {Genesis[i] : i \in Idx}

ASSUME WatchdogAssumption ==
  /\ NumNodes \in Nat \ {0}
  /\ NoChain \notin Chains
  /\ UnhealthyStreak \in Nat \ {0}
  /\ FailbackStreak \in Nat \ {0}
  /\ MaxStreak \in Nat
  /\ UnhealthyStreakForReady \in Nat \ {0}
  /\ UnhealthyStreak <= MaxStreak /\ FailbackStreak <= MaxStreak
  /\ UnhealthyStreakForReady <= MaxStreak
  /\ MaxErrors \in Nat

VARIABLES
  cond,       \* node -> "down", "behind" or "head"
  lag,        \* the database is "near" or "far" from the active frontier
  progress,   \* lastProgressAt is "recent" or "stale"
  client,     \* the node activeClient talks to
  active,     \* syncState.activeIdx
  healthy,    \* syncState.streaks[i].healthy
  unhealthy,  \* syncState.streaks[i].unhealthy
  chain,      \* syncState.chainIdentifier
  failedOver, \* syncState.failedOverAt: "nil" or "set"
  wpc,        \* where the goroutine is
  tidx,       \* runWatchdogTick's activeIdx ...
  tchain,     \* ... its chainID ...
  tprobe,     \* ... the result of its probe ...
  class,      \* ... and its class
  cand,       \* the node a loop is looking at
  row,        \* indexer_sync_status: its node (NumNodes before there is a row) and
              \* what /readyz makes of its other columns
  good,       \* node -> good failback probes in a row since the last swap (history)
  errors

nodes  == <<cond, lag, progress>>
state  == <<active, healthy, unhealthy, chain, failedOver>>
tick   == <<tidx, tchain, tprobe, class, cand>>

vars == <<nodes, client, state, wpc, tick, row, good, errors>>

Conds == {"down", "behind", "head"}
Classes == {"synced", "indexer_lagging", "node_lagging", "stalled", "probe_failed"}
Pcs == {"off", "startup", "startupSwap", "idle", "classify", "failover", "failoverSwap",
        "failback", "failbackSwap", "publish"}

NoStreaks == [i \in Idx |-> 0]

\* Only comparisons with the two streak thresholds are made of a counter.
Inc(n) == IF n < MaxStreak THEN n + 1 ELSE n

\* A database error, or a client that cannot be built.
Error == errors < MaxErrors /\ errors' = errors + 1

----------------------------------------------------------------------------
(***************************************************************************)
(* classify and react                                                      *)
(***************************************************************************)

\* The class of a tick that probed p.
classify(p) ==
  CASE p = "down" -> "probe_failed"
    [] p # "down" /\ progress = "stale" ->
         IF lag = "far" /\ p = "head" THEN "indexer_lagging" ELSE "stalled"
    [] p = "behind" /\ progress = "recent" -> "node_lagging"
    [] p = "head" /\ progress = "recent" ->
         IF lag = "far" THEN "indexer_lagging" ELSE "synced"

NodeProblem(c) == c \in {"node_lagging", "stalled", "probe_failed"}

\* react's new streaks for the active node.
reactHealthy(c) ==
  CASE c = "synced" -> Inc(healthy[tidx])
    [] c = "node_lagging" -> 0
    [] OTHER -> healthy[tidx]

reactUnhealthy(c) ==
  CASE c = "synced" -> 0
    [] NodeProblem(c) -> Inc(unhealthy[tidx])
    [] OTHER -> unhealthy[tidx]

\* intent.failoverIdx # -1.
wantsFailover(c) == NodeProblem(c) /\ reactUnhealthy(c) >= UnhealthyStreak

\* Mutation: gated on "synced" alone.
FailbackOnlyWhenSynced(c) == tidx > 0 /\ c = "synced"

canAttemptFailback(c) == tidx > 0 /\ c \in {"synced", "indexer_lagging"}

----------------------------------------------------------------------------
(***************************************************************************)
(* Start-up and crashes                                                    *)
(***************************************************************************)

Init ==
  /\ cond = [i \in Idx |-> "head"] /\ lag = "near" /\ progress = "recent"
  /\ client = 0
  /\ active = 0 /\ healthy = NoStreaks /\ unhealthy = NoStreaks
  /\ chain = NoChain /\ failedOver = "nil"
  /\ wpc = "off"
  /\ tidx = 0 /\ tchain = NoChain /\ tprobe = "down" /\ class = "synced"
  /\ cand = 0
  /\ row = [node |-> NumNodes, verdict |-> "ready"]
  /\ good = NoStreaks
  /\ errors = 0

\* What the process held in memory is gone; NewIndexer starts on the primary
\* with an empty syncState.
ProcessGone ==
  /\ wpc' = "off"
  /\ client' = 0
  /\ active' = 0 /\ healthy' = NoStreaks /\ unhealthy' = NoStreaks
  /\ chain' = NoChain /\ failedOver' = "nil"
  /\ tidx' = 0 /\ tchain' = NoChain /\ tprobe' = "down" /\ class' = "synced" /\ cand' = 0
  /\ good' = NoStreaks

Crash ==
  /\ wpc # "off"
  /\ ProcessGone
  /\ UNCHANGED <<nodes, row, errors>>

Boot ==
  /\ wpc = "off"
  /\ wpc' = "startup"
  /\ UNCHANGED <<nodes, client, state, tick, row, good, errors>>

\* On to the next fallback; after the last the process gives up.
NextStartupNode ==
  \/ /\ cand + 1 < NumNodes
     /\ wpc' = "startup" /\ cand' = cand + 1
     /\ UNCHANGED <<client, state, tidx, tchain, tprobe, class, good>>
  \/ /\ cand + 1 = NumNodes
     /\ ProcessGone

StartupProbeFails ==
  /\ wpc = "startup"
  /\ cond[cand] = "down"
  /\ NextStartupNode
  /\ UNCHANGED <<nodes, row, errors>>

StartupProbeOk ==
  /\ wpc = "startup"
  /\ cond[cand] # "down"
  /\ wpc' = IF cand = 0 THEN "idle" ELSE "startupSwap"
  /\ UNCHANGED <<nodes, client, state, tick, row, good, errors>>

\* swapActiveClient.  Its signal to the session is in MomentumSync.
SwapActiveClient ==
  /\ client' = cand
  /\ good' = NoStreaks

StartupSwap ==
  /\ wpc = "startupSwap"
  /\ SwapActiveClient
  /\ active' = cand /\ failedOver' = "set"
  /\ wpc' = "idle"
  /\ UNCHANGED <<nodes, healthy, unhealthy, chain, tick, row, errors>>

StartupSwapFails ==
  /\ wpc = "startupSwap"
  /\ Error
  /\ NextStartupNode
  /\ UNCHANGED <<nodes, row>>

----------------------------------------------------------------------------
(***************************************************************************)
(* One tick                                                                *)
(***************************************************************************)

\* runWatchdogTick returns: its local variables are gone.
TickOver ==
  /\ wpc' = "idle"
  /\ tidx' = 0 /\ tchain' = NoChain /\ tprobe' = "down" /\ class' = "synced" /\ cand' = 0

\* The snapshot under the read lock, then the probe of the active node.
TickStart ==
  /\ wpc = "idle"
  /\ tidx' = active /\ tchain' = chain
  /\ tprobe' = cond[active]
  /\ wpc' = "classify"
  /\ UNCHANGED <<nodes, client, state, class, cand, row, good, errors>>

\* GetLatestHeight fails: the tick ends, nothing is published.
TickDbFails ==
  /\ wpc = "classify"
  /\ Error
  /\ TickOver
  /\ UNCHANGED <<nodes, client, state, row, good>>

\* Mutation: an unreachable node does not count towards the streak.
TickIgnoresProbeFailure ==
  /\ wpc = "classify"
  /\ LET c == classify(tprobe) IN
       /\ class' = c
       /\ healthy' = [healthy EXCEPT ![tidx] = reactHealthy(c)]
       /\ unhealthy' = IF c = "probe_failed" THEN unhealthy
                       ELSE [unhealthy EXCEPT ![tidx] = reactUnhealthy(c)]
       /\ IF tprobe # "down" /\ chain = NoChain
          THEN chain' = Genesis[tidx] /\ tchain' = Genesis[tidx]
          ELSE UNCHANGED <<chain, tchain>>
       /\ \/ wantsFailover(c) /\ c # "probe_failed" /\ wpc' = "failover" /\ cand' = tidx + 1
          \/ ~wantsFailover(c) /\ canAttemptFailback(c) /\ wpc' = "failback" /\ cand' = 0
          \/ /\ ~wantsFailover(c) \/ c = "probe_failed"
             /\ ~canAttemptFailback(c)
             /\ wpc' = "publish" /\ UNCHANGED cand
  /\ UNCHANGED <<nodes, client, active, failedOver, tidx, tprobe,
                 row, good, errors>>

\* classify, react, and what the tick does next.
TickReact ==
  /\ wpc = "classify"
  /\ LET c == classify(tprobe) IN
       /\ class' = c
       /\ healthy' = [healthy EXCEPT ![tidx] = reactHealthy(c)]
       /\ unhealthy' = [unhealthy EXCEPT ![tidx] = reactUnhealthy(c)]
       /\ IF tprobe # "down" /\ chain = NoChain
          THEN chain' = Genesis[tidx] /\ tchain' = Genesis[tidx]
          ELSE UNCHANGED <<chain, tchain>>
       /\ \/ wantsFailover(c) /\ wpc' = "failover" /\ cand' = tidx + 1
          \/ ~wantsFailover(c) /\ canAttemptFailback(c) /\ wpc' = "failback" /\ cand' = 0
          \/ ~wantsFailover(c) /\ ~canAttemptFailback(c) /\ wpc' = "publish" /\ UNCHANGED cand
  /\ UNCHANGED <<nodes, client, active, failedOver, tidx, tprobe,
                 row, good, errors>>

\* A node selectFailoverTarget accepts.
Acceptable(i) == cond[i] = "head" /\ (tchain = NoChain \/ Genesis[i] = tchain)

\* Mutation: the chain is not compared.
FailoverProbeAnyChain ==
  /\ wpc = "failover"
  /\ \/ /\ cand < NumNodes
        /\ IF cond[cand] = "head"
           THEN wpc' = "failoverSwap" /\ UNCHANGED cand
           ELSE wpc' = "failover" /\ cand' = cand + 1
     \/ /\ cand = NumNodes
        /\ wpc' = "publish" /\ UNCHANGED cand
  /\ UNCHANGED <<nodes, client, state, tidx, tchain, tprobe, class,
                 row, good, errors>>

\* selectFailoverTarget: one round of its loop, or its end.
FailoverProbe ==
  /\ wpc = "failover"
  /\ \/ /\ cand < NumNodes
        /\ IF Acceptable(cand)
           THEN wpc' = "failoverSwap" /\ UNCHANGED cand
           ELSE wpc' = "failover" /\ cand' = cand + 1
     \/ /\ cand = NumNodes
        /\ wpc' = "publish" /\ UNCHANGED cand
  /\ UNCHANGED <<nodes, client, state, tidx, tchain, tprobe, class,
                 row, good, errors>>

\* Mutation: the streaks of the old node survive the swap.
FailoverSwapKeepsStreaks ==
  /\ wpc = "failoverSwap"
  /\ SwapActiveClient
  /\ active' = cand /\ failedOver' = "set"
  /\ wpc' = "publish"
  /\ UNCHANGED <<nodes, healthy, unhealthy, chain, tidx, tchain, tprobe, class, cand,
                 row, errors>>

\* Mutation: the index recorded is the one after the node swapped in.
FailoverSwapOffByOne ==
  /\ wpc = "failoverSwap"
  /\ SwapActiveClient
  /\ active' = cand + 1 /\ failedOver' = "set"
  /\ healthy' = NoStreaks /\ unhealthy' = NoStreaks
  /\ wpc' = "publish"
  /\ UNCHANGED <<nodes, chain, tidx, tchain, tprobe, class, cand, row, errors>>

FailoverSwap ==
  /\ wpc = "failoverSwap"
  /\ SwapActiveClient
  /\ active' = cand /\ failedOver' = "set"
  /\ healthy' = NoStreaks /\ unhealthy' = NoStreaks
  /\ wpc' = "publish"
  /\ UNCHANGED <<nodes, chain, tidx, tchain, tprobe, class, cand, row, errors>>

\* The client of the new node cannot be built, in a failover or a failback.
SwapFails ==
  /\ wpc \in {"failoverSwap", "failbackSwap"}
  /\ Error
  /\ wpc' = "publish"
  /\ UNCHANGED <<nodes, client, state, tick, row, good>>

\* The failback loop: one candidate, or its end.
FailbackProbe ==
  /\ wpc = "failback"
  /\ \/ /\ cand < tidx
        /\ \/ /\ cond[cand] # "head" \/ Genesis[cand] # tchain
              /\ healthy' = [healthy EXCEPT ![cand] = 0]
              /\ good' = [good EXCEPT ![cand] = 0]
              /\ wpc' = "failback" /\ cand' = cand + 1
           \/ /\ cond[cand] = "head" /\ Genesis[cand] = tchain
              /\ healthy' = [healthy EXCEPT ![cand] = Inc(@)]
              /\ good' = [good EXCEPT ![cand] = Inc(@)]
              /\ IF Inc(healthy[cand]) >= FailbackStreak
                 THEN wpc' = "failbackSwap" /\ UNCHANGED cand
                 ELSE wpc' = "failback" /\ cand' = cand + 1
     \/ /\ cand = tidx
        /\ wpc' = "publish" /\ UNCHANGED <<healthy, good, cand>>
  /\ UNCHANGED <<nodes, client, active, unhealthy, chain, failedOver, tidx, tchain,
                 tprobe, class, row, errors>>

FailbackSwap ==
  /\ wpc = "failbackSwap"
  /\ SwapActiveClient
  /\ active' = cand /\ failedOver' = "nil"
  /\ healthy' = NoStreaks /\ unhealthy' = NoStreaks
  /\ wpc' = "publish"
  /\ UNCHANGED <<nodes, chain, tidx, tchain, tprobe, class, cand, row, errors>>

\* What publishSyncStatus writes: the node the tick began with, its class, and
\* that node's streak as it is after a swap.
Record ==
  [node |-> tidx,
   verdict |-> IF class # "synced" /\ unhealthy[tidx] >= UnhealthyStreakForReady
               THEN "drift" ELSE "ready"]

\* Mutation: a tick whose probe failed publishes nothing.
PublishProbedOnly ==
  /\ wpc = "publish"
  /\ row' = IF class = "probe_failed" THEN row ELSE Record
  /\ TickOver
  /\ UNCHANGED <<nodes, client, state, good, errors>>

\* The upsert may fail.  (The restart signal of a lagging or stalled tick is
\* MomentumSync's.)
Publish ==
  /\ wpc = "publish"
  /\ \/ row' = Record /\ UNCHANGED errors
     \/ Error /\ UNCHANGED row
  /\ TickOver
  /\ UNCHANGED <<nodes, client, state, good>>

\* The API's /readyz, with a database that answers and has been migrated.
readyz == row.verdict # "drift"

\* The indexer's /readyz.
HealthSnapshot == unhealthy[active] < UnhealthyStreak

Tick ==
  \/ TickStart \/ TickDbFails \/ TickReact
  \/ FailoverProbe \/ FailoverSwap \/ SwapFails
  \/ FailbackProbe \/ FailbackSwap
  \/ Publish

Startup ==
  \/ Boot \/ StartupProbeFails \/ StartupProbeOk \/ StartupSwap \/ StartupSwapFails

----------------------------------------------------------------------------
(***************************************************************************)
(* The surroundings                                                        *)
(***************************************************************************)

NodeChanges(i) ==
  /\ \E c \in Conds \ {cond[i]} : cond' = [cond EXCEPT ![i] = c]
  /\ UNCHANGED <<lag, progress, client, state, wpc, tick, row, good, errors>>

IndexerChanges ==
  /\ \/ lag' = (IF lag = "near" THEN "far" ELSE "near") /\ UNCHANGED progress
     \/ progress' = (IF progress = "recent" THEN "stale" ELSE "recent") /\ UNCHANGED lag
  /\ UNCHANGED <<cond, client, state, wpc, tick, row, good, errors>>

\* syncStatusStaleAfter, which is several ticks, passes without a watchdog.
RowExpires ==
  /\ wpc = "off" /\ row.node # NumNodes
  /\ row' = [row EXCEPT !.verdict = "inactive"]
  /\ UNCHANGED <<nodes, client, state, wpc, tick, good, errors>>

Environment ==
  \/ RowExpires
  \/ \E i \in Idx : NodeChanges(i)
  \/ IndexerChanges

Next == Startup \/ Crash \/ Tick \/ Environment

\* The goroutine is scheduled and the ticker fires; the container is restarted.
Fairness == WF_vars(Startup) /\ WF_vars(Tick)

Spec == Init /\ [][Next]_vars
FairSpec == Spec /\ Fairness

----------------------------------------------------------------------------
(***************************************************************************)
(* Properties                                                              *)
(***************************************************************************)

Streaks == [Idx -> 0..MaxStreak]
Rows == [node : 0..NumNodes, verdict : {"ready", "drift", "inactive"}]

\* Every variable has its type; candidates exist when they are probed.
TypeOK ==
  /\ cond \in [Idx -> Conds] /\ lag \in {"near", "far"} /\ progress \in {"recent", "stale"}
  /\ client \in Idx
  /\ active \in Idx /\ healthy \in Streaks /\ unhealthy \in Streaks
  /\ chain \in Chains \cup {NoChain} /\ failedOver \in {"nil", "set"}
  /\ wpc \in Pcs
  /\ tidx \in Idx /\ tchain \in Chains \cup {NoChain} /\ tprobe \in Conds
  /\ class \in Classes /\ cand \in 0..NumNodes
  /\ row \in Rows
  /\ good \in Streaks
  /\ errors \in 0..MaxErrors

\* Once the chain identifier is recorded the indexer stays on nodes of that
\* chain: neither failover nor failback leads off it, although nodes are
\* probed and swapped in separate steps of the tick.
StaysOnChain == chain # NoChain => Genesis[client] = chain

\* A failback is earned: the node was found at head, on the same chain, in
\* FailbackStreak probes in a row since the last swap.  Streaks the node
\* collected while it was active, before it was left, do not count.
FailbackEarned == wpc = "failbackSwap" => good[cand] >= FailbackStreak

Running == wpc \notin {"off", "startup", "startupSwap"}

\* The watchdog is running on a node with a problem and a later node of the
\* pool, on the same chain, is at head.
Stranded(i, j) ==
  /\ Running
  /\ client = i /\ cond[i] # "head"
  /\ cond[j] = "head" /\ Genesis[j] = Genesis[i]

\* That does not last: the indexer fails over.
FailsOver == \A i, j \in Idx : i < j => []<>~Stranded(i, j)

\* The watchdog is running on a fallback, momentums arrive, and it and every
\* earlier node are at head on one chain; the database may be far behind.
AwayFromPrimary(i) ==
  /\ Running
  /\ client = i /\ progress = "recent"
  /\ \A j \in 0..i : cond[j] = "head"
  /\ Genesis[0] = Genesis[i]

\* That does not last either: the indexer fails back.
FailsBack == \A i \in Idx \ {0} : []<>~AwayFromPrimary(i)

\* A tick that writes its row leaves the two endpoints with one verdict, a swap in
\* that tick included, if the threshold the API was built with is the one the
\* watchdog is configured with.
ReadinessAgrees ==
  [][Publish /\ row' = Record /\ UnhealthyStreakForReady = UnhealthyStreak
       => (readyz' <=> HealthSnapshot')]_vars

\* The node in use has a problem, and no swap happens.
Helpless(i) == Running /\ client = i /\ cond[i] # "head"

\* The node in use is fine, momentums arrive and the database is near.
Well(i) == Running /\ client = i /\ cond[i] = "head" /\ lag = "near" /\ progress = "recent"

\* The API's verdict follows what lasts: a node that stays bad without one to fail
\* over to turns /readyz to 503 for good, and one that stays well turns it to
\* 200 for good, whatever the row said before, with the right node in the row.
ReadyzFollows ==
  \A i \in Idx :
    /\ <>[]Helpless(i) => <>[](~readyz /\ row.node = i)
    /\ <>[]Well(i) => <>[](readyz /\ row.node = i)

(***************************************************************************)
(* The inductive strengthening of the invariants above                     *)
(***************************************************************************)

\* Where each part of a tick may find its local variables.
TickInv ==
  /\ wpc \in {"off", "startup", "startupSwap"} =>
       chain = NoChain /\ healthy = NoStreaks /\ cand \in Idx
  /\ wpc \in {"classify", "failover", "failoverSwap", "failback", "failbackSwap"} =>
       tidx = active /\ tchain = chain
  /\ wpc = "failoverSwap" => cand \in Idx /\ (tchain = NoChain \/ Genesis[cand] = tchain)
  /\ wpc = "failback" => cand \in 0..tidx
  /\ wpc = "failbackSwap" => cand \in 0..tidx-1 /\ Genesis[cand] = tchain

\* The state agrees with the client in use, and the streak of a node before
\* the active one was collected in failback probes only.
StateInv ==
  /\ client = active
  /\ \A i \in Idx : i < active => healthy[i] = good[i]

IInv ==
  /\ TypeOK
  /\ TickInv
  /\ StateInv
  /\ StaysOnChain
  /\ FailbackEarned

(***************************************************************************)
(* What the design says and the code does not do                           *)
(***************************************************************************)

\* docs/superpowers/specs/2026-05-28-continuous-sync-watchdog-design.md: chain
\* identity is verified on switch to prevent cross-chain writes.
NoCrossChain == [][FailoverSwap => Genesis[client'] = Genesis[client]]_vars
=============================================================================
