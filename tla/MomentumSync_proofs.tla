------------------------ MODULE MomentumSync_proofs -------------------------
(***************************************************************************)
(* Proofs about MomentumSync for every chain length, batch size, node pool *)
(* and number of faults, crashes, connections and backfill runs.           *)
(***************************************************************************)
EXTENDS MomentumSync, TLAPS

USE SyncAssumption DEF Heights

----------------------------------------------------------------------------
(***************************************************************************)
(* The initial state                                                       *)
(***************************************************************************)

\* The initial state satisfies the inductive invariant.
LEMMA InitIInv == Init => IInv
<1> SUFFICES ASSUME Init PROVE IInv
  OBVIOUS
<1> USE DEF Init
<1>1. TypeOK
  BY DEF TypeOK, DbType, MainType, ClientType, SessionType, FillType, BoundsType, Status,
         Jobs, Pcs, SyncPcs, LivePcs
<1>2. StaleSessionSignalled /\ PrimedBeforeProcessing /\ NoOtherLoss
  BY DEF StaleSessionSignalled, StaleSession, PrimedBeforeProcessing, NoOtherLoss, LivePcs
<1>3. LoopInv /\ LinkInv /\ LossInv
  BY DEF LoopInv, LinkInv, LossInv, LivePcs
<1>4. BackfillInv
  BY DEF BackfillInv, Jobs
<1> QED
  BY <1>1, <1>2, <1>3, <1>4 DEF IInv

----------------------------------------------------------------------------
(***************************************************************************)
(* Type correctness                                                        *)
(***************************************************************************)

\* A part of the state that a step leaves alone keeps its type.
LEMMA UnchangedTypes ==
  /\ DbType /\ UNCHANGED db => DbType'
  /\ MainType /\ UNCHANGED main => MainType'
  /\ ClientType /\ UNCHANGED client => ClientType'
  /\ SessionType /\ UNCHANGED session => SessionType'
  /\ FillType /\ UNCHANGED fill => FillType'
  /\ BoundsType /\ UNCHANGED bounds => BoundsType'
<1>1. DbType /\ UNCHANGED db => DbType'
  BY DEF DbType, db
<1>2. MainType /\ UNCHANGED main => MainType'
  BY DEF MainType, main
<1>3. ClientType /\ UNCHANGED client => ClientType'
  BY DEF ClientType, client
<1>4. SessionType /\ UNCHANGED session => SessionType'
  BY DEF SessionType, session
<1>5. FillType /\ UNCHANGED fill => FillType'
  BY DEF FillType, fill
<1>6. BoundsType /\ UNCHANGED bounds => BoundsType'
  BY DEF BoundsType, bounds
<1> QED
  BY <1>1, <1>2, <1>3, <1>4, <1>5, <1>6

\* An exiting process leaves well-typed state behind.
LEMMA ProcessGoneTypes ==
  TypeOK /\ ProcessGone => MainType' /\ ClientType' /\ restart' \in 0..1 /\ SessionType' /\ FillType'
<1> SUFFICES ASSUME TypeOK, ProcessGone
             PROVE MainType' /\ ClientType' /\ restart' \in 0..1 /\ SessionType' /\ FillType'
  OBVIOUS
<1>1. MainType' /\ ClientType' /\ restart' \in 0..1
  BY DEF ProcessGone, MainType, ClientType, Pcs
<1>2. SessionType'
  BY DEF ProcessGone, SessionType
<1>3. FillType'
  BY DEF TypeOK, ProcessGone, FillType, Jobs
<1> QED
  BY <1>1, <1>2, <1>3

\* So does a sync that returns an error, wherever it was called from.
LEMMA SyncErrorTypes ==
  TypeOK /\ SyncError => MainType' /\ ClientType' /\ restart' \in 0..1 /\ SessionType' /\ FillType'
<1> SUFFICES ASSUME TypeOK, SyncError
             PROVE MainType' /\ ClientType' /\ restart' \in 0..1 /\ SessionType' /\ FillType'
  OBVIOUS
<1>1. CASE ProcessGone
  BY <1>1, ProcessGoneTypes
<1>2. CASE /\ pc' = "backoff"
           /\ cursor' = 0 /\ next' = 0 /\ last' = 0
           /\ UNCHANGED <<stage, pillars, client, restart, session, fill>>
  <2>1. MainType'
    BY <1>2 DEF TypeOK, MainType, Pcs
  <2> QED
    BY <1>2, <2>1, UnchangedTypes DEF TypeOK
<1> QED
  BY <1>1, <1>2 DEF SyncError

\* The transaction of processMomentum keeps the tables and counters well typed.
LEMMA ProcessMomentumTypes ==
  ASSUME TypeOK, NEW h \in Heights, NEW r, ProcessMomentum(h, r),
         UNCHANGED <<emitted, crashes, tools>>
  PROVE  DbType' /\ BoundsType'
<1>1. ASSUME NEW s \in Status, Commit(h, s) PROVE DbType'
  <2>1. Better(stored[h], s) \in Status
    BY DEF TypeOK, DbType, Better
  <2> QED
    BY <1>1, <2>1 DEF TypeOK, DbType, Commit
<1>2. faults' = faults \/ Fault
  BY DEF ProcessMomentum
<1>3. BoundsType'
  BY <1>2 DEF Fault, BoundsType, TypeOK
<1> QED
  BY <1>1, <1>3 DEF ProcessMomentum, Status

\* Every step keeps the types.
LEMMA TypeStep == IInv /\ [Next]_vars => TypeOK'
<1> SUFFICES ASSUME IInv, [Next]_vars PROVE TypeOK'
  OBVIOUS
<1>0. TypeOK /\ LoopInv /\ LinkInv
  BY DEF IInv
<1> USE <1>0, UnchangedTypes DEF TypeOK, chain
<1>1. CASE UNCHANGED vars
  BY <1>1 DEF vars
<1>2. CASE Startup
  BY <1>2 DEF Startup, Boot, MainType, ClientType, Pcs, SyncPcs
<1>3. CASE Crash
  BY <1>3, ProcessGoneTypes DEF Crash, BoundsType
<1>4. CASE Sync
  <2> USE DEF Pcs, SyncPcs
  <2>1. CASE PrimePillarCache
    BY <2>1 DEF PrimePillarCache, MainType
  <2>2. CASE PrimePillarCacheFails
    BY <2>2, SyncErrorTypes DEF PrimePillarCacheFails, CallFails, Fault, BoundsType
  <2>3. CASE SyncReadDbHeight
    BY <2>3 DEF SyncReadDbHeight, MainType
  <2>4. CASE SyncComplete
    BY <2>4 DEF SyncComplete, MainType
  <2>5. CASE SyncBehind \/ BackoffOver
    BY <2>5 DEF SyncBehind, BackoffOver, MainType
  <2>6. CASE SyncFetch
    BY <2>6 DEF SyncFetch, MainType, ClientType
  <2>7. CASE SyncFetchEmpty
    BY <2>7 DEF SyncFetchEmpty, MainType
  <2>8. CASE SyncCallFails
    BY <2>8, SyncErrorTypes DEF SyncCallFails, CallFails, Fault, BoundsType
  <2>9. CASE SyncProcess
    <3>1. next \in Heights
      BY <2>9 DEF SyncProcess, LoopInv, MainType
    <3>2. DbType' /\ BoundsType'
      BY <2>9, <3>1, ProcessMomentumTypes DEF SyncProcess
    <3> QED
      BY <2>9, <3>2 DEF SyncProcess, MainType
  <2>10. CASE SyncProcessFails
    BY <2>10, SyncErrorTypes DEF SyncProcessFails, Fault, BoundsType
  <2>11. CASE SyncEmit
    <3>1. next \in Heights
      BY <2>11 DEF SyncEmit, LoopInv, MainType
    <3>2. MainType' /\ DbType'
      BY <2>11, <3>1 DEF SyncEmit, SyncAdvance, LoopInv, MainType, DbType
    <3> QED
      BY <2>11, <3>2 DEF SyncEmit
  <2> QED
    BY <1>4, <2>1, <2>2, <2>3, <2>4, <2>5, <2>6, <2>7, <2>8, <2>9, <2>10, <2>11 DEF Sync
<1>5. CASE Live
  <2> USE DEF Pcs, SyncPcs, LivePcs
  <2>1. CASE DrainRestart
    BY <2>1 DEF DrainRestart, MainType
  <2>2. CASE LoadClient
    BY <2>2 DEF LoadClient, MainType, SessionType, ClientType
  <2>3. CASE Subscribe
    <3>1. MainType' /\ gaveUp' \subseteq Heights
      BY <2>3 DEF Subscribe, Window, MainType
    <3>2. SessionType'
      BY <2>3 DEF Subscribe, SessionType
    <3> QED
      BY <2>3, <3>1, <3>2 DEF Subscribe
  <2>4. CASE SubscribeFails
    BY <2>4 DEF SubscribeFails, Fault, SessionOver, MainType, SessionType, BoundsType
  <2>5. CASE SessionRestart
    BY <2>5 DEF SessionRestart, SessionOver, MainType, SessionType
  <2>6. CASE SessionReceive
    BY <2>6 DEF SessionReceive, MainType, SessionType
  <2>7. CASE LiveFetch
    BY <2>7 DEF LiveFetch, MainType
  <2>8. CASE LiveFetchFails
    BY <2>8 DEF LiveFetchFails, LiveAdvance, CallFails, Fault, LoopInv, MainType, BoundsType
  <2>9. CASE LiveProcess
    <3>1. next \in Heights
      BY <2>9 DEF LiveProcess, LoopInv, MainType
    <3>2. DbType' /\ BoundsType'
      BY <2>9, <3>1, ProcessMomentumTypes DEF LiveProcess
    <3> QED
      BY <2>9, <3>2 DEF LiveProcess, MainType
  <2>10. CASE LiveProcessFails
    BY <2>10 DEF LiveProcessFails, LiveAdvance, Fault, LoopInv, MainType, BoundsType
  <2>11. CASE LiveEmit
    <3>1. MainType'
      BY <2>11 DEF LiveEmit, LiveAdvance, LoopInv, MainType
    <3>2. DbType'
      BY <2>11 DEF LiveEmit, LoopInv, MainType, DbType
    <3> QED
      BY <2>11, <3>1, <3>2 DEF LiveEmit
  <2> QED
    BY <1>5, <2>1, <2>2, <2>3, <2>4, <2>5, <2>6, <2>7, <2>8, <2>9, <2>10, <2>11 DEF Live
<1>6. CASE Environment
  <2>1. ASSUME NEW n \in Nodes, NodeAdvance(n) PROVE TypeOK'
    BY <2>1 DEF NodeAdvance, Subscribed, LinkInv, SessionType
  <2>2. ASSUME NEW n \in Nodes, SwapActiveClient(n) PROVE TypeOK'
    BY <2>2 DEF SwapActiveClient, ClientType
  <2>3. CASE ConnectionLost
    BY <2>3 DEF ConnectionLost, ClientType, SessionType
  <2>4. CASE ConnectionEstablished
    BY <2>4 DEF ConnectionEstablished, LinkInv, ClientType
  <2>5. CASE OldClientStopped
    BY <2>5 DEF OldClientStopped, SessionType
  <2>6. CASE SignalSubscriptionRestart
    BY <2>6 DEF SignalSubscriptionRestart, ClientType
  <2>7. CASE CachedDataRefresh
    BY <2>7 DEF CachedDataRefresh, MainType
  <2>8. CASE SessionChannelClosed
    BY <2>8 DEF SessionChannelClosed, SessionOver, MainType, SessionType, Pcs, SyncPcs
  <2>9. CASE WatchdogRestart
    BY <2>9 DEF WatchdogRestart
  <2> QED
    BY <1>6, <2>1, <2>2, <2>3, <2>4, <2>5, <2>6, <2>7, <2>8, <2>9 DEF Environment
<1>7. ASSUME NEW j \in Jobs, Backfill(j) PROVE TypeOK'
  <2>1. CASE BackfillScan(j)
    BY <2>1 DEF BackfillScan, MissingHeights, FillType, BoundsType
  <2>2. ASSUME NEW h \in Heights, BackfillProcess(j, h) PROVE TypeOK'
    <3>1. DbType' /\ BoundsType'
      BY <2>2, ProcessMomentumTypes DEF BackfillProcess
    <3>2. FillType'
      BY <2>2 DEF BackfillProcess, JobDrops, FillType
    <3> QED
      BY <2>2, <3>1, <3>2 DEF BackfillProcess
  <2>3. ASSUME NEW h \in Heights, BackfillFetchFails(j, h) PROVE TypeOK'
    BY <2>3 DEF BackfillFetchFails, JobDrops, Fault, FillType, BoundsType
  <2>4. ASSUME NEW h \in Heights, BackfillMomentumDirect(j, h) PROVE TypeOK'
    <3>1. FillType' /\ BoundsType'
      BY <2>4 DEF BackfillMomentumDirect, JobDrops, Fault, FillType, BoundsType
    <3>2. DbType'
      BY <2>4 DEF BackfillMomentumDirect, DbType, Status
    <3> QED
      BY <2>4, <3>1, <3>2 DEF BackfillMomentumDirect
  <2>5. CASE BackfillEmit(j)
    <3>1. bheight[j] \in Heights
      BY <2>5 DEF BackfillEmit, IInv, BackfillInv, Jobs, FillType
    <3>2. DbType'
      BY <2>5, <3>1 DEF BackfillEmit, DbType
    <3>3. FillType'
      BY <2>5 DEF BackfillEmit, JobDrops, FillType
    <3> QED
      BY <2>5, <3>2, <3>3 DEF BackfillEmit
  <2> QED
    BY <1>7, <2>1, <2>2, <2>3, <2>4, <2>5 DEF Backfill
<1>8. CASE BackfillReturns
  <2>1. MainType' /\ FillType'
    BY <1>8 DEF BackfillReturns, Jobs, FillType, MainType, Pcs, SyncPcs
  <2>2. BoundsType'
    BY <1>8 DEF BackfillReturns, Fault, BoundsType
  <2> QED
    BY <1>8, <2>1, <2>2 DEF BackfillReturns
<1>9. CASE ToolExits
  BY <1>9 DEF ToolExits, Jobs, FillType
<1> QED
  BY <1>1, <1>2, <1>3, <1>4, <1>5, <1>6, <1>7, <1>8, <1>9 DEF Next

----------------------------------------------------------------------------
(***************************************************************************)
(* The restart signal                                                      *)
(***************************************************************************)

\* A step of the main goroutine that keeps or starts a session keeps it
\* signalled; a step of the connections that makes it stale owes the signal.
LEMMA StaleStep == IInv /\ [Next]_vars => StaleSessionSignalled'
<1> SUFFICES ASSUME IInv, [Next]_vars PROVE StaleSessionSignalled'
  OBVIOUS
<1>0. StaleSessionSignalled /\ owed \in Nat /\ restart \in 0..1
  BY DEF IInv, TypeOK, ClientType
<1> USE <1>0 DEF StaleSessionSignalled, StaleSession, LivePcs
<1>1. CASE UNCHANGED vars
  BY <1>1 DEF vars, main, client, session
<1>2. CASE Startup \/ Crash
  BY <1>2 DEF Startup, Boot, Crash, ProcessGone
<1>3. CASE Sync
  <2>1. ASSUME SyncError PROVE StaleSessionSignalled'
    BY <2>1 DEF SyncError, ProcessGone
  <2>2. CASE PrimePillarCache \/ SyncReadDbHeight \/ SyncComplete \/ SyncBehind
    BY <2>2 DEF PrimePillarCache, SyncReadDbHeight, SyncComplete, SyncBehind
  <2>3. CASE SyncFetch \/ SyncFetchEmpty \/ SyncProcess \/ BackoffOver
    BY <2>3 DEF SyncFetch, SyncFetchEmpty, SyncProcess, BackoffOver
  <2>4. CASE SyncEmit
    BY <2>4 DEF SyncEmit, SyncAdvance
  <2> QED
    BY <1>3, <2>1, <2>2, <2>3, <2>4 DEF Sync, PrimePillarCacheFails, SyncCallFails, SyncProcessFails
<1>4. CASE Live
  <2>1. CASE DrainRestart \/ LoadClient
    BY <2>1 DEF DrainRestart, LoadClient, client
  <2>2. CASE Subscribe
    BY <2>2 DEF Subscribe, client
  <2>3. CASE SubscribeFails \/ SessionRestart
    BY <2>3 DEF SubscribeFails, SessionRestart, SessionOver
  <2>4. CASE SessionReceive \/ LiveFetch \/ LiveProcess
    BY <2>4 DEF SessionReceive, LiveFetch, LiveProcess, client, session
  <2>5. CASE LiveFetchFails \/ LiveProcessFails \/ LiveEmit
    BY <2>5 DEF LiveFetchFails, LiveProcessFails, LiveEmit, LiveAdvance, client, session
  <2> QED
    BY <1>4, <2>1, <2>2, <2>3, <2>4, <2>5 DEF Live
<1>5. CASE Environment
  <2>1. ASSUME NEW n \in Nodes, NodeAdvance(n) PROVE StaleSessionSignalled'
    BY <2>1 DEF NodeAdvance, main, client
  <2>2. ASSUME NEW n \in Nodes, SwapActiveClient(n) PROVE StaleSessionSignalled'
    BY <2>2 DEF SwapActiveClient
  <2>3. CASE ConnectionLost
    BY <2>3 DEF ConnectionLost, main
  <2>4. CASE ConnectionEstablished \/ SignalSubscriptionRestart \/ WatchdogRestart
    BY <2>4 DEF ConnectionEstablished, SignalSubscriptionRestart, WatchdogRestart
  <2>5. CASE OldClientStopped \/ CachedDataRefresh
    BY <2>5 DEF OldClientStopped, CachedDataRefresh, main, client, session
  <2>6. CASE SessionChannelClosed
    BY <2>6 DEF SessionChannelClosed, SessionOver
  <2> QED
    BY <1>5, <2>1, <2>2, <2>3, <2>4, <2>5, <2>6 DEF Environment
<1>6. ASSUME NEW j \in Jobs, Backfill(j) PROVE StaleSessionSignalled'
  <2>1. UNCHANGED <<main, client, restart, session>>
    BY <1>6 DEF Backfill, BackfillScan, BackfillProcess, BackfillFetchFails,
                BackfillMomentumDirect, BackfillEmit
  <2> QED
    BY <2>1 DEF main, client, session
<1>7. CASE BackfillReturns \/ ToolExits
  BY <1>7 DEF BackfillReturns, ToolExits, main, client, session
<1> QED
  BY <1>1, <1>2, <1>3, <1>4, <1>5, <1>6, <1>7 DEF Next

----------------------------------------------------------------------------
(***************************************************************************)
(* The pillar cache and the loop variables                                 *)
(***************************************************************************)

\* Only a successful priming leads past "prime", and the map is never emptied
\* while the process lives.
LEMMA PrimedStep == IInv /\ [Next]_vars => PrimedBeforeProcessing'
<1> SUFFICES ASSUME IInv, [Next]_vars PROVE PrimedBeforeProcessing'
  OBVIOUS
<1>0. PrimedBeforeProcessing /\ LoopInv
  BY DEF IInv
<1> USE <1>0 DEF PrimedBeforeProcessing
<1>1. CASE UNCHANGED vars
  BY <1>1 DEF vars, main
<1>2. CASE Startup \/ Crash
  BY <1>2 DEF Startup, Boot, Crash, ProcessGone
<1>3. CASE Sync
  <2>1. ASSUME SyncError PROVE PrimedBeforeProcessing'
    BY <2>1 DEF SyncError, ProcessGone, LoopInv
  <2>2. CASE PrimePillarCache \/ SyncReadDbHeight \/ SyncComplete \/ SyncBehind
    BY <2>2 DEF PrimePillarCache, SyncReadDbHeight, SyncComplete, SyncBehind
  <2>3. CASE SyncFetch \/ SyncFetchEmpty \/ SyncProcess \/ BackoffOver
    BY <2>3 DEF SyncFetch, SyncFetchEmpty, SyncProcess, BackoffOver
  <2>4. CASE SyncEmit
    BY <2>4 DEF SyncEmit, SyncAdvance
  <2> QED
    BY <1>3, <2>1, <2>2, <2>3, <2>4 DEF Sync, PrimePillarCacheFails, SyncCallFails, SyncProcessFails
<1>4. CASE Live
  BY <1>4 DEF Live, DrainRestart, LoadClient, Subscribe, SubscribeFails, SessionRestart,
              SessionOver, SessionReceive, LiveFetch, LiveFetchFails, LiveProcess,
              LiveProcessFails, LiveEmit, LiveAdvance
<1>5. CASE Environment
  BY <1>5 DEF Environment, NodeAdvance, SwapActiveClient, ConnectionLost,
              ConnectionEstablished, OldClientStopped, SignalSubscriptionRestart,
              WatchdogRestart, CachedDataRefresh, SessionChannelClosed, SessionOver, main
<1>6. ASSUME NEW j \in Jobs, Backfill(j) PROVE PrimedBeforeProcessing'
  <2>1. UNCHANGED main
    BY <1>6 DEF Backfill, BackfillScan, BackfillProcess, BackfillFetchFails,
                BackfillMomentumDirect, BackfillEmit
  <2> QED
    BY <2>1 DEF main
<1>7. CASE BackfillReturns \/ ToolExits
  BY <1>7 DEF BackfillReturns, ToolExits, main
<1> QED
  BY <1>1, <1>2, <1>3, <1>4, <1>5, <1>6, <1>7 DEF Next

----------------------------------------------------------------------------
(***************************************************************************)
(* What the steps do to the momentums table                                *)
(***************************************************************************)

\* processMomentum stores its momentum and touches no other one.
LEMMA ProcessMomentumStores ==
  ASSUME TypeOK, NEW h \in Heights, NEW r, ProcessMomentum(h, r)
  PROVE  /\ stored' \in [Heights -> Status]
         /\ stored'[h] # "absent"
         /\ stored[h] = "full" => stored'[h] = "full"
         /\ \A k \in Heights : k # h => stored'[k] = stored[k]
<1>1. ASSUME NEW s \in {"partial", "full"}, Commit(h, s)
      PROVE  /\ stored' \in [Heights -> Status]
             /\ stored'[h] # "absent"
             /\ stored[h] = "full" => stored'[h] = "full"
             /\ \A k \in Heights : k # h => stored'[k] = stored[k]
  BY <1>1 DEF TypeOK, DbType, Commit, Better, Status
<1> QED
  BY <1>1 DEF ProcessMomentum

\* A step of a backfill stores only heights of its list.
LEMMA BackfillStores ==
  ASSUME TypeOK, NEW j \in Jobs, Backfill(j), NEW k \in Heights
  PROVE  \/ stored'[k] = stored[k]
         \/ /\ k \in blist[j]
            /\ stored'[k] # "absent"
            /\ stored[k] = "full" => stored'[k] = "full"
<1>1. CASE BackfillScan(j) \/ BackfillEmit(j)
  BY <1>1 DEF BackfillScan, BackfillEmit, db
<1>2. ASSUME NEW h \in Heights, BackfillProcess(j, h)
      PROVE  \/ stored'[k] = stored[k]
             \/ /\ k \in blist[j]
                /\ stored'[k] # "absent"
                /\ stored[k] = "full" => stored'[k] = "full"
  <2>1. ProcessMomentum(h, TRUE) /\ h \in blist[j]
    BY <1>2 DEF BackfillProcess, NextMissing
  <2> QED
    BY <2>1, ProcessMomentumStores
<1>3. ASSUME NEW h \in Heights, BackfillFetchFails(j, h)
      PROVE  stored'[k] = stored[k]
  BY <1>3 DEF BackfillFetchFails, db
<1>4. ASSUME NEW h \in Heights, BackfillMomentumDirect(j, h)
      PROVE  \/ stored'[k] = stored[k]
             \/ /\ k \in blist[j]
                /\ stored'[k] # "absent"
                /\ stored[k] = "full" => stored'[k] = "full"
  BY <1>4 DEF BackfillMomentumDirect, NextMissing, TypeOK, DbType
<1> QED
  BY <1>1, <1>2, <1>3, <1>4 DEF Backfill

\* A row, and the blocks of a complete momentum, stay; so does the record of
\* a height given up.
TableGrows ==
  /\ \A k \in Heights : stored[k] # "absent" => stored'[k] # "absent"
  /\ \A k \in Heights : stored[k] = "full" => stored'[k] = "full"
  /\ gaveUp \subseteq gaveUp'

\* No step takes anything out of the table.
LEMMA TableStep ==
  ASSUME IInv, [Next]_vars
  PROVE  TableGrows
<1>0. TypeOK /\ LoopInv
  BY DEF IInv
<1>1. ASSUME UNCHANGED stored, gaveUp \subseteq gaveUp' PROVE TableGrows
  BY <1>1 DEF TableGrows
<1>2. CASE UNCHANGED vars \/ Startup \/ Crash \/ Environment \/ BackfillReturns \/ ToolExits
  <2>1. UNCHANGED <<db, gaveUp>>
    BY <1>2 DEF vars, Startup, Boot, Crash, Environment, NodeAdvance, SwapActiveClient,
                ConnectionLost, ConnectionEstablished, OldClientStopped, SessionChannelClosed,
                SignalSubscriptionRestart, WatchdogRestart, CachedDataRefresh, BackfillReturns, ToolExits
  <2> QED
    BY <2>1, <1>1 DEF db
<1>3. CASE SyncProcess \/ LiveProcess
  <2>1. next \in Heights /\ ProcessMomentum(next, conn = "up") /\ UNCHANGED gaveUp
    BY <1>0, <1>3 DEF SyncProcess, LiveProcess, LoopInv, TypeOK, MainType, LivePcs
  <2> QED
    BY <1>0, <2>1, ProcessMomentumStores DEF TableGrows
<1>4. CASE Sync /\ ~SyncProcess
  <2>1. UNCHANGED <<stored, gaveUp>>
    BY <1>4 DEF Sync, PrimePillarCache, PrimePillarCacheFails, SyncReadDbHeight, SyncComplete,
                SyncBehind, SyncFetch, SyncFetchEmpty, SyncCallFails, SyncProcessFails,
                SyncEmit, BackoffOver, db
  <2> QED
    BY <1>1, <2>1
<1>5. CASE Live /\ ~LiveProcess
  BY <1>1, <1>5 DEF Live, DrainRestart, LoadClient, Subscribe, SubscribeFails, SessionRestart,
                    SessionReceive, LiveFetch, LiveFetchFails, LiveProcessFails, LiveEmit, db
<1>6. ASSUME NEW j \in Jobs, Backfill(j) PROVE TableGrows
  <2>1. UNCHANGED gaveUp
    BY <1>6 DEF Backfill, BackfillScan, BackfillProcess, BackfillFetchFails,
                BackfillMomentumDirect, BackfillEmit
  <2> QED
    BY <1>0, <1>6, <2>1, BackfillStores DEF TableGrows
<1> QED
  BY <1>2, <1>3, <1>4, <1>5, <1>6 DEF Next

\* A backfill does not move MAX(height).
LEMMA BackfillKeepsMax ==
  ASSUME IInv, NEW j \in Jobs, Backfill(j), NEW m \in 0..MaxHeight, GetLatestHeight(m)
  PROVE  /\ m = 0 \/ (m \in Heights /\ stored'[m] # "absent")
         /\ \A k \in Heights : stored'[k] # "absent" => k <= m
<1>1. TypeOK /\ BackfillInv
  BY DEF IInv
<1>2. m = 0 \/ (m \in Heights /\ stored'[m] # "absent")
  BY <1>1, BackfillStores DEF GetLatestHeight
<1>3. ASSUME NEW k \in Heights, stored'[k] # "absent" PROVE k <= m
  <2>1. CASE stored[k] # "absent"
    BY <2>1 DEF GetLatestHeight
  <2>2. CASE k \in blist[j]
    <3>1. PICK l \in Heights : k <= l /\ stored[l] # "absent"
      BY <1>1, <2>2 DEF BackfillInv
    <3> QED
      BY <3>1 DEF GetLatestHeight
  <2> QED
    BY <1>1, <1>3, <2>1, <2>2, BackfillStores
<1> QED
  BY <1>2, <1>3

----------------------------------------------------------------------------
(***************************************************************************)
(* The loop variables                                                      *)
(***************************************************************************)

\* An exiting process, or a sync that returns, leaves nothing to be said of
\* the loop variables.
LEMMA SyncErrorLoop == LoopInv /\ (ProcessGone \/ SyncError) => LoopInv'
  BY DEF LoopInv, ProcessGone, SyncError, LivePcs

\* Every loop finds its variables where LoopInv says: catch-up works on top of
\* MAX(height), which no backfill moves, and a session below what it received.
LEMMA LoopStep == IInv /\ [Next]_vars => LoopInv'
<1> SUFFICES ASSUME IInv, [Next]_vars PROVE LoopInv'
  OBVIOUS
<1>0. TypeOK /\ LoopInv /\ PrimedBeforeProcessing /\ BackfillInv
  BY DEF IInv
<1>01. cursor \in 0..MaxHeight /\ next \in 0..MaxHeight /\ last \in 0..MaxHeight /\ recvd \in 0..MaxHeight
  BY <1>0 DEF TypeOK, MainType, SessionType
<1> USE <1>0, <1>01
<1>1. CASE UNCHANGED vars
  BY <1>1 DEF vars, main, session, db, LoopInv, GetLatestHeight
<1>2. CASE Startup
  BY <1>2 DEF Startup, Boot, LoopInv, LivePcs
<1>3. CASE Crash
  BY <1>3, SyncErrorLoop DEF Crash
<1>4. CASE Sync
  <2>1. ASSUME SyncError PROVE LoopInv'
    BY <2>1, SyncErrorLoop
  <2>2. CASE PrimePillarCache
    BY <2>2 DEF PrimePillarCache, LoopInv, LivePcs
  <2>3. CASE SyncReadDbHeight
    BY <2>3 DEF SyncReadDbHeight, LoopInv, LivePcs, db, GetLatestHeight
  <2>4. CASE SyncComplete
    BY <2>4 DEF SyncComplete, LoopInv, LivePcs, PrimedBeforeProcessing
  <2>5. CASE SyncBehind
    BY <2>5 DEF SyncBehind, LoopInv, LivePcs, db, GetLatestHeight
  <2>6. CASE SyncFetch
    <3>1. next' = cursor + 1 /\ next' \in 1..last' /\ next' - 1 = cursor
      BY <2>6 DEF SyncFetch, TypeOK, ClientType
    <3> QED
      BY <2>6, <3>1 DEF SyncFetch, LoopInv, LivePcs, db, GetLatestHeight
  <2>7. CASE SyncFetchEmpty \/ BackoffOver
    BY <2>7 DEF SyncFetchEmpty, BackoffOver, LoopInv, LivePcs
  <2>8. CASE SyncProcess
    <3>1. next \in 1..last /\ next \in Heights /\ GetLatestHeight(next - 1)
      BY <2>8 DEF SyncProcess, LoopInv
    <3>2. stored'[next] # "absent" /\ \A k \in Heights : k # next => stored'[k] = stored[k]
      BY <2>8, <3>1, ProcessMomentumStores DEF SyncProcess
    <3>3. \A k \in Heights : stored'[k] # "absent" => k <= next
      BY <3>1, <3>2 DEF GetLatestHeight
    <3>4. pc' = "emit" /\ UNCHANGED <<next, last, stage, pillars>>
      BY <2>8 DEF SyncProcess
    <3> QED
      BY <3>1, <3>2, <3>3, <3>4 DEF LoopInv, LivePcs, GetLatestHeight
  <2>9. CASE SyncEmit
    <3>1. next \in 1..last /\ GetLatestHeight(next) /\ UNCHANGED <<stored, stage, pillars>>
      BY <2>9 DEF SyncEmit, LoopInv
    <3>2. CASE next < last
      <4>1. next' = next + 1 /\ pc' = "process" /\ last' = last /\ next' - 1 = next
        BY <2>9, <3>2 DEF SyncEmit, SyncAdvance
      <4> QED
        BY <3>1, <3>2, <4>1 DEF LoopInv, LivePcs, GetLatestHeight
    <3>3. CASE ~(next < last)
      BY <2>9, <3>1, <3>3 DEF SyncEmit, SyncAdvance, LoopInv, LivePcs
    <3> QED
      BY <3>2, <3>3
  <2> QED
    BY <1>4, <2>1, <2>2, <2>3, <2>4, <2>5, <2>6, <2>7, <2>8, <2>9
       DEF Sync, PrimePillarCacheFails, SyncCallFails, SyncProcessFails
<1>5. CASE Live
  <2> USE DEF LoopInv, LivePcs
  <2>1. CASE DrainRestart \/ LoadClient \/ Subscribe
    BY <2>1 DEF DrainRestart, LoadClient, Subscribe
  <2>2. CASE SubscribeFails \/ SessionRestart
    BY <2>2 DEF SubscribeFails, SessionRestart, SessionOver
  <2>3. CASE SessionReceive
    BY <2>3 DEF SessionReceive
  <2>4. CASE LiveFetch \/ LiveProcess
    BY <2>4 DEF LiveFetch, LiveProcess, session
  <2>5. CASE LiveFetchFails \/ LiveProcessFails \/ LiveEmit
    BY <2>5 DEF LiveFetchFails, LiveProcessFails, LiveEmit, LiveAdvance, session
  <2> QED
    BY <1>5, <2>1, <2>2, <2>3, <2>4, <2>5 DEF Live
<1>6. CASE Environment
  <2>1. CASE SessionChannelClosed
    BY <2>1 DEF SessionChannelClosed, SessionOver, LoopInv, LivePcs
  <2>2. CASE CachedDataRefresh
    BY <2>2 DEF CachedDataRefresh, LoopInv, GetLatestHeight, db, session
  <2>3. CASE ~SessionChannelClosed /\ ~CachedDataRefresh
    <3>1. UNCHANGED <<main, db, recvd>>
      BY <1>6, <2>3 DEF Environment, NodeAdvance, SwapActiveClient, ConnectionLost,
           ConnectionEstablished, OldClientStopped, SignalSubscriptionRestart, WatchdogRestart, session
    <3> QED
      BY <3>1 DEF main, db, LoopInv, GetLatestHeight
  <2> QED
    BY <2>1, <2>2, <2>3
<1>7. ASSUME NEW j \in Jobs, Backfill(j) PROVE LoopInv'
  <2>1. UNCHANGED <<main, session>>
    BY <1>7 DEF Backfill, BackfillScan, BackfillProcess, BackfillFetchFails,
                BackfillMomentumDirect, BackfillEmit
  <2>2. UNCHANGED <<pc, stage, pillars, cursor, next, last, recvd>>
    BY <2>1 DEF main, session
  <2>3. ASSUME pc \in {"frontier", "fetch"} PROVE GetLatestHeight(cursor)'
    BY <1>7, <2>2, <2>3, BackfillKeepsMax DEF LoopInv, GetLatestHeight
  <2>4. ASSUME pc = "process" PROVE GetLatestHeight(next - 1)'
    <3>1. next - 1 \in 0..MaxHeight /\ GetLatestHeight(next - 1)
      BY <2>4 DEF LoopInv
    <3> QED
      BY <1>7, <2>2, <3>1, BackfillKeepsMax DEF GetLatestHeight
  <2>5. ASSUME pc = "emit" PROVE GetLatestHeight(next)'
    BY <1>7, <2>2, <2>5, BackfillKeepsMax DEF LoopInv, GetLatestHeight
  <2> QED
    BY <2>2, <2>3, <2>4, <2>5 DEF LoopInv
<1>8. CASE BackfillReturns
  BY <1>8 DEF BackfillReturns, LoopInv, LivePcs
<1>9. CASE ToolExits
  BY <1>9 DEF ToolExits, main, db, session, LoopInv, GetLatestHeight
<1> QED
  BY <1>1, <1>2, <1>3, <1>4, <1>5, <1>6, <1>7, <1>8, <1>9 DEF Next

\* A lost connection leaves room for the next one, and a subscription is not
\* ahead of its node.
LEMMA LinkStep == IInv /\ [Next]_vars => LinkInv'
<1> SUFFICES ASSUME IInv, [Next]_vars PROVE LinkInv'
  OBVIOUS
<1>0. TypeOK /\ LinkInv
  BY DEF IInv
<1>01. /\ link \in 0..MaxLinks /\ conn \in {"up", "lost"} /\ frontier \in [Nodes -> Heights]
       /\ subNode \in Nodes /\ recvd \in 0..MaxHeight /\ pushed \in 0..MaxHeight
  BY <1>0 DEF TypeOK, ClientType, SessionType
<1> USE <1>0, <1>01 DEF LinkInv
<1>1. CASE UNCHANGED vars
  BY <1>1 DEF vars, main, client, session, chain
<1>2. CASE Startup
  BY <1>2 DEF Startup, Boot, LivePcs
<1>3. ASSUME ProcessGone PROVE LinkInv'
  BY <1>3 DEF ProcessGone, LivePcs
<1>4. CASE Sync
  <2>1. ASSUME SyncError PROVE LinkInv'
    BY <1>3, <2>1 DEF SyncError, LivePcs, client
  <2>2. CASE Sync /\ ~SyncError
    <3>1. UNCHANGED client /\ pc' \notin LivePcs
      BY <2>2 DEF Sync, PrimePillarCache, PrimePillarCacheFails, SyncReadDbHeight, SyncComplete,
                  SyncBehind, SyncFetch, SyncFetchEmpty, SyncCallFails, SyncProcess,
                  SyncProcessFails, SyncEmit, SyncAdvance, BackoffOver, LivePcs
    <3> QED
      BY <3>1 DEF client
  <2> QED
    BY <1>4, <2>1, <2>2
<1>5. CASE Live
  <2>1. UNCHANGED <<client, frontier>>
    BY <1>5 DEF Live, DrainRestart, LoadClient, Subscribe, SubscribeFails, SessionRestart,
                SessionReceive, LiveFetch, LiveFetchFails, LiveProcess, LiveProcessFails,
                LiveEmit, chain
  <2>2. pc' \in LivePcs => pushed' <= frontier[subNode']
    BY <1>5 DEF Live, DrainRestart, LoadClient, Subscribe, SubscribeFails, SessionRestart,
                SessionReceive, LiveFetch, LiveFetchFails, LiveProcess, LiveProcessFails,
                LiveEmit, LiveAdvance, SessionOver, LivePcs, session
  <2> QED
    BY <2>1, <2>2 DEF client
<1>6. CASE Environment
  <2>1. ASSUME NEW n \in Nodes, NodeAdvance(n) PROVE LinkInv'
    BY <2>1 DEF NodeAdvance, Subscribed, main, client
  <2>2. ASSUME NEW n \in Nodes, SwapActiveClient(n) PROVE LinkInv'
    BY <2>2 DEF SwapActiveClient, main, session, chain
  <2>3. CASE ConnectionLost
    BY <2>3 DEF ConnectionLost, main, chain
  <2>4. CASE ConnectionEstablished
    BY <2>4 DEF ConnectionEstablished, main, session, chain
  <2>5. CASE OldClientStopped
    BY <2>5 DEF OldClientStopped, main, client, chain
  <2>6. CASE SignalSubscriptionRestart \/ WatchdogRestart \/ CachedDataRefresh
    BY <2>6 DEF SignalSubscriptionRestart, WatchdogRestart, CachedDataRefresh, main, client, session, chain
  <2>7. CASE SessionChannelClosed
    BY <2>7 DEF SessionChannelClosed, SessionOver, client, LivePcs
  <2> QED
    BY <1>6, <2>1, <2>2, <2>3, <2>4, <2>5, <2>6, <2>7 DEF Environment
<1>7. ASSUME NEW j \in Jobs, Backfill(j) PROVE LinkInv'
  <2>1. UNCHANGED <<main, client, session, chain>>
    BY <1>7 DEF Backfill, BackfillScan, BackfillProcess, BackfillFetchFails,
                BackfillMomentumDirect, BackfillEmit
  <2> QED
    BY <2>1 DEF main, client, session, chain
<1>8. CASE BackfillReturns \/ ToolExits
  BY <1>8 DEF BackfillReturns, ToolExits, main, client, session, chain, LivePcs
<1> QED
  BY <1>1, <1>2, <1>3, <1>4, <1>5, <1>6, <1>7, <1>8 DEF Next, Crash

----------------------------------------------------------------------------
(***************************************************************************)
(* Losses                                                                  *)
(***************************************************************************)

\* What is dealt with stays dealt with.
LEMMA BelowKept ==
  ASSUME TableGrows, NEW h, Below(h)
  PROVE  \A k \in Heights : k <= h /\ stored'[k] = "absent" => k \in gaveUp'
BY DEF TableGrows, Below

\* A session never loses sight of a height below its position: it is stored,
\* or it is recorded as given up.
LEMMA LossStep == IInv /\ [Next]_vars => LossInv'
<1> SUFFICES ASSUME IInv, [Next]_vars PROVE LossInv'
  OBVIOUS
<1>0. TypeOK /\ LoopInv /\ LossInv /\ TableGrows
  BY TableStep DEF IInv
<1>01. /\ next \in 0..MaxHeight /\ last \in 0..MaxHeight /\ recvd \in 0..MaxHeight
       /\ frontier \in [Nodes -> Heights] /\ subNode \in Nodes
  BY <1>0 DEF TypeOK, MainType, SessionType
<1>02. ASSUME pc' \notin LivePcs PROVE LossInv'
  BY <1>02 DEF LossInv, LivePcs
<1>03. ASSUME UNCHANGED <<pc, next, recvd>> PROVE LossInv'
  BY <1>0, <1>03, BelowKept DEF LossInv, Below
<1>1. CASE UNCHANGED vars
  BY <1>1, <1>03 DEF vars, main, session
<1>2. CASE Startup \/ Crash
  BY <1>2, <1>02 DEF Startup, Boot, Crash, ProcessGone, LivePcs
<1>3. CASE Sync
  <2>1. pc' \notin LivePcs
    BY <1>3 DEF Sync, PrimePillarCache, PrimePillarCacheFails, SyncReadDbHeight, SyncComplete,
                SyncBehind, SyncFetch, SyncFetchEmpty, SyncCallFails, SyncProcess,
                SyncProcessFails, SyncEmit, SyncAdvance, BackoffOver, SyncError, ProcessGone,
                LivePcs
  <2> QED
    BY <1>02, <2>1
<1>4. CASE Live
  <2>1. CASE DrainRestart \/ LoadClient \/ SubscribeFails \/ SessionRestart
    BY <1>02, <2>1 DEF DrainRestart, LoadClient, SubscribeFails, SessionRestart, SessionOver, LivePcs
  <2>2. CASE Subscribe
    <3>1. /\ pc' = "live" /\ recvd' = frontier[subNode] /\ UNCHANGED stored
          /\ gaveUp' = gaveUp \cup Window(subNode)
      BY <2>2 DEF Subscribe, db
    <3> QED
      BY <3>1 DEF LossInv, Below, Window
  <2>3. CASE SessionReceive
    <3>1. /\ pc = "live" /\ pc' = "liveFetch" /\ next' - 1 = recvd
      BY <1>01, <2>3 DEF SessionReceive
    <3> QED
      BY <1>0, <3>1, BelowKept DEF LossInv, Below
  <2>4. CASE LiveFetch
    BY <1>0, <2>4, BelowKept DEF LiveFetch, LossInv, Below
  <2>5. CASE LiveProcess
    <3>1. pc = "liveProcess" /\ pc' = "liveEmit" /\ next' = next /\ Below(next - 1) /\ next \in Heights
      BY <1>0, <1>01, <2>5 DEF LiveProcess, LoopInv, LossInv, LivePcs
    <3>2. stored'[next] # "absent"
      BY <1>0, <2>5, <3>1, ProcessMomentumStores DEF LiveProcess
    <3>3. ASSUME NEW k \in Heights, k <= next, stored'[k] = "absent" PROVE k \in gaveUp'
      <4>1. k <= next - 1
        BY <3>1, <3>2, <3>3
      <4> QED
        BY <1>0, <3>1, <3>3, <4>1, BelowKept
    <3> QED
      BY <3>1, <3>3 DEF LossInv, Below
  <2>6. CASE LiveFetchFails \/ LiveProcessFails \/ LiveEmit
    <3>1. pc \in LivePcs \ {"live"} /\ LiveAdvance /\ UNCHANGED recvd
      BY <2>6 DEF LiveFetchFails, LiveProcessFails, LiveEmit, LivePcs, session
    <3>2. next \in 1..last /\ last = recvd
      BY <1>0, <3>1 DEF LoopInv
    <3>3. \A k \in Heights : k <= next /\ stored'[k] = "absent" => k \in gaveUp'
      <4>1. CASE LiveEmit
        BY <1>0, <4>1, BelowKept DEF LiveEmit, LossInv
      <4>2. CASE LiveFetchFails \/ LiveProcessFails
        <5>1. Below(next - 1) /\ next \in gaveUp'
          BY <1>0, <4>2 DEF LiveFetchFails, LiveProcessFails, LossInv
        <5>2. \A k \in Heights : k <= next - 1 /\ stored'[k] = "absent" => k \in gaveUp'
          BY <1>0, <5>1, BelowKept
        <5> QED
          BY <1>01, <5>1, <5>2
      <4> QED
        BY <2>6, <4>1, <4>2
    <3>4. CASE next < last
      BY <1>01, <3>1, <3>3, <3>4 DEF LiveAdvance, LossInv, Below
    <3>5. CASE ~(next < last)
      BY <1>01, <3>1, <3>2, <3>3, <3>5 DEF LiveAdvance, LossInv, Below
    <3> QED
      BY <3>4, <3>5
  <2> QED
    BY <1>4, <2>1, <2>2, <2>3, <2>4, <2>5, <2>6 DEF Live
<1>5. CASE Environment
  <2>1. CASE SessionChannelClosed
    BY <1>02, <2>1 DEF SessionChannelClosed, SessionOver, LivePcs
  <2>2. CASE ~SessionChannelClosed
    <3>1. UNCHANGED <<pc, next, recvd>>
      BY <1>5, <2>2 DEF Environment, NodeAdvance, SwapActiveClient, ConnectionLost,
           ConnectionEstablished, OldClientStopped, SignalSubscriptionRestart,
           WatchdogRestart, CachedDataRefresh, session, main
    <3> QED
      BY <1>03, <3>1
  <2> QED
    BY <2>1, <2>2
<1>6. ASSUME NEW j \in Jobs, Backfill(j) PROVE LossInv'
  <2>1. UNCHANGED <<main, session>>
    BY <1>6 DEF Backfill, BackfillScan, BackfillProcess, BackfillFetchFails,
                BackfillMomentumDirect, BackfillEmit
  <2> QED
    BY <1>03, <2>1 DEF main, session
<1>7. CASE BackfillReturns
  BY <1>02, <1>7 DEF BackfillReturns, LivePcs
<1>8. CASE ToolExits
  BY <1>03, <1>8 DEF ToolExits, main, session
<1> QED
  BY <1>1, <1>2, <1>3, <1>4, <1>5, <1>6, <1>7, <1>8 DEF Next

\* A step stores at most one momentum: catch-up the one after MAX(height), a
\* session one below which nothing is unaccounted for, a backfill one below
\* MAX(height).  None of them opens a hole that is not recorded.
LEMMA NoOtherLossStep == IInv /\ [Next]_vars => NoOtherLoss'
<1> SUFFICES ASSUME IInv, [Next]_vars, NEW h \in Heights, NEW k \in Heights,
                    h < k, stored'[k] # "absent", stored'[h] = "absent"
             PROVE  h \in gaveUp'
  BY DEF NoOtherLoss
<1>0. TypeOK /\ LoopInv /\ LossInv /\ NoOtherLoss /\ TableGrows /\ BackfillInv
  BY TableStep DEF IInv
<1>1. stored[h] = "absent" /\ gaveUp \subseteq gaveUp'
  BY <1>0 DEF TableGrows
<1>2. CASE stored[k] # "absent"
  BY <1>0, <1>1, <1>2 DEF NoOtherLoss
<1>3. CASE SyncProcess
  <2>1. next \in 1..last /\ next \in Heights /\ GetLatestHeight(next - 1)
    BY <1>0, <1>3 DEF SyncProcess, LoopInv, TypeOK, MainType
  <2>2. \A l \in Heights : l # next => stored'[l] = stored[l]
    BY <1>0, <1>3, <2>1, ProcessMomentumStores DEF SyncProcess
  <2>3. CASE k = next
    <3>1. next - 1 \in Heights /\ stored[next - 1] # "absent" /\ h # next - 1 /\ h < next - 1
      BY <1>1, <2>1, <2>3 DEF GetLatestHeight
    <3> QED
      BY <1>0, <1>1, <3>1 DEF NoOtherLoss
  <2> QED
    BY <1>2, <2>2, <2>3
<1>4. CASE LiveProcess
  <2>1. next \in Heights /\ Below(next - 1)
    BY <1>0, <1>4 DEF LiveProcess, LoopInv, LossInv, LivePcs, TypeOK, MainType
  <2>2. \A l \in Heights : l # next => stored'[l] = stored[l]
    BY <1>0, <1>4, <2>1, ProcessMomentumStores DEF LiveProcess
  <2>3. CASE k = next
    BY <1>1, <2>1, <2>3 DEF Below
  <2> QED
    BY <1>2, <2>2, <2>3
<1>5. ASSUME NEW j \in Jobs, Backfill(j) PROVE h \in gaveUp'
  <2>1. CASE k \in blist[j]
    <3>1. PICK l \in Heights : k <= l /\ stored[l] # "absent"
      BY <1>0, <2>1 DEF BackfillInv
    <3> QED
      BY <1>0, <1>1, <3>1 DEF NoOtherLoss
  <2> QED
    BY <1>0, <1>2, <1>5, <2>1, BackfillStores
<1>6. CASE UNCHANGED stored
  BY <1>2, <1>6
<1>7. \/ UNCHANGED stored \/ SyncProcess \/ LiveProcess
      \/ \E j \in Jobs : Backfill(j)
  <2>1. CASE UNCHANGED vars \/ Startup \/ Crash \/ Environment \/ BackfillReturns \/ ToolExits
    <3>1. UNCHANGED db
      BY <2>1 DEF vars, Startup, Boot, Crash, Environment, NodeAdvance, SwapActiveClient,
                  ConnectionLost, ConnectionEstablished, OldClientStopped, SessionChannelClosed,
                  SignalSubscriptionRestart, WatchdogRestart, CachedDataRefresh, BackfillReturns, ToolExits
    <3> QED
      BY <3>1 DEF db
  <2>2. CASE Sync
    BY <2>2 DEF Sync, PrimePillarCache, PrimePillarCacheFails, SyncReadDbHeight, SyncComplete,
                SyncBehind, SyncFetch, SyncFetchEmpty, SyncCallFails, SyncProcessFails,
                SyncEmit, BackoffOver, db
  <2>3. CASE Live
    BY <2>3 DEF Live, DrainRestart, LoadClient, Subscribe, SubscribeFails, SessionRestart,
                SessionReceive, LiveFetch, LiveFetchFails, LiveProcessFails, LiveEmit, db
  <2> QED
    BY <2>1, <2>2, <2>3 DEF Next
<1> QED
  BY <1>3, <1>4, <1>5, <1>6, <1>7

----------------------------------------------------------------------------
(***************************************************************************)
(* The backfill                                                            *)
(***************************************************************************)

\* The part of BackfillInv that says a list stays below MAX(height).
ListsBelowMax ==
  \A j \in Jobs : \A h \in blist[j] : \E k \in Heights : h <= k /\ stored[k] # "absent"

\* Lists only shrink, except in a scan, which stops at MAX(height).
LEMMA ListsStep ==
  ASSUME IInv, [Next]_vars
  PROVE  ListsBelowMax'
<1>0. TypeOK /\ FillType /\ ListsBelowMax /\ TableGrows
  BY TableStep DEF IInv, TypeOK, BackfillInv, ListsBelowMax
<1>1. ASSUME \A j \in Jobs : blist'[j] \subseteq blist[j] PROVE ListsBelowMax'
  BY <1>0, <1>1 DEF ListsBelowMax, TableGrows, FillType
<1>2. CASE UNCHANGED vars \/ Startup \/ Environment \/ Live \/ BackfillReturns
  <2>1. UNCHANGED blist
    BY <1>2 DEF vars, Startup, Boot, Environment, NodeAdvance, SwapActiveClient,
                ConnectionLost, ConnectionEstablished, OldClientStopped, SessionChannelClosed,
                SignalSubscriptionRestart, WatchdogRestart, CachedDataRefresh, BackfillReturns,
                Live, DrainRestart, LoadClient, Subscribe, SubscribeFails, SessionRestart,
                SessionReceive, LiveFetch, LiveFetchFails, LiveProcess, LiveProcessFails,
                LiveEmit, fill
  <2> QED
    BY <1>1, <2>1
<1>3. ASSUME ProcessGone PROVE ListsBelowMax'
  BY <1>0, <1>1, <1>3 DEF ProcessGone, Jobs, FillType
<1>4. CASE Sync
  <2>1. ProcessGone \/ UNCHANGED fill
    BY <1>4 DEF Sync, PrimePillarCache, PrimePillarCacheFails, SyncReadDbHeight, SyncComplete,
                SyncBehind, SyncFetch, SyncFetchEmpty, SyncCallFails, SyncProcess,
                SyncProcessFails, SyncEmit, BackoffOver, SyncError
  <2> QED
    BY <1>1, <1>3, <2>1 DEF fill
<1>5. ASSUME NEW j \in Jobs, Backfill(j) PROVE ListsBelowMax'
  <2>1. CASE BackfillScan(j)
    <3>1. PICK top \in 0..MaxHeight :
            GetLatestHeight(top) /\ blist' = [blist EXCEPT ![j] = MissingHeights(top)]
      BY <2>1 DEF BackfillScan
    <3>2. \A h \in MissingHeights(top) : \E k \in Heights : h <= k /\ stored[k] # "absent"
      BY <3>1 DEF MissingHeights, GetLatestHeight
    <3>3. UNCHANGED stored
      BY <2>1 DEF BackfillScan, db
    <3> QED
      BY <1>0, <3>1, <3>2, <3>3 DEF ListsBelowMax, FillType
  <2>2. ASSUME NEW h, JobDrops(j, h) PROVE ListsBelowMax'
    BY <1>0, <1>1, <2>2 DEF JobDrops, FillType
  <2>3. CASE UNCHANGED blist
    BY <1>1, <2>3
  <2>4. BackfillScan(j) \/ UNCHANGED blist \/ \E h : JobDrops(j, h)
    BY <1>5 DEF Backfill, BackfillProcess, BackfillFetchFails, BackfillMomentumDirect, BackfillEmit
  <2> QED
    BY <2>1, <2>2, <2>3, <2>4
<1>6. CASE ToolExits
  BY <1>0, <1>1, <1>6 DEF ToolExits, Jobs, FillType
<1> QED
  BY <1>2, <1>3, <1>4, <1>5, <1>6 DEF Next, Crash

\* The part of BackfillInv about each job's own position.
JobPositions ==
  /\ \A j \in Jobs : bpc[j] \in {"idle", "done"} => blist[j] = {}
  /\ bpc["tool"] # "emit"
  /\ bpc["startup"] = "emit" => bheight["startup"] \in blist["startup"]
  /\ bpc["startup"] # "idle" => pc = "backfill"

\* A job is in its loop exactly while its list is not empty, and the start-up
\* backfill runs only before Run.
LEMMA PositionsStep ==
  ASSUME IInv, [Next]_vars
  PROVE  JobPositions'
<1>0. TypeOK /\ FillType /\ JobPositions
  BY DEF IInv, TypeOK, BackfillInv, JobPositions
<1>1. ASSUME UNCHANGED <<bpc, blist, bheight>>, pc = "backfill" => pc' = "backfill"
      PROVE  JobPositions'
  BY <1>0, <1>1 DEF JobPositions
<1>2. CASE UNCHANGED vars \/ Startup \/ Environment \/ Live
  <2>1. UNCHANGED fill
    BY <1>2 DEF vars, Startup, Boot, Environment, NodeAdvance, SwapActiveClient,
                ConnectionLost, ConnectionEstablished, OldClientStopped, SessionChannelClosed,
                SignalSubscriptionRestart, WatchdogRestart, CachedDataRefresh,
                Live, DrainRestart, LoadClient, Subscribe, SubscribeFails, SessionRestart,
                SessionReceive, LiveFetch, LiveFetchFails, LiveProcess, LiveProcessFails,
                LiveEmit
  <2>2. pc = "backfill" => pc' = "backfill"
    BY <1>2 DEF vars, Startup, Boot, Environment, NodeAdvance, SwapActiveClient,
                ConnectionLost, ConnectionEstablished, OldClientStopped, SessionChannelClosed,
                SignalSubscriptionRestart, WatchdogRestart, CachedDataRefresh, main,
                Live, DrainRestart, LoadClient, Subscribe, SubscribeFails, SessionRestart,
                SessionReceive, LiveFetch, LiveFetchFails, LiveProcess, LiveProcessFails,
                LiveEmit
  <2> QED
    BY <1>1, <2>1, <2>2 DEF fill
<1>3. ASSUME ProcessGone PROVE JobPositions'
  BY <1>0, <1>3 DEF ProcessGone, JobPositions, FillType, Jobs
<1>4. CASE Sync
  <2>1. ProcessGone \/ (UNCHANGED fill /\ pc # "backfill")
    BY <1>4 DEF Sync, PrimePillarCache, PrimePillarCacheFails, SyncReadDbHeight, SyncComplete,
                SyncBehind, SyncFetch, SyncFetchEmpty, SyncCallFails, SyncProcess,
                SyncProcessFails, SyncEmit, BackoffOver, SyncError
  <2> QED
    BY <1>1, <1>3, <2>1 DEF fill
<1>5. ASSUME NEW j \in Jobs, Backfill(j) PROVE JobPositions'
  <2>0. UNCHANGED pc
    BY <1>5 DEF Backfill, BackfillScan, BackfillProcess, BackfillFetchFails,
                BackfillMomentumDirect, BackfillEmit, main
  <2>1. CASE BackfillScan(j)
    BY <1>0, <2>0, <2>1 DEF BackfillScan, JobPositions, FillType, Jobs
  <2>2. ASSUME NEW h, JobDrops(j, h), bpc[j] \in {"work", "emit"},
               bheight' = bheight \/ bheight' = [bheight EXCEPT ![j] = 0]
        PROVE  JobPositions'
    BY <1>0, <2>0, <2>2 DEF JobDrops, JobPositions, FillType, Jobs
  <2>3. ASSUME NEW h \in Heights, BackfillProcess(j, h), j = "startup" PROVE JobPositions'
    BY <1>0, <2>0, <2>3 DEF BackfillProcess, NextMissing, JobPositions, FillType, Jobs
  <2>4. \/ BackfillScan(j)
        \/ \E h : /\ JobDrops(j, h) /\ bpc[j] \in {"work", "emit"}
                  /\ bheight' = bheight \/ bheight' = [bheight EXCEPT ![j] = 0]
        \/ \E h \in Heights : BackfillProcess(j, h) /\ j = "startup"
    BY <1>5 DEF Backfill, BackfillProcess, BackfillFetchFails, BackfillMomentumDirect,
                BackfillEmit, NextMissing
  <2> QED
    BY <2>1, <2>2, <2>3, <2>4
<1>6. CASE BackfillReturns
  BY <1>0, <1>6 DEF BackfillReturns, JobPositions, FillType, Jobs
<1>7. CASE ToolExits
  BY <1>0, <1>7 DEF ToolExits, JobPositions, FillType, Jobs, main
<1> QED
  BY <1>2, <1>3, <1>4, <1>5, <1>6, <1>7 DEF Next, Crash

\* The part of BackfillInv about what the start-up backfill has covered.
StartupCovers ==
  /\ bpc["startup"] = "emit" => stored[bheight["startup"]] = "full" \/ bclean["startup"] = "dirty"
  /\ bpc["startup"] # "idle" /\ bclean["startup"] = "clean" =>
       \A h, k \in Heights :
         h <= k /\ stored[k] # "absent" => stored[h] = "full" \/ h \in blist["startup"]

\* The start-up backfill's own steps drop a height from the list only when it
\* is complete or the run has become unclean; nobody else moves MAX(height)
\* meanwhile, as the main goroutine is waiting and a tool works below it.
LEMMA CoversStep ==
  ASSUME IInv, [Next]_vars
  PROVE  StartupCovers'
<1>0. TypeOK /\ FillType /\ DbType /\ JobPositions /\ StartupCovers /\ ListsBelowMax /\ TableGrows
  BY TableStep DEF IInv, TypeOK, BackfillInv, JobPositions, StartupCovers, ListsBelowMax
<1>1. ASSUME bpc'["startup"] = "idle" PROVE StartupCovers'
  BY <1>1 DEF StartupCovers
<1>2. ASSUME /\ bpc'["startup"] = bpc["startup"] /\ blist'["startup"] = blist["startup"]
             /\ bheight'["startup"] = bheight["startup"] /\ bclean'["startup"] = bclean["startup"],
             \A k \in Heights : stored'[k] # "absent" =>
                \E l \in Heights : k <= l /\ stored[l] # "absent"
      PROVE  StartupCovers'
  <2>1. bpc["startup"] = "emit" => bheight["startup"] \in Heights
    BY <1>0 DEF JobPositions, FillType, Jobs
  <2>2. bpc'["startup"] = "emit" => stored'[bheight'["startup"]] = "full" \/ bclean'["startup"] = "dirty"
    BY <1>0, <1>2, <2>1 DEF StartupCovers, TableGrows
  <2>3. ASSUME bpc["startup"] # "idle", bclean["startup"] = "clean", NEW h \in Heights,
               NEW k \in Heights, h <= k, stored'[k] # "absent"
        PROVE  stored'[h] = "full" \/ h \in blist["startup"]
    <3>1. PICK l \in Heights : k <= l /\ stored[l] # "absent"
      BY <1>2, <2>3
    <3>2. stored[h] = "full" \/ h \in blist["startup"]
      BY <1>0, <2>3, <3>1 DEF StartupCovers
    <3> QED
      BY <1>0, <3>2 DEF TableGrows
  <2> QED
    BY <1>2, <2>2, <2>3 DEF StartupCovers
<1>3. ASSUME UNCHANGED <<stored, fill>> PROVE StartupCovers'
  BY <1>0, <1>3 DEF StartupCovers, fill
<1>4. CASE UNCHANGED vars \/ Startup \/ Environment
  <2>1. UNCHANGED <<stored, fill>>
    BY <1>4 DEF vars, Startup, Boot, Environment, NodeAdvance, SwapActiveClient,
                ConnectionLost, ConnectionEstablished, OldClientStopped, SessionChannelClosed,
                SignalSubscriptionRestart, WatchdogRestart, CachedDataRefresh, db
  <2> QED
    BY <1>3, <2>1
<1>5. ASSUME ProcessGone PROVE StartupCovers'
  BY <1>0, <1>1, <1>5 DEF ProcessGone, FillType, Jobs
<1>6. CASE Sync \/ Live
  <2>1. ProcessGone \/ (UNCHANGED fill /\ pc # "backfill")
    BY <1>6 DEF Sync, PrimePillarCache, PrimePillarCacheFails, SyncReadDbHeight, SyncComplete,
                SyncBehind, SyncFetch, SyncFetchEmpty, SyncCallFails, SyncProcess,
                SyncProcessFails, SyncEmit, BackoffOver, SyncError,
                Live, DrainRestart, LoadClient, Subscribe, SubscribeFails, SessionRestart,
                SessionReceive, LiveFetch, LiveFetchFails, LiveProcess, LiveProcessFails, LiveEmit
  <2>2. CASE UNCHANGED fill /\ pc # "backfill"
    BY <1>0, <1>1, <2>2 DEF JobPositions, fill
  <2> QED
    BY <1>5, <2>1, <2>2
<1>7. CASE Backfill("tool")
  <2>1. /\ bpc'["startup"] = bpc["startup"] /\ blist'["startup"] = blist["startup"]
        /\ bheight'["startup"] = bheight["startup"] /\ bclean'["startup"] = bclean["startup"]
    BY <1>0, <1>7 DEF Backfill, BackfillScan, BackfillProcess, BackfillFetchFails,
                      BackfillMomentumDirect, BackfillEmit, JobDrops, FillType, Jobs
  <2>2. ASSUME NEW k \in Heights, stored'[k] # "absent"
        PROVE  \E l \in Heights : k <= l /\ stored[l] # "absent"
    <3>1. "tool" \in Jobs
      BY DEF Jobs
    <3>2. stored[k] # "absent" \/ k \in blist["tool"]
      BY <1>0, <1>7, <2>2, <3>1, BackfillStores
    <3> QED
      BY <1>0, <3>1, <3>2 DEF ListsBelowMax
  <2> QED
    BY <1>2, <2>1, <2>2
<1>8. CASE Backfill("startup")
  <2>0. "startup" \in Jobs
    BY DEF Jobs
  <2>1. CASE BackfillScan("startup")
    <3>1. PICK top \in 0..MaxHeight :
            /\ GetLatestHeight(top)
            /\ blist' = [blist EXCEPT !["startup"] = MissingHeights(top)]
            /\ bpc' = [bpc EXCEPT !["startup"] =
                          IF MissingHeights(top) = {} THEN "done" ELSE "work"]
      BY <2>1 DEF BackfillScan
    <3>2. blist'["startup"] = MissingHeights(top) /\ bpc'["startup"] # "emit" /\ UNCHANGED stored
      BY <1>0, <2>0, <2>1, <3>1 DEF BackfillScan, FillType, db
    <3> QED
      BY <3>1, <3>2 DEF StartupCovers, MissingHeights, GetLatestHeight
  <2>2. ASSUME NEW h \in Heights, BackfillProcess("startup", h) PROVE StartupCovers'
    <3>1. ProcessMomentum(h, TRUE) /\ h \in blist["startup"] /\ bpc["startup"] = "work"
      BY <2>2 DEF BackfillProcess, NextMissing
    <3>2. /\ blist' = blist /\ bheight'["startup"] = h
          /\ bclean'["startup"] = IF faults' = faults THEN bclean["startup"] ELSE "dirty"
      BY <1>0, <2>0, <2>2 DEF BackfillProcess, FillType
    <3>3. ASSUME faults' = faults PROVE stored'[h] = "full"
      <4>1. Commit(h, "full")
        BY <1>0, <3>1, <3>3 DEF ProcessMomentum, Fault, TypeOK, BoundsType
      <4> QED
        BY <1>0, <4>1 DEF Commit, Better, DbType
    <3>4. \A k \in Heights : k # h => stored'[k] = stored[k]
      BY <1>0, <3>1, ProcessMomentumStores
    <3>5. ASSUME bclean'["startup"] = "clean", NEW g \in Heights, NEW k \in Heights, g <= k,
                 stored'[k] # "absent"
          PROVE  stored'[g] = "full" \/ g \in blist'["startup"]
      <4>1. bclean["startup"] = "clean"
        BY <3>2, <3>5
      <4>2. PICK l \in Heights : g <= l /\ stored[l] # "absent"
        BY <1>0, <2>0, <3>1, <3>4, <3>5 DEF ListsBelowMax
      <4>3. stored[g] = "full" \/ g \in blist["startup"]
        BY <1>0, <3>1, <4>1, <4>2 DEF StartupCovers
      <4> QED
        BY <1>0, <3>2, <4>3 DEF TableGrows
    <3>6. stored'[bheight'["startup"]] = "full" \/ bclean'["startup"] = "dirty"
      BY <3>2, <3>3
    <3> QED
      BY <3>5, <3>6 DEF StartupCovers
  <2>3. ASSUME NEW h \in Heights, BackfillFetchFails("startup", h) \/ BackfillMomentumDirect("startup", h)
        PROVE  StartupCovers'
    <3>1. bclean'["startup"] = "dirty"
      BY <1>0, <2>0, <2>3 DEF BackfillFetchFails, BackfillMomentumDirect, FillType
    <3> QED
      BY <3>1 DEF StartupCovers
  <2>4. CASE BackfillEmit("startup")
    <3>1. /\ bpc["startup"] = "emit" /\ bpc'["startup"] # "emit"
          /\ blist'["startup"] = blist["startup"] \ {bheight["startup"]}
          /\ UNCHANGED <<stored, bclean>>
      BY <1>0, <2>0, <2>4 DEF BackfillEmit, JobDrops, FillType
    <3> QED
      BY <1>0, <3>1 DEF StartupCovers
  <2> QED
    BY <1>8, <2>1, <2>2, <2>3, <2>4 DEF Backfill
<1>9. CASE BackfillReturns
  BY <1>0, <1>1, <1>9 DEF BackfillReturns, FillType, Jobs
<1>10. CASE ToolExits
  BY <1>0, <1>10 DEF ToolExits, StartupCovers, FillType, Jobs, db
<1> QED
  BY <1>4, <1>5, <1>6, <1>7, <1>8, <1>9, <1>10 DEF Next, Crash, Jobs

\* BackfillInv is the three parts together.
LEMMA BackfillStep == IInv /\ [Next]_vars => BackfillInv'
BY ListsStep, PositionsStep, CoversStep DEF BackfillInv, ListsBelowMax, JobPositions, StartupCovers

----------------------------------------------------------------------------
(***************************************************************************)
(* The theorems                                                            *)
(***************************************************************************)

\* IInv is an invariant of the specification.
THEOREM Inductive == Spec => []IInv
<1>1. Init => IInv
  BY InitIInv
<1>2. IInv /\ [Next]_vars => IInv'
  BY TypeStep, StaleStep, PrimedStep, NoOtherLossStep, LoopStep, LinkStep, LossStep, BackfillStep
     DEF IInv
<1> QED
  BY <1>1, <1>2, PTL DEF Spec

\* Type correctness: in particular no loop of sync, of the session or of a
\* backfill handles a height that does not exist.
THEOREM TypeCorrect == Spec => []TypeOK
<1>1. IInv => TypeOK
  BY DEF IInv
<1> QED
  BY <1>1, Inductive, PTL

\* A session on a replaced client always has a restart signal coming, however
\* swaps, reconnections, the drain and the subscribe call interleave.
THEOREM StaleSessionsAreSignalled == Spec => []StaleSessionSignalled
<1>1. IInv => StaleSessionSignalled
  BY DEF IInv
<1> QED
  BY <1>1, Inductive, PTL

\* sync and the session never process a momentum with an empty pillar map.
THEOREM AlwaysPrimed == Spec => []PrimedBeforeProcessing
<1>1. IInv => PrimedBeforeProcessing
  BY DEF IInv
<1> QED
  BY <1>1, Inductive, PTL

\* Every hole below MAX(height) was left by a live session; catch-up, client
\* swaps, reconnections, crashes and backfills open none.
THEOREM OnlySessionsLose == Spec => []NoOtherLoss
<1>1. IInv => NoOtherLoss
  BY DEF IInv
<1> QED
  BY <1>1, Inductive, PTL

\* A start-up backfill that returns without a failed momentum leaves nothing
\* incomplete up to MAX(height), whatever a cmd/backfill beside it does.
THEOREM StartupBackfillIsComplete == Spec => []StartupBackfillRepairs
<1>1. IInv => StartupBackfillRepairs
  BY DEF IInv, BackfillInv, StartupBackfillRepairs, Jobs
<1> QED
  BY <1>1, Inductive, PTL

\* The catch-up loop commits exactly the momentum after MAX(height).
THEOREM CatchUpOnlyAppends == Spec => CatchUpAppends
<1>1. IInv /\ [Next]_vars => [SyncCommits => GetLatestHeight(next - 1)]_vars
  BY DEF IInv, LoopInv, SyncCommits
<1> QED
  BY <1>1, Inductive, PTL DEF Spec, CatchUpAppends
=============================================================================
