-------------------------- MODULE Watchdog_proofs ---------------------------
(***************************************************************************)
(* Proofs about Watchdog for every pool of nodes, assignment of chains,    *)
(* pair of streak thresholds and number of errors.                         *)
(***************************************************************************)
EXTENDS Watchdog, TLAPS

USE WatchdogAssumption DEF Idx

\* Counting keeps a streak in its range.
LEMMA IncStreak == \A n \in 0..MaxStreak : Inc(n) \in 0..MaxStreak
BY DEF Inc

\* classify gives every tick a class.
LEMMA ClassifyType ==
  ASSUME TypeOK, NEW p \in Conds
  PROVE  classify(p) \in Classes
BY DEF TypeOK, classify, Conds, Classes

\* The initial state satisfies the inductive invariant.
LEMMA InitIInv == Init => IInv
<1> SUFFICES ASSUME Init PROVE IInv
  OBVIOUS
<1> USE DEF Init, NoStreaks
<1>1. TypeOK
  <2>1. row \in Rows
    BY DEF Rows
  <2> QED
    BY <2>1 DEF TypeOK, Conds, Classes, Pcs, Chains, Streaks
<1>2. TickInv /\ StateInv /\ StaysOnChain /\ FailbackEarned
  BY DEF TickInv, StateInv, StaysOnChain, FailbackEarned
<1> QED
  BY <1>1, <1>2 DEF IInv

\* A process that has gone satisfies the invariant.
LEMMA ProcessGoneStep ==
  ASSUME IInv, ProcessGone, UNCHANGED <<nodes, row>>, errors' \in 0..MaxErrors
  PROVE  IInv'
<1> USE DEF ProcessGone, NoStreaks, nodes
<1>1. TypeOK'
  BY DEF IInv, TypeOK, Conds, Classes, Pcs, Chains, Streaks
<1>2. (TickInv /\ StateInv /\ StaysOnChain /\ FailbackEarned)'
  BY DEF TickInv, StateInv, StaysOnChain, FailbackEarned
<1> QED
  BY <1>1, <1>2 DEF IInv

\* A step of the surroundings touches nothing of the process.
LEMMA SurroundingsStep ==
  ASSUME IInv, UNCHANGED <<client, state, wpc, tick, good, errors>>, row' \in Rows,
         cond' \in [Idx -> Conds], lag' \in {"near", "far"}, progress' \in {"recent", "stale"}
  PROVE  IInv'
<1> USE DEF state, tick
<1>1. TypeOK'
  BY DEF IInv, TypeOK
<1>2. TickInv' /\ StateInv' /\ StaysOnChain' /\ FailbackEarned'
  BY DEF IInv, TickInv, StateInv, StaysOnChain, FailbackEarned
<1> QED
  BY <1>1, <1>2 DEF IInv

\* The start-up probe and swap.
LEMMA StartupStep == IInv /\ Startup => IInv'
<1> SUFFICES ASSUME IInv, Startup PROVE IInv'
  OBVIOUS
<1>0. TypeOK /\ TickInv /\ StateInv /\ StaysOnChain
  BY DEF IInv
<1>01. errors \in 0..MaxErrors /\ cand \in 0..NumNodes
  BY <1>0 DEF TypeOK
<1>1. CASE Boot
  <2>1. TypeOK'
    BY <1>0, <1>1 DEF Boot, TypeOK, nodes, state, tick, Pcs
  <2>2. (TickInv /\ StateInv /\ StaysOnChain /\ FailbackEarned)'
    BY <1>0, <1>1 DEF Boot, TickInv, StateInv, StaysOnChain, FailbackEarned, state, tick
  <2> QED
    BY <2>1, <2>2 DEF IInv
<1>2. ASSUME NextStartupNode, wpc \in {"startup", "startupSwap"},
             UNCHANGED <<nodes, row>>, errors' \in 0..MaxErrors
      PROVE  IInv'
  <2>1. CASE ProcessGone
    BY <1>2, <2>1, ProcessGoneStep
  <2>2. CASE /\ cand + 1 < NumNodes
             /\ wpc' = "startup" /\ cand' = cand + 1
             /\ UNCHANGED <<client, state, tidx, tchain, tprobe, class, good>>
    <3>1. TypeOK'
      BY <1>0, <1>2, <2>2 DEF TypeOK, nodes, state, Pcs
    <3>2. (TickInv /\ StateInv /\ StaysOnChain /\ FailbackEarned)'
      BY <1>0, <1>01, <1>2, <2>2 DEF TickInv, StateInv, StaysOnChain, FailbackEarned, state
    <3> QED
      BY <3>1, <3>2 DEF IInv
  <2> QED
    BY <1>2, <2>1, <2>2 DEF NextStartupNode
<1>3. CASE StartupProbeFails
  BY <1>01, <1>2, <1>3 DEF StartupProbeFails
<1>4. CASE StartupSwapFails
  BY <1>01, <1>2, <1>4 DEF StartupSwapFails, Error
<1>5. CASE StartupProbeOk
  <2>1. TypeOK'
    BY <1>0, <1>5 DEF StartupProbeOk, TypeOK, nodes, state, tick, Pcs
  <2>2. (TickInv /\ StateInv /\ StaysOnChain /\ FailbackEarned)'
    BY <1>0, <1>5 DEF StartupProbeOk, TickInv, StateInv, StaysOnChain, FailbackEarned, state, tick
  <2> QED
    BY <2>1, <2>2 DEF IInv
<1>6. CASE StartupSwap
  <2>0. cand \in Idx /\ chain = NoChain /\ healthy = NoStreaks
    BY <1>0, <1>6 DEF StartupSwap, TickInv
  <2>1. TypeOK'
    BY <1>0, <1>6, <2>0 DEF StartupSwap, SwapActiveClient, NoStreaks, Streaks, TypeOK, nodes,
                            tick, Pcs
  <2>2. (TickInv /\ StateInv /\ StaysOnChain /\ FailbackEarned)'
    BY <1>0, <1>6, <2>0 DEF StartupSwap, SwapActiveClient, TickInv, StateInv, StaysOnChain,
       FailbackEarned, tick
  <2> QED
    BY <2>1, <2>2 DEF IInv
<1> QED
  BY <1>1, <1>3, <1>4, <1>5, <1>6 DEF Startup

\* The steps of a tick.
LEMMA TickStep == IInv /\ Tick => IInv'
<1> SUFFICES ASSUME IInv, Tick PROVE IInv'
  OBVIOUS
<1>0. TypeOK /\ TickInv /\ StateInv /\ StaysOnChain /\ FailbackEarned
  BY DEF IInv
<1>01. /\ errors \in 0..MaxErrors /\ cand \in 0..NumNodes /\ tidx \in Idx /\ active \in Idx
       /\ healthy \in Streaks /\ unhealthy \in Streaks /\ good \in Streaks
  BY <1>0 DEF TypeOK
<1>02. ASSUME TypeOK', TickInv', StateInv', StaysOnChain', FailbackEarned' PROVE IInv'
  BY <1>02 DEF IInv
<1>1. CASE TickStart
  <2>1. TypeOK'
    BY <1>0, <1>1 DEF TickStart, TypeOK, nodes, state, Pcs
  <2>2. (TickInv /\ StateInv /\ StaysOnChain /\ FailbackEarned)'
    BY <1>0, <1>1 DEF TickStart, TickInv, StateInv, StaysOnChain, FailbackEarned, state
  <2> QED
    BY <1>02, <2>1, <2>2
<1>2. CASE TickDbFails \/ Publish
  <2>1. TypeOK'
    <3>0. row \in Rows /\ Record \in Rows
      BY <1>0, <1>01 DEF TypeOK, Record, Rows
    <3>1. errors' \in 0..MaxErrors /\ row' \in Rows
      BY <1>01, <1>2, <3>0 DEF TickDbFails, Publish, Error
    <3> QED
      BY <1>0, <1>2, <3>1 DEF TickDbFails, Publish, TickOver, TypeOK, nodes, state, Pcs, Conds, Classes
  <2>2. (TickInv /\ StateInv /\ StaysOnChain /\ FailbackEarned)'
    BY <1>0, <1>2 DEF TickDbFails, Publish, TickOver, TickInv, StateInv, StaysOnChain,
                      FailbackEarned, state
  <2> QED
    BY <1>02, <2>1, <2>2
<1>3. CASE TickReact
  <2>0. tidx = active /\ tchain = chain /\ client = active
    BY <1>0, <1>3 DEF TickReact, TickInv, StateInv
  <2>1. PICK c \in Classes :
          /\ class' = c
          /\ healthy' = [healthy EXCEPT ![tidx] = reactHealthy(c)]
          /\ unhealthy' = [unhealthy EXCEPT ![tidx] = reactUnhealthy(c)]
          /\ \/ wpc' = "failover" /\ cand' = tidx + 1
             \/ wpc' = "failback" /\ cand' = 0
             \/ wpc' = "publish" /\ cand' = cand
    BY <1>0, <1>3, ClassifyType DEF TickReact, TypeOK
  <2>2. healthy' \in Streaks /\ unhealthy' \in Streaks
    <3>0. /\ healthy[tidx] \in 0..MaxStreak /\ Inc(healthy[tidx]) \in 0..MaxStreak
          /\ unhealthy[tidx] \in 0..MaxStreak /\ Inc(unhealthy[tidx]) \in 0..MaxStreak
      BY <1>01, IncStreak DEF Streaks
    <3>1. reactHealthy(c) \in 0..MaxStreak /\ reactUnhealthy(c) \in 0..MaxStreak
      BY <3>0 DEF reactHealthy, reactUnhealthy
    <3> QED
      BY <1>01, <2>1, <3>1 DEF Streaks
  <2>3. /\ chain' \in Chains \cup {NoChain} /\ tchain' = chain'
        /\ chain' # NoChain => Genesis[active] = chain'
    BY <1>0, <1>3, <2>0, <1>01 DEF TickReact, StaysOnChain, Chains, TypeOK
  <2>4. UNCHANGED <<nodes, client, active, failedOver, tidx, tprobe, row, good, errors>>
    BY <1>3 DEF TickReact
  <2>5. TypeOK'
    BY <1>0, <1>01, <2>1, <2>2, <2>3, <2>4 DEF TypeOK, nodes, Pcs
  <2>6. TickInv'
    BY <1>01, <2>0, <2>1, <2>3, <2>4 DEF TickInv
  <2>7. StateInv'
    BY <1>0, <1>01, <2>0, <2>1, <2>4 DEF StateInv, Streaks
  <2>8. StaysOnChain' /\ FailbackEarned'
    BY <2>0, <2>1, <2>3, <2>4 DEF StaysOnChain, FailbackEarned
  <2> QED
    BY <1>02, <2>5, <2>6, <2>7, <2>8
<1>4. CASE FailoverProbe
  <2>1. TypeOK'
    BY <1>0, <1>01, <1>4 DEF FailoverProbe, TypeOK, nodes, state, Pcs
  <2>2. TickInv'
    BY <1>0, <1>01, <1>4 DEF FailoverProbe, Acceptable, TickInv, state
  <2>3. StateInv' /\ StaysOnChain' /\ FailbackEarned'
    BY <1>0, <1>4 DEF FailoverProbe, StateInv, StaysOnChain, FailbackEarned, state
  <2> QED
    BY <1>02, <2>1, <2>2, <2>3
<1>5. CASE FailoverSwap \/ FailbackSwap
  <2>0. cand \in Idx /\ (chain = NoChain \/ Genesis[cand] = chain)
    BY <1>0, <1>01, <1>5 DEF FailoverSwap, FailbackSwap, TickInv
  <2>1. /\ client' = cand /\ active' = cand /\ wpc' = "publish" /\ failedOver' \in {"nil", "set"}
        /\ healthy' = NoStreaks /\ unhealthy' = NoStreaks /\ good' = NoStreaks
        /\ UNCHANGED <<nodes, chain, tidx, tchain, tprobe, class, cand, row, errors>>
    BY <1>5 DEF FailoverSwap, FailbackSwap, SwapActiveClient
  <2>2. TypeOK'
    BY <1>0, <2>0, <2>1 DEF TypeOK, NoStreaks, Streaks, nodes, Pcs
  <2>3. (TickInv /\ StateInv /\ StaysOnChain /\ FailbackEarned)'
    BY <2>0, <2>1 DEF TickInv, StateInv, StaysOnChain, FailbackEarned
  <2> QED
    BY <1>02, <2>2, <2>3
<1>6. CASE SwapFails
  <2>1. TypeOK'
    BY <1>0, <1>01, <1>6 DEF SwapFails, Error, TypeOK, nodes, state, tick, Pcs
  <2>2. (TickInv /\ StateInv /\ StaysOnChain /\ FailbackEarned)'
    BY <1>0, <1>6 DEF SwapFails, TickInv, StateInv, StaysOnChain, FailbackEarned, state, tick
  <2> QED
    BY <1>02, <2>1, <2>2
<1>7. CASE FailbackProbe
  <2>0. /\ tidx = active /\ tchain = chain /\ cand \in 0..tidx
        /\ UNCHANGED <<nodes, client, active, unhealthy, chain, failedOver, tidx, tchain,
                       tprobe, class, row, errors>>
    BY <1>0, <1>7 DEF FailbackProbe, TickInv
  <2>1. CASE cand < tidx /\ (cond[cand] # "head" \/ Genesis[cand] # tchain)
    <3>1. /\ healthy' = [healthy EXCEPT ![cand] = 0] /\ good' = [good EXCEPT ![cand] = 0]
          /\ wpc' = "failback" /\ cand' = cand + 1
      BY <1>01, <1>7, <2>1 DEF FailbackProbe
    <3>2. healthy' \in Streaks /\ good' \in Streaks /\ cand' \in 0..NumNodes
      BY <1>01, <2>0, <2>1, <3>1 DEF Streaks
    <3>3. TypeOK'
      BY <1>0, <2>0, <3>1, <3>2 DEF TypeOK, nodes, Pcs
    <3>4. TickInv' /\ StaysOnChain' /\ FailbackEarned'
      BY <1>0, <1>01, <2>0, <2>1, <3>1 DEF TickInv, StaysOnChain, FailbackEarned
    <3>5. StateInv'
      BY <1>0, <1>01, <2>0, <2>1, <3>1 DEF StateInv, Streaks
    <3> QED
      BY <1>02, <3>3, <3>4, <3>5
  <2>2. CASE cand < tidx /\ cond[cand] = "head" /\ Genesis[cand] = tchain
    <3>1. /\ healthy' = [healthy EXCEPT ![cand] = Inc(healthy[cand])]
          /\ good' = [good EXCEPT ![cand] = Inc(good[cand])]
          /\ \/ wpc' = "failbackSwap" /\ cand' = cand /\ Inc(healthy[cand]) >= FailbackStreak
             \/ wpc' = "failback" /\ cand' = cand + 1
      BY <1>01, <1>7, <2>2 DEF FailbackProbe
    <3>2. cand \in Idx /\ cand' \in 0..NumNodes
      BY <1>01, <2>0, <2>2, <3>1
    <3>3. healthy[cand] = good[cand]
      BY <1>0, <2>0, <2>2, <3>2 DEF StateInv
    <3>4. healthy' \in Streaks /\ good' \in Streaks
      <4>1. Inc(healthy[cand]) \in 0..MaxStreak /\ Inc(good[cand]) \in 0..MaxStreak
        BY <1>01, <3>2, IncStreak DEF Streaks
      <4> QED
        BY <1>01, <3>1, <3>2, <4>1 DEF Streaks
    <3>5. TypeOK'
      BY <1>0, <2>0, <3>1, <3>2, <3>4 DEF TypeOK, nodes, Pcs
    <3>6. TickInv' /\ StaysOnChain'
      BY <1>0, <1>01, <2>0, <2>2, <3>1 DEF TickInv, StaysOnChain
    <3>7. StateInv' /\ FailbackEarned'
      BY <1>0, <1>01, <2>0, <3>1, <3>2, <3>3 DEF StateInv, FailbackEarned, Streaks
    <3> QED
      BY <1>02, <3>5, <3>6, <3>7
  <2>3. CASE cand = tidx
    <3>1. wpc' = "publish" /\ UNCHANGED <<healthy, good, cand>>
      BY <1>01, <1>7, <2>3 DEF FailbackProbe
    <3>2. TypeOK'
      BY <1>0, <2>0, <3>1 DEF TypeOK, nodes, Pcs
    <3>3. (TickInv /\ StateInv /\ StaysOnChain /\ FailbackEarned)'
      BY <1>0, <2>0, <3>1 DEF TickInv, StateInv, StaysOnChain, FailbackEarned
    <3> QED
      BY <1>02, <3>2, <3>3
  <2> QED
    BY <1>01, <2>0, <2>1, <2>2, <2>3
<1> QED
  BY <1>1, <1>2, <1>3, <1>4, <1>5, <1>6, <1>7 DEF Tick

\* Every step keeps the inductive invariant.
LEMMA NextStep == IInv /\ [Next]_vars => IInv'
<1> SUFFICES ASSUME IInv, [Next]_vars PROVE IInv'
  OBVIOUS
<1>0. /\ cond \in [Idx -> Conds] /\ lag \in {"near", "far"} /\ progress \in {"recent", "stale"}
      /\ errors \in 0..MaxErrors /\ row \in Rows
  BY DEF IInv, TypeOK
<1>1. CASE UNCHANGED vars
  BY <1>0, <1>1, SurroundingsStep DEF vars, nodes
<1>2. CASE Startup
  BY <1>2, StartupStep
<1>3. CASE Crash
  BY <1>0, <1>3, ProcessGoneStep DEF Crash
<1>4. CASE Tick
  BY <1>4, TickStep
<1>5. CASE Environment
  <2>1. ASSUME NEW i \in Idx, NodeChanges(i) PROVE IInv'
    BY <1>0, <2>1, SurroundingsStep DEF NodeChanges
  <2>2. CASE IndexerChanges
    BY <1>0, <2>2, SurroundingsStep DEF IndexerChanges
  <2>3. CASE RowExpires
    <3>1. row' \in Rows
      BY <1>0, <2>3 DEF RowExpires, Rows
    <3> QED
      BY <1>0, <2>3, <3>1, SurroundingsStep DEF RowExpires, nodes
  <2> QED
    BY <1>5, <2>1, <2>2, <2>3 DEF Environment
<1> QED
  BY <1>1, <1>2, <1>3, <1>4, <1>5 DEF Next

----------------------------------------------------------------------------
(***************************************************************************)
(* The theorems                                                            *)
(***************************************************************************)

\* IInv is an invariant of the specification.
THEOREM Inductive == Spec => []IInv
<1> QED
  BY InitIInv, NextStep, PTL DEF Spec

\* Type correctness: no tick records, probes or publishes a node that is not
\* in the pool, at either end of it.
THEOREM TypeCorrect == Spec => []TypeOK
<1>1. IInv => TypeOK
  BY DEF IInv
<1> QED
  BY <1>1, Inductive, PTL

\* Once the chain identifier is recorded, no failover and no failback leads to
\* a node of another chain.
THEOREM OneChain == Spec => []StaysOnChain
<1>1. IInv => StaysOnChain
  BY DEF IInv
<1> QED
  BY <1>1, Inductive, PTL

\* A failback always rests on FailbackStreak good probes in a row made since
\* the last swap.
THEOREM FailbackIsEarned == Spec => []FailbackEarned
<1>1. IInv => FailbackEarned
  BY DEF IInv
<1> QED
  BY <1>1, Inductive, PTL

----------------------------------------------------------------------------
(***************************************************************************)
(* The two readiness endpoints                                             *)
(***************************************************************************)

\* From its decision to its record a tick has the streak it decided on, or none
\* at all when it has swapped.
ReadyInv ==
  wpc \in {"failover", "failoverSwap", "failback", "failbackSwap", "publish"} =>
    /\ class = "synced" => unhealthy[tidx] = 0
    /\ tidx = active \/ unhealthy = NoStreaks

\* Every step keeps it.
LEMMA ReadyStep == IInv /\ ReadyInv /\ [Next]_vars => ReadyInv'
<1> SUFFICES ASSUME IInv, ReadyInv, [Next]_vars PROVE ReadyInv'
  OBVIOUS
<1>0. TypeOK /\ TickInv
  BY DEF IInv
<1>1. CASE UNCHANGED <<state, wpc, tick>>
  BY <1>1 DEF ReadyInv, state, tick
<1>2. CASE wpc' \in {"off", "startup", "startupSwap", "idle", "classify"}
  BY <1>2 DEF ReadyInv
<1>3. CASE TickReact
  <2>1. tidx = active /\ tidx' = tidx /\ active' = active
    BY <1>0, <1>3 DEF TickReact, TickInv
  <2>2. class' = "synced" => unhealthy' = [unhealthy EXCEPT ![tidx] = 0]
    <3>1. PICK c : class' = c /\ unhealthy' = [unhealthy EXCEPT ![tidx] = reactUnhealthy(c)]
      BY <1>3 DEF TickReact
    <3>2. c = "synced" => reactUnhealthy(c) = 0
      BY DEF reactUnhealthy, NodeProblem
    <3> QED
      BY <3>1, <3>2
  <2>3. unhealthy \in Streaks /\ tidx \in Idx
    BY <1>0 DEF TypeOK
  <2> QED
    BY <2>1, <2>2, <2>3 DEF ReadyInv, Streaks
<1>4. CASE FailoverProbe \/ FailbackProbe \/ SwapFails
  BY <1>4 DEF FailoverProbe, FailbackProbe, SwapFails, ReadyInv, state, tick
<1>5. CASE FailoverSwap \/ FailbackSwap
  <2>1. unhealthy' = NoStreaks /\ tidx' = tidx /\ tidx \in Idx
    BY <1>0, <1>5 DEF FailoverSwap, FailbackSwap, TypeOK
  <2> QED
    BY <2>1 DEF ReadyInv, NoStreaks
<1>6. CASE Startup \/ Crash
  BY <1>2, <1>6 DEF Startup, Boot, StartupProbeFails, StartupProbeOk, StartupSwap,
                    StartupSwapFails, NextStartupNode, Crash, ProcessGone
<1>7. CASE TickStart \/ TickDbFails \/ Publish
  BY <1>2, <1>7 DEF TickStart, TickDbFails, Publish, TickOver
<1>8. CASE Environment \/ UNCHANGED vars
  BY <1>1, <1>8 DEF Environment, NodeChanges, IndexerChanges, RowExpires, vars
<1> QED
  BY <1>3, <1>4, <1>5, <1>6, <1>7, <1>8 DEF Next, Tick

\* A tick that has written its row leaves the API's /readyz (router.go) and the
\* indexer's own (HealthSnapshot) with one verdict, a failover or failback in the
\* tick included, as long as both use one threshold.
THEOREM EndpointsAgree == Spec => ReadinessAgrees
<1>1. Init => ReadyInv
  BY DEF Init, ReadyInv
<1>2. ASSUME IInv, ReadyInv, Publish, row' = Record, UnhealthyStreakForReady = UnhealthyStreak
      PROVE  readyz' <=> HealthSnapshot'
  <2>1. UNCHANGED <<unhealthy, active>> /\ wpc = "publish"
    BY <1>2 DEF Publish, state
  <2>2. tidx \in Idx /\ active \in Idx /\ unhealthy \in Streaks
    BY <1>2 DEF IInv, TypeOK
  <2>3. readyz' <=> ~(class # "synced" /\ unhealthy[tidx] >= UnhealthyStreak)
    BY <1>2 DEF readyz, Record
  <2>4. HealthSnapshot' <=> unhealthy[active] < UnhealthyStreak
    BY <2>1 DEF HealthSnapshot
  <2>5. /\ class = "synced" => unhealthy[tidx] = 0
        /\ tidx = active \/ unhealthy = NoStreaks
    BY <1>2, <2>1 DEF ReadyInv
  <2>6. CASE tidx = active
    BY <2>2, <2>3, <2>4, <2>5, <2>6 DEF Streaks
  <2>7. CASE unhealthy = NoStreaks
    <3>1. unhealthy[tidx] = 0 /\ unhealthy[active] = 0
      BY <2>2, <2>7 DEF NoStreaks
    <3> QED
      BY <2>3, <2>4, <3>1
  <2> QED
    BY <2>5, <2>6, <2>7
<1>3. IInv /\ ReadyInv
        => [Publish /\ row' = Record /\ UnhealthyStreakForReady = UnhealthyStreak
              => (readyz' <=> HealthSnapshot')]_vars
  BY <1>2
<1> QED
  BY <1>1, <1>3, ReadyStep, Inductive, PTL DEF Spec, ReadinessAgrees
=============================================================================
