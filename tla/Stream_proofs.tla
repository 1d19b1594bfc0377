--------------------------- MODULE Stream_proofs ----------------------------
(***************************************************************************)
(* Proofs about the two live streams.  TransactionStream, for every chain, *)
(* filter, buffer and replay limit: frames are ordered, never repeated and *)
(* complete, and the nil map is written to only in a request that began    *)
(* above the tip.  MomentumStream, for every set of connections and        *)
(* subjects, buffer size, cap and bound: the hub counts and closes its     *)
(* connections as it should, and their frames leave no gap.                *)
(***************************************************************************)
EXTENDS MomentumStream, TransactionStream, NatOrder, FiniteSetTheorems, SequenceTheorems, TLAPS

-----------------------------------------------------------------------------
(* The stream of account blocks *)

\* What cursor and channel are made of.
Cursors == [height : Nat, hashes : SUBSET AllBlocks, made : BOOLEAN]
Channels == [buf : Seq(AllBlocks), lagged : BOOLEAN, open : BOOLEAN]

\* The types of the state.
TypeInv ==
  /\ txTable \subseteq TxHeights
  /\ txTransit \in Seq(AllBlocks)
  /\ txPc \in {"idle", "latest", "scan", "live", "panic"}
  /\ txRequest.from \in Nat
  /\ txChannel \in Channels
  /\ cursor \in Cursors
  /\ frames \in Seq(AllBlocks)

\* Nothing is written before the live loop.
StartInv ==
  /\ txPc \in {"idle", "latest", "scan"} => cursor = NoCursor /\ frames = <<>>
  /\ txPc = "latest" => txRequest.from > 0

\* The cursor is at the last frame's height and has the hashes sent there; its
\* map is nil only at height 0 or in a request that began above the tip.
CursorInv ==
  txPc = "live" =>
    /\ cursor.made \/ cursor.height = 0 \/ txAhead
    /\ \A j \in DOMAIN frames :
         /\ HeightOf(frames[j]) <= cursor.height
         /\ HeightOf(frames[j]) = cursor.height => frames[j] \in cursor.hashes

\* The inductive invariant behind the order of the frames.
IInv == TypeInv /\ StartInv /\ CursorInv /\ TxOrdered /\ TxPanicsOnlyAhead

\* A block is of a momentum, whose height is positive.
LEMMA HeightType ==
  ASSUME NEW b \in AllBlocks
  PROVE  HeightOf(b) \in Nat \ {0} /\ HeightOf(b) \in TxHeights
<1>1. PICK h \in TxHeights : b \in BlocksOf(h)
  BY DEF AllBlocks
<1> QED
  BY <1>1, TxAssumption DEF HeightOf

\* A momentum's list of blocks is a sequence of blocks.
LEMMA TxsType ==
  ASSUME NEW h \in TxHeights
  PROVE  Txs[h] \in Seq(AllBlocks)
<1>1. Txs[h] \in Seq(Nat)
  BY TxAssumption
<1>2. \A j \in DOMAIN Txs[h] : Txs[h][j] \in AllBlocks
  BY DEF AllBlocks, BlocksOf
<1> QED
  BY <1>1, <1>2

\* What the query returns: a sequence of blocks of the range in order.
LEMMA RowsType ==
  ASSUME TypeInv, NEW first, NEW last, NEW filter,
         NEW rows \in ListByMomentumHeightRange(first, last, filter)
  PROVE  /\ rows \in Seq(AllBlocks)
         /\ \A j \in DOMAIN rows : Matches(rows[j], filter)
         /\ \A i, j \in DOMAIN rows : i < j => Before(rows[i], rows[j])
<1> DEFINE all == InRange(first, last, filter)
           n == IF Cardinality(all) > TxReplayMax THEN TxReplayMax ELSE Cardinality(all)
<1>1. all \subseteq AllBlocks /\ \A b \in all : Matches(b, filter)
  BY DEF InRange, AllBlocks, TypeInv
<1>2. Cardinality(all) \in Nat
  BY <1>1, FS_Subset, FS_CardinalityType, TxAssumption
<1>3. n \in Nat
  BY <1>2, TxAssumption
<1>4. rows \in [1..n -> all] /\ \A i, j \in 1..n : i < j => Before(rows[i], rows[j])
  BY DEF ListByMomentumHeightRange
<1> HIDE DEF n, all
<1>5. rows \in [1..n -> AllBlocks] /\ DOMAIN rows = 1..n
  BY <1>1, <1>4
<1>6. rows \in Seq(AllBlocks)
  BY <1>3, <1>5
<1> QED
  BY <1>1, <1>4, <1>5, <1>6

\* A fresh Subscriber, and what the hub and the handler may do to one.
LEMMA ChannelType ==
  /\ NoChannel \in Channels
  /\ \A c \in Channels :
       /\ c.buf \in Seq(AllBlocks)
       /\ \A s \in Seq(AllBlocks) : [c EXCEPT !.buf = s] \in Channels
       /\ [c EXCEPT !.lagged = TRUE] \in Channels
       /\ [c EXCEPT !.open = FALSE] \in Channels
<1>1. <<>> \in Seq(AllBlocks)
  OBVIOUS
<1>2. NoChannel \in Channels
  BY <1>1 DEF NoChannel, Channels
<1> QED
  BY <1>2 DEF Channels

\* The cursor of a connection that has replayed nothing, and of one that began
\* above the tip.
LEMMA NoCursorType ==
  NoCursor \in Cursors /\ \A h \in Nat : [NoCursor EXCEPT !.height = h] \in Cursors
<1>1. NoCursor \in Cursors
  BY DEF NoCursor, Cursors
<1>2. ASSUME NEW h \in Nat PROVE [NoCursor EXCEPT !.height = h] \in Cursors
  BY <1>1 DEF Cursors
<1> QED
  BY <1>1, <1>2

\* Nothing is on its way to, written for or asked by a connection not made yet.
LEMMA NothingType == <<>> \in Seq(AllBlocks) /\ NoRequest.from = 0
<1>1. NoRequest.from = 0
  BY DEF NoRequest
<1> QED
  BY <1>1

\* It holds before the request.
LEMMA InitIInv == TxInit => IInv
<1> SUFFICES ASSUME TxInit PROVE IInv
  OBVIOUS
<1>1. txChannel \in Channels /\ cursor \in Cursors /\ cursor = NoCursor
  BY ChannelType, NoCursorType, Zenon DEF TxInit
<1>2. TypeInv /\ StartInv
  BY <1>1, NothingType DEF TxInit, TypeInv, StartInv
<1>3. CursorInv /\ TxOrdered /\ TxPanicsOnlyAhead
  BY DEF TxInit, CursorInv, TxOrdered, Written, TxPanicsOnlyAhead
<1> QED
  BY <1>2, <1>3 DEF IInv

\* The indexer and the hub touch neither the cursor nor what was written.
LEMMA OutsideStep ==
  ASSUME IInv, UNCHANGED <<txPc, txRequest, cursor, txHistory>>,
         txTable' \subseteq TxHeights, txTransit' \in Seq(AllBlocks),
         txChannel' \in Channels
  PROVE  IInv'
<1> USE DEF IInv, txHistory
<1>1. TypeInv' /\ StartInv'
  BY DEF TypeInv, StartInv
<1>2. CursorInv' /\ TxOrdered' /\ TxPanicsOnlyAhead'
  BY DEF CursorInv, TxOrdered, Written, TxPanicsOnlyAhead
<1> QED
  BY <1>1, <1>2

\* A live block is written only when the cursor has not seen it.
LEMMA LiveStep ==
  ASSUME IInv, TxLiveReceive
  PROVE  IInv'
<1> DEFINE b == Head(txChannel.buf)
<1> USE DEF IInv
<1>1. /\ txPc = "live" /\ txChannel.buf \in Seq(AllBlocks) /\ txChannel.buf # <<>>
      /\ txChannel' = [txChannel EXCEPT !.buf = Tail(@)]
      /\ UNCHANGED <<txStore, txTransit, txRequest, txEnd, txBeyond, txAhead>>
  BY ChannelType DEF TxLiveReceive, TypeInv
<1>2. b \in AllBlocks /\ txChannel' \in Channels
  <2>1. b \in AllBlocks /\ Tail(txChannel.buf) \in Seq(AllBlocks)
    BY <1>1
  <2>2. txChannel \in Channels
    BY DEF TypeInv
  <2>3. txChannel' \in Channels
    BY <1>1, <2>1, <2>2, ChannelType, Zenon
  <2> QED
    BY <2>1, <2>3
<1>3. HeightOf(b) \in Nat \ {0}
  BY <1>2, HeightType
<1>4. CASE UNCHANGED <<txPc, cursor, frames>>
  BY <1>1, <1>2, <1>4, OutsideStep DEF TypeInv, txStore, txHistory
<1>5. CASE /\ Matches(b, txRequest.filter) /\ ~seen(cursor, b)
           /\ frames' = Append(frames, b)
           /\ IF markPanics(cursor, b) THEN txPc' = "panic" /\ UNCHANGED cursor
              ELSE cursor' = mark(cursor, b) /\ UNCHANGED txPc
  <2> HIDE DEF b
  <2>1. frames \in Seq(AllBlocks) /\ cursor \in Cursors
    BY DEF TypeInv
  <2>2. \A j \in DOMAIN frames : /\ HeightOf(frames[j]) \in Nat \ {0}
                                 /\ HeightOf(frames[j]) <= cursor.height
                                 /\ HeightOf(frames[j]) = cursor.height => frames[j] \in cursor.hashes
    BY <1>1, <2>1, HeightType DEF CursorInv
  <2>3. \A j \in DOMAIN frames : frames[j] # b /\ HeightOf(frames[j]) <= HeightOf(b)
    <3> SUFFICES ASSUME NEW j \in DOMAIN frames
                 PROVE  frames[j] # b /\ HeightOf(frames[j]) <= HeightOf(b)
      OBVIOUS
    <3>1. cursor.height \in Nat \ {0}
      BY <2>1, <2>2 DEF Cursors
    <3>2. HeightOf(b) >= cursor.height /\ ~(HeightOf(b) = cursor.height /\ b \in cursor.hashes)
      BY <1>3, <1>5, <3>1 DEF seen
    <3> QED
      BY <1>3, <2>2, <3>1, <3>2
  <2>4. /\ frames' \in Seq(AllBlocks) /\ Len(frames') = Len(frames) + 1
        /\ DOMAIN frames' = 1..(Len(frames) + 1)
        /\ \A j \in 1..Len(frames) : j \in DOMAIN frames /\ frames'[j] = frames[j]
        /\ frames'[Len(frames) + 1] = b
    BY <1>2, <1>5, <2>1
  <2>5. TxOrdered'
    <3>1. \A i, j \in DOMAIN frames' : i < j =>
            frames'[i] # frames'[j] /\ HeightOf(frames'[i]) <= HeightOf(frames'[j])
      <4> SUFFICES ASSUME NEW i \in DOMAIN frames', NEW j \in DOMAIN frames', i < j
                   PROVE  frames'[i] # frames'[j] /\ HeightOf(frames'[i]) <= HeightOf(frames'[j])
        OBVIOUS
      <4>1. Len(frames) \in Nat /\ i \in 1..Len(frames)
        BY <2>1, <2>4
      <4>2. CASE j \in 1..Len(frames)
        BY <2>4, <4>1, <4>2 DEF TxOrdered
      <4>3. CASE j = Len(frames) + 1
        BY <2>3, <2>4, <4>1, <4>3
      <4> QED
        BY <2>4, <4>1, <4>2, <4>3
    <3>2. \A x \in Written' : Matches(x, txRequest'.filter)
      <4>1. Written' \subseteq Written \cup {b}
        BY <2>1, <2>4 DEF Written
      <4> QED
        BY <1>1, <1>5, <4>1 DEF TxOrdered, Matches
    <3> QED
      BY <3>1, <3>2 DEF TxOrdered
  <2>6. CASE markPanics(cursor, b)
    <3>1. txPc' = "panic" /\ cursor' = cursor
      BY <1>5, <2>6
    <3>2. txAhead
      BY <1>1, <1>3, <2>6 DEF CursorInv, markPanics
    <3>3. TypeInv' /\ StartInv' /\ CursorInv' /\ TxPanicsOnlyAhead'
      BY <1>1, <1>2, <2>4, <3>1, <3>2
      DEF TypeInv, StartInv, CursorInv, TxPanicsOnlyAhead, txStore
    <3> QED
      BY <2>5, <3>3
  <2>7. CASE ~markPanics(cursor, b)
    <3>1. cursor' = mark(cursor, b) /\ txPc' = "live"
      BY <1>1, <1>5, <2>7
    <3>2. /\ cursor' \in Cursors /\ cursor'.made /\ cursor'.height = HeightOf(b)
          /\ b \in cursor'.hashes
          /\ HeightOf(b) = cursor.height => cursor.hashes \subseteq cursor'.hashes
      BY <1>2, <1>3, <2>1, <3>1 DEF mark, Cursors
    <3>3. CursorInv'
      <4> SUFFICES ASSUME NEW j \in DOMAIN frames'
                   PROVE  /\ HeightOf(frames'[j]) <= cursor'.height
                          /\ HeightOf(frames'[j]) = cursor'.height => frames'[j] \in cursor'.hashes
        BY <3>2 DEF CursorInv
      <4>1. CASE j \in 1..Len(frames)
        <5>1. j \in DOMAIN frames /\ frames'[j] = frames[j]
          BY <2>4, <4>1
        <5>2. HeightOf(frames[j]) <= HeightOf(b)
          BY <2>3, <5>1
        <5>3. HeightOf(frames[j]) = HeightOf(b) => HeightOf(b) = cursor.height
          <6>1. cursor.height \in Nat \ {0}
            BY <2>1, <2>2, <5>1 DEF Cursors
          <6>2. HeightOf(b) >= cursor.height
            BY <1>3, <1>5, <6>1 DEF seen
          <6> QED
            BY <1>3, <2>2, <5>1, <6>1, <6>2
        <5> QED
          BY <2>2, <3>2, <5>1, <5>2, <5>3
      <4>2. CASE j = Len(frames) + 1
        BY <1>3, <2>4, <3>2, <4>2
      <4> QED
        BY <2>1, <2>4, <4>1, <4>2
    <3>4. TypeInv' /\ StartInv' /\ TxPanicsOnlyAhead'
      BY <1>1, <1>2, <2>4, <3>1, <3>2 DEF TypeInv, StartInv, TxPanicsOnlyAhead, txStore
    <3> QED
      BY <2>5, <3>3, <3>4
  <2> QED
    BY <2>6, <2>7
<1> QED
  BY <1>4, <1>5 DEF TxLiveReceive

\* The replay writes rows in the query's order and leaves the cursor behind them.
LEMMA ScanStep ==
  ASSUME IInv,
         NEW rows \in ListByMomentumHeightRange(txRequest.from, txEnd, txRequest.filter),
         TxReplayScan(rows)
  PROVE  IInv'
<1> USE DEF IInv
<1>1. /\ frames' = rows /\ cursor' = replayCursor(rows) /\ txPc' = "live"
      /\ UNCHANGED <<txStore, txTransit, txRequest, txEnd, txChannel, txAhead>>
  BY DEF TxReplayScan
<1>2. /\ rows \in Seq(AllBlocks)
      /\ \A j \in DOMAIN rows : Matches(rows[j], txRequest.filter)
      /\ \A i, j \in DOMAIN rows : i < j => Before(rows[i], rows[j])
  BY RowsType
<1>3. \A j \in DOMAIN rows : rows[j] \in AllBlocks /\ HeightOf(rows[j]) \in Nat \ {0}
  BY <1>2, HeightType
<1>4. \A i, j \in DOMAIN rows : i < j => /\ rows[i] # rows[j]
                                          /\ HeightOf(rows[i]) <= HeightOf(rows[j])
  <2> SUFFICES ASSUME NEW i \in DOMAIN rows, NEW j \in DOMAIN rows, i < j
               PROVE  rows[i] # rows[j] /\ HeightOf(rows[i]) <= HeightOf(rows[j])
    OBVIOUS
  <2>1. HeightOf(rows[i]) \in Nat /\ HeightOf(rows[j]) \in Nat /\ rows[i] \in Nat
    BY <1>3, TxAssumption
  <2>2. \/ HeightOf(rows[i]) < HeightOf(rows[j])
        \/ HeightOf(rows[i]) = HeightOf(rows[j]) /\ rows[i] < rows[j]
    BY <1>2 DEF Before
  <2> QED
    BY <2>1, <2>2
<1>5. TxOrdered'
  BY <1>1, <1>2, <1>4 DEF TxOrdered, Written, Matches
<1>6. cursor' \in Cursors /\ CursorInv'
  <2>1. CASE rows = <<>>
    BY <1>1, <2>1 DEF replayCursor, NoCursor, Cursors, CursorInv
  <2>2. CASE rows # <<>>
    <3> DEFINE n == Len(rows)
    <3>1. n \in Nat \ {0} /\ DOMAIN rows = 1..n /\ n \in DOMAIN rows
      BY <1>2, <2>2
    <3>2. cursor' = Marked(rows)
      BY <1>1, <2>2 DEF replayCursor
    <3>3. cursor'.made /\ cursor'.height = HeightOf(rows[n]) /\ cursor' \in Cursors
      BY <1>3, <3>1, <3>2 DEF Marked, Cursors
    <3>4. \A j \in DOMAIN rows : HeightOf(rows[j]) = cursor'.height => rows[j] \in cursor'.hashes
      BY <3>2 DEF Marked
    <3>5. \A j \in DOMAIN rows : HeightOf(rows[j]) <= cursor'.height
      BY <1>3, <1>4, <3>1, <3>3
    <3> QED
      BY <1>1, <3>3, <3>4, <3>5 DEF CursorInv
  <2> QED
    BY <2>1, <2>2
<1>7. TypeInv' /\ StartInv' /\ TxPanicsOnlyAhead'
  BY <1>1, <1>2, <1>6 DEF TypeInv, StartInv, TxPanicsOnlyAhead, txStore
<1> QED
  BY <1>5, <1>6, <1>7

\* Every step keeps the invariant.
LEMMA NextIInv == IInv /\ [TxNext]_txVars => IInv'
<1> SUFFICES ASSUME IInv, [TxNext]_txVars PROVE IInv'
  OBVIOUS
<1> USE DEF IInv
<1>1. ASSUME NEW h \in TxHeights, TxCommit(h) PROVE IInv'
  <2>1. txTable' \subseteq TxHeights /\ txTransit' \in Seq(AllBlocks)
    BY <1>1, TxsType DEF TxCommit, TypeInv
  <2> QED
    BY <1>1, <2>1, OutsideStep DEF TxCommit, TypeInv
<1>2. CASE TxDispatch
  <2>1. txTransit' \in Seq(AllBlocks) /\ Head(txTransit) \in AllBlocks
    BY <1>2 DEF TxDispatch, TypeInv
  <2>2. txChannel' \in Channels
    <3>1. txChannel \in Channels
      BY DEF TypeInv
    <3>2. Append(txChannel.buf, Head(txTransit)) \in Seq(AllBlocks)
      <4>1. txChannel.buf \in Seq(AllBlocks)
        BY <3>1, ChannelType, Zenon
      <4> QED
        BY <2>1, <4>1
    <3> QED
      BY <1>2, <3>1, <3>2, ChannelType, Zenon DEF TxDispatch
  <2> QED
    BY <1>2, <2>1, <2>2, OutsideStep DEF TxDispatch, TypeInv, txStore
<1>3. CASE TxHubCloses
  <2>1. txChannel' \in Channels
    BY <1>3, ChannelType, Zenon DEF TxHubCloses, TypeInv
  <2> QED
    BY <1>3, <2>1, OutsideStep DEF TxHubCloses, TypeInv, txStore
<1>4. ASSUME NEW start \in TxFrom, NEW filter \in TxFilters, TransactionsStream(start, filter)
      PROVE  IInv'
  <2>1. start \in Nat /\ frames = <<>> /\ cursor = NoCursor
    BY <1>4, TxAssumption DEF TransactionsStream, StartInv
  <2>2. TypeInv' /\ StartInv'
    BY <1>4, <2>1 DEF TransactionsStream, TypeInv, StartInv, txStore, txHistory
  <2>3. CursorInv' /\ TxOrdered' /\ TxPanicsOnlyAhead'
    BY <1>4, <2>1
    DEF TransactionsStream, CursorInv, TxOrdered, Written, TxPanicsOnlyAhead, NoCursor, txHistory
  <2> QED
    BY <2>2, <2>3
<1>5. CASE TxReplayLatest
  <2>1. frames = <<>> /\ cursor = NoCursor /\ txRequest.from \in Nat \ {0}
    BY <1>5 DEF TxReplayLatest, StartInv, TypeInv
  <2>2. cursor' \in Cursors
    <3>1. txRequest.from - 1 \in Nat
      BY <2>1
    <3> QED
      BY <1>5, <2>1, <3>1, NoCursorType, Zenon DEF TxReplayLatest
  <2>3. TypeInv' /\ StartInv'
    BY <1>5, <2>1, <2>2 DEF TxReplayLatest, TypeInv, StartInv, txStore
  <2>4. CursorInv' /\ TxOrdered' /\ TxPanicsOnlyAhead'
    BY <1>5, <2>1 DEF TxReplayLatest, CursorInv, TxOrdered, Written, TxPanicsOnlyAhead
  <2> QED
    BY <2>3, <2>4
<1>6. ASSUME NEW rows \in ListByMomentumHeightRange(txRequest.from, txEnd, txRequest.filter),
             TxReplayScan(rows)
      PROVE  IInv'
  BY <1>6, ScanStep
<1>7. CASE TxLiveReceive
  BY <1>7, LiveStep
<1>8. CASE TxReturn
  <2>0. txChannel' \in Channels /\ cursor' \in Cursors /\ cursor' = NoCursor
    BY <1>8, ChannelType, NoCursorType, Zenon DEF TxReturn, TxGone
  <2>1. TypeInv' /\ StartInv'
    BY <1>8, <2>0, NothingType DEF TxReturn, TxGone, TypeInv, StartInv, txStore
  <2>2. CursorInv' /\ TxOrdered' /\ TxPanicsOnlyAhead'
    BY <1>8 DEF TxReturn, TxGone, CursorInv, TxOrdered, Written, TxPanicsOnlyAhead
  <2> QED
    BY <2>1, <2>2
<1>9. CASE UNCHANGED txVars
  BY <1>9, OutsideStep DEF txVars, txStore, txHistory, TypeInv
<1> QED
  BY <1>1, <1>2, <1>3, <1>4, <1>5, <1>6, <1>7, <1>8, <1>9 DEF TxNext

\* The invariant holds in every state of the transaction stream.
THEOREM Invariant == TxSpec => []IInv
<1> QED
  BY InitIInv, NextIInv, PTL DEF TxSpec

\* The nil map of a cursor is written to only in a request that began above
\* everything stored, for every chain and every interleaving (cursor.mark).
THEOREM PanicsOnlyAhead == TxSpec => []TxPanicsOnlyAhead
<1>1. IInv => TxPanicsOnlyAhead
  BY DEF IInv
<1> QED
  BY <1>1, Invariant, PTL

\* A connection gets every block at most once, in the order of heights and within
\* its filter, across the replay and the live events (the first half of TxExact).
THEOREM FramesOrdered == TxSpec => []TxOrdered
<1>1. IInv => TxOrdered
  BY DEF IInv
<1> QED
  BY <1>1, Invariant, PTL

-----------------------------------------------------------------------------
(***************************************************************************)
(* The blocks a connection is owed                                         *)
(***************************************************************************)

\* What a step does to the fields of a Subscriber.
LEMMA ChannelFields ==
  /\ NoChannel.buf = <<>>
  /\ \A c \in Channels :
       /\ c.lagged \in BOOLEAN /\ c.open \in BOOLEAN
       /\ \A s : /\ [c EXCEPT !.buf = s].buf = s
                /\ [c EXCEPT !.buf = s].lagged = c.lagged
                /\ [c EXCEPT !.buf = s].open = c.open
       /\ [c EXCEPT !.lagged = TRUE].buf = c.buf /\ [c EXCEPT !.lagged = TRUE].lagged = TRUE
       /\ [c EXCEPT !.open = FALSE].buf = c.buf /\ [c EXCEPT !.open = FALSE].open = FALSE
<1>1. NoChannel.buf = <<>>
  BY DEF NoChannel
<1> QED
  BY <1>1 DEF Channels

\* A block has one height.
LEMMA HeightIs ==
  ASSUME NEW h \in TxHeights, NEW b \in BlocksOf(h)
  PROVE  HeightOf(b) = h
<1>1. \A g \in TxHeights : b \in BlocksOf(g) => g = h
  BY TxAssumption
<1> QED
  BY <1>1 DEF HeightOf

\* The height of a stored block is stored, and a natural number.
LEMMA StoredHeight ==
  ASSUME TypeInv, NEW b \in Stored
  PROVE  b \in AllBlocks /\ HeightOf(b) \in txTable /\ HeightOf(b) \in Nat \ {0}
<1>1. PICK h \in txTable : b \in BlocksOf(h)
  BY DEF Stored
<1>2. h \in TxHeights
  BY DEF TypeInv
<1>3. b \in AllBlocks
  BY <1>1, <1>2 DEF AllBlocks
<1>4. HeightOf(b) = h
  BY <1>1, <1>2, HeightIs
<1> QED
  BY <1>1, <1>3, <1>4, HeightType

\* The queue ahead of a connection is one of stored blocks.
QueueShape ==
  /\ txChannel.buf \in Seq(AllBlocks) /\ txTransit \in Seq(AllBlocks)
  /\ Queue \in Seq(AllBlocks) /\ Len(Queue) \in Nat
  /\ Len(Queue) = Len(txChannel.buf) + Len(txTransit)
  /\ \A i \in 1..Len(Queue) : Queue[i] \in Stored
  /\ \A i \in 1..Len(txChannel.buf) : Queue[i] = txChannel.buf[i]
  /\ \A i \in 1..Len(txTransit) : Queue[Len(txChannel.buf) + i] = txTransit[i]

\* The notifications on their way are blocks with a place each.
LEMMA QueueType ==
  ASSUME TypeInv, TxQueueInv
  PROVE  QueueShape
<1>1. txChannel.buf \in Seq(AllBlocks) /\ txTransit \in Seq(AllBlocks)
  BY ChannelType, Zenon DEF TypeInv
<1> DEFINE s == txChannel.buf
           t == txTransit
<1>2. /\ Queue \in Seq(AllBlocks) /\ Len(Queue) = Len(s) + Len(t)
      /\ \A i \in 1..Len(s) + Len(t) : Queue[i] = IF i <= Len(s) THEN s[i] ELSE t[i - Len(s)]
  BY <1>1, ConcatProperties DEF Queue
<1>3. Len(s) \in Nat /\ Len(t) \in Nat /\ DOMAIN s = 1..Len(s) /\ DOMAIN t = 1..Len(t)
  BY <1>1
<1>4. (\A i \in 1..Len(s) : s[i] \in Stored) /\ (\A i \in 1..Len(t) : t[i] \in Stored)
  BY <1>3 DEF TxQueueInv
<1> HIDE DEF s, t
<1>5. \A i \in 1..Len(Queue) : Queue[i] \in Stored
  <2> SUFFICES ASSUME NEW i \in 1..Len(Queue) PROVE Queue[i] \in Stored
    OBVIOUS
  <2>1. CASE i <= Len(s)
    BY <1>2, <1>3, <1>4, <2>1
  <2>2. CASE ~(i <= Len(s))
    <3>1. i - Len(s) \in 1..Len(t) /\ Queue[i] = t[i - Len(s)]
      BY <1>2, <1>3, <2>2
    <3> QED
      BY <1>4, <3>1
  <2> QED
    BY <2>1, <2>2
<1>6. \A i \in 1..Len(s) : Queue[i] = s[i]
  BY <1>2, <1>3
<1>7. \A i \in 1..Len(t) : Queue[Len(s) + i] = t[i]
  <2> SUFFICES ASSUME NEW i \in 1..Len(t) PROVE Queue[Len(s) + i] = t[i]
    OBVIOUS
  <2>1. /\ Len(s) + i \in 1..Len(s) + Len(t) /\ ~(Len(s) + i <= Len(s))
        /\ Len(s) + i - Len(s) = i
    BY <1>3
  <2> QED
    BY <1>2, <2>1
<1>8. Len(Queue) \in Nat
  BY <1>2, <1>3
<1> QED
  BY <1>1, <1>2, <1>5, <1>6, <1>7, <1>8 DEF s, t, QueueShape

\* A block that is ahead stays so while the queue only grows, and while blocks
\* other than it are taken.
LEMMA AheadGrows ==
  ASSUME NEW q, NEW r, NEW b, Ahead(q, b), Len(q) \in Nat, Len(r) \in Nat, Len(q) <= Len(r),
         \A i \in 1..Len(q) : r[i] = q[i]
  PROVE  Ahead(r, b)
<1>1. PICK j \in 1..Len(q) : q[j] = b /\ \A i \in 1..(j - 1) : HeightOf(q[i]) <= HeightOf(b)
  BY DEF Ahead
<1>2. j \in 1..Len(r) /\ r[j] = b /\ \A i \in 1..(j - 1) : HeightOf(r[i]) <= HeightOf(b)
  BY <1>1
<1> QED
  BY <1>2 DEF Ahead

\* Taking a notification leaves the rest in order, and it was not later than what is left.
LEMMA AheadTaken ==
  ASSUME NEW q, NEW r, NEW b, Ahead(q, b), Len(q) \in Nat, Len(r) = Len(q) - 1, q[1] # b,
         \A i \in 1..Len(r) : r[i] = q[i + 1]
  PROVE  Ahead(r, b) /\ HeightOf(q[1]) <= HeightOf(b)
<1>1. PICK j \in 1..Len(q) : q[j] = b /\ \A i \in 1..(j - 1) : HeightOf(q[i]) <= HeightOf(b)
  BY DEF Ahead
<1>2. j # 1 /\ j \in Nat
  BY <1>1
<1>3. HeightOf(q[1]) <= HeightOf(b)
  BY <1>1, <1>2
<1>4. j - 1 \in 1..Len(r) /\ r[j - 1] = b
  BY <1>1, <1>2
<1>5. \A i \in 1..((j - 1) - 1) : HeightOf(r[i]) <= HeightOf(b)
  BY <1>1, <1>2
<1> QED
  BY <1>3, <1>4, <1>5 DEF Ahead

\* Finitely many heights are stored.
TableBounded == \E n \in Nat : txTable \subseteq 0..n

\* The inductive invariant behind completeness.
BlocksInv == TableBounded /\ txEnd \in Nat /\ TxFramesInv

\* It holds before the request.
LEMMA InitOwed == TxInit => BlocksInv
<1> SUFFICES ASSUME TxInit PROVE BlocksInv
  OBVIOUS
<1>1. TableBounded
  BY DEF TxInit, TableBounded
<1>2. TxQueueInv
  <2>1. txChannel.buf = <<>> /\ txTransit = <<>>
    BY ChannelFields, Zenon DEF TxInit
  <2> QED
    BY <2>1 DEF TxQueueInv
<1>3. TxCursorInv /\ TxOwedInv
  BY DEF TxInit, TxCursorInv, TxOwedInv
<1> QED
  BY <1>1, <1>2, <1>3 DEF BlocksInv, TxFramesInv, TxInit

\* A momentum is stored: its blocks are ahead of every connection the hub
\* serves, behind nothing greater unless it comes late.
LEMMA CommitOwed ==
  ASSUME IInv, IInv', BlocksInv, NEW h \in TxHeights, TxCommit(h)
  PROVE  BlocksInv'
<1>0. TypeInv /\ TypeInv' /\ TableBounded /\ TxQueueInv /\ TxCursorInv /\ TxOwedInv
  BY DEF IInv, BlocksInv, TxFramesInv
<1>1. /\ txTable' = txTable \cup {h} /\ txTransit' = txTransit \o Txs[h]
      /\ txLate' = IF h \notin txTable /\ \E k \in txTable : k > h
                   THEN txLate \cup BlocksOf(h) ELSE txLate
      /\ UNCHANGED <<txPc, txRequest, txEnd, txChannel, cursor, frames, txBeyond>>
  BY DEF TxCommit, txHistory
<1>2. h \in Nat /\ txTable \subseteq Nat
  BY <1>0, TxAssumption DEF TypeInv
<1>3. Stored' = Stored \cup BlocksOf(h) /\ Served' = Served /\ Written' = Written
  BY <1>1 DEF Stored, Served, Written
<1>4. TableBounded'
  <2>1. PICK n \in Nat : txTable \subseteq 0..n
    BY <1>0 DEF TableBounded
  <2>2. n + h \in Nat /\ txTable' \subseteq 0..(n + h)
    BY <1>1, <1>2, <2>1
  <2> QED
    BY <2>2 DEF TableBounded
<1>5. /\ Txs[h] \in Seq(AllBlocks) /\ Len(Txs[h]) \in Nat
      /\ \A k \in 1..Len(Txs[h]) : Txs[h][k] \in BlocksOf(h) /\ HeightOf(Txs[h][k]) = h
  <2>1. Txs[h] \in Seq(AllBlocks)
    BY TxsType
  <2>2. DOMAIN Txs[h] = 1..Len(Txs[h]) /\ Len(Txs[h]) \in Nat
    BY <2>1
  <2>3. \A k \in 1..Len(Txs[h]) : Txs[h][k] \in BlocksOf(h)
    BY <2>2 DEF BlocksOf
  <2> QED
    BY <2>1, <2>2, <2>3, HeightIs
<1>6. TxQueueInv'
  <2>1. txTransit \in Seq(AllBlocks) /\ Len(txTransit) \in Nat /\ DOMAIN txTransit = 1..Len(txTransit)
    BY <1>0 DEF TypeInv
  <2>2. /\ txTransit' \in Seq(AllBlocks)
        /\ Len(txTransit') = Len(txTransit) + Len(Txs[h])
        /\ \A i \in 1..Len(txTransit) + Len(Txs[h]) : txTransit'[i] =
             IF i <= Len(txTransit) THEN txTransit[i] ELSE Txs[h][i - Len(txTransit)]
    BY <1>1, <1>5, <2>1, ConcatProperties
  <2>3. ASSUME NEW i \in DOMAIN txTransit' PROVE txTransit'[i] \in Stored'
    <3>1. i \in 1..Len(txTransit) + Len(Txs[h])
      BY <2>2
    <3>2. CASE i <= Len(txTransit)
      BY <1>0, <1>3, <2>1, <2>2, <3>1, <3>2 DEF TxQueueInv
    <3>3. CASE ~(i <= Len(txTransit))
      <4>1. i - Len(txTransit) \in 1..Len(Txs[h])
        BY <1>5, <2>1, <3>1, <3>3
      <4> QED
        BY <1>3, <1>5, <2>2, <3>1, <3>3, <4>1
    <3> QED
      BY <3>2, <3>3
  <2> QED
    BY <1>0, <1>1, <1>3, <2>3 DEF TxQueueInv
<1>7. /\ Len(Queue) \in Nat /\ Len(Queue') = Len(Queue) + Len(Txs[h])
      /\ \A i \in 1..Len(Queue) : Queue'[i] = Queue[i] /\ Queue[i] \in Stored
      /\ \A k \in 1..Len(Txs[h]) : Queue'[Len(Queue) + k] = Txs[h][k]
  <2>1. /\ txChannel.buf \in Seq(AllBlocks) /\ txTransit \in Seq(AllBlocks)
        /\ Queue \in Seq(AllBlocks) /\ Len(Queue) \in Nat
        /\ \A i \in 1..Len(Queue) : Queue[i] \in Stored
    BY <1>0, QueueType DEF QueueShape
  <2>2. Queue' = Queue \o Txs[h]
    <3>1. Queue' = txChannel.buf \o (txTransit \o Txs[h])
      BY <1>1 DEF Queue
    <3>2. (txChannel.buf \o txTransit) \o Txs[h] = txChannel.buf \o (txTransit \o Txs[h])
      <4>1. \A q, r, t \in Seq(AllBlocks) : (q \o r) \o t = q \o (r \o t)
        BY ConcatAssociative
      <4> QED
        BY <1>5, <2>1, <4>1, Zenon
    <3> QED
      BY <3>1, <3>2, Zenon DEF Queue
  <2>3. /\ Len(Queue') = Len(Queue) + Len(Txs[h])
        /\ \A i \in 1..Len(Queue) + Len(Txs[h]) : Queue'[i] =
             IF i <= Len(Queue) THEN Queue[i] ELSE Txs[h][i - Len(Queue)]
    BY <1>5, <2>1, <2>2, ConcatProperties
  <2>4. \A i \in 1..Len(Queue) : Queue'[i] = Queue[i]
    BY <1>5, <2>1, <2>3
  <2>5. \A k \in 1..Len(Txs[h]) : Queue'[Len(Queue) + k] = Txs[h][k]
    <3> SUFFICES ASSUME NEW k \in 1..Len(Txs[h]) PROVE Queue'[Len(Queue) + k] = Txs[h][k]
      OBVIOUS
    <3>1. /\ Len(Queue) + k \in 1..Len(Queue) + Len(Txs[h]) /\ ~(Len(Queue) + k <= Len(Queue))
          /\ Len(Queue) + k - Len(Queue) = k
      BY <1>5, <2>1
    <3> QED
      BY <2>3, <3>1
  <2> QED
    BY <2>1, <2>3, <2>4, <2>5
<1>8. ASSUME NEW b, Ahead(Queue, b) PROVE Ahead(Queue', b)
  BY <1>5, <1>7, <1>8, AheadGrows
<1>9. ASSUME NEW b \in Stored', b \notin Stored, b \notin txLate'
      PROVE  HeightOf(b) = h /\ (\A k \in txTable : k <= h) /\ Ahead(Queue', b)
  <2>1. b \in BlocksOf(h) /\ HeightOf(b) = h
    BY <1>3, <1>9, HeightIs
  <2>2. h \notin txTable
    BY <1>9, <2>1 DEF Stored
  <2>3. \A k \in txTable : k <= h
    BY <1>1, <1>2, <1>9, <2>1, <2>2
  <2>4. PICK k \in 1..Len(Txs[h]) : Txs[h][k] = b
    BY <1>5, <2>1 DEF BlocksOf
  <2>5. \A i \in 1..Len(Queue) : HeightOf(Queue'[i]) <= h
    BY <1>0, <1>7, <2>3, StoredHeight
  <2>6. \A i \in 1..Len(Txs[h]) : HeightOf(Queue'[Len(Queue) + i]) <= h
    <3> SUFFICES ASSUME NEW i \in 1..Len(Txs[h]) PROVE HeightOf(Queue'[Len(Queue) + i]) <= h
      OBVIOUS
    <3>1. Queue'[Len(Queue) + i] = Txs[h][i]
      BY <1>7
    <3>2. HeightOf(Txs[h][i]) = h
      BY <1>5
    <3>3. h <= h
      BY <2>1, HeightIs, TxAssumption
    <3> QED
      BY <3>1, <3>2, <3>3, Zenon
  <2>7. \A i \in 1..((Len(Queue) + k) - 1) : HeightOf(Queue'[i]) <= h
    <3> SUFFICES ASSUME NEW i \in 1..((Len(Queue) + k) - 1) PROVE HeightOf(Queue'[i]) <= h
      OBVIOUS
    <3>1. CASE i <= Len(Queue)
      BY <1>7, <2>5, <3>1
    <3>2. CASE ~(i <= Len(Queue))
      <4>1. i - Len(Queue) \in 1..Len(Txs[h]) /\ Len(Queue) + (i - Len(Queue)) = i
        BY <1>5, <1>7, <3>2
      <4> QED
        BY <2>6, <4>1
    <3> QED
      BY <3>1, <3>2
  <2>8. Len(Queue) + k \in 1..Len(Queue') /\ Queue'[Len(Queue) + k] = b
    BY <1>5, <1>7, <2>4
  <2> QED
    BY <2>1, <2>3, <2>7, <2>8 DEF Ahead
<1>10. TxCursorInv'
  BY <1>0, <1>1, <1>3 DEF TxCursorInv
<1>11. ASSUME txPc = "live", txRequest.from > 0, Served, NEW b \in TxOwed'
       PROVE  cursor.height <= HeightOf(b) /\ Ahead(Queue', b)
  <2>1. CASE b \in Stored
    <3>1. b \in TxOwed
      BY <1>1, <1>3, <1>11, <2>1 DEF TxOwed
    <3> QED
      BY <1>0, <1>8, <1>11, <3>1 DEF TxOwedInv
  <2>2. CASE b \notin Stored
    <3>1. b \in Stored' /\ b \notin txLate' /\ txRequest.from <= HeightOf(b)
      BY <1>1, <1>11 DEF TxOwed
    <3>2. HeightOf(b) = h /\ (\A k \in txTable : k <= h) /\ Ahead(Queue', b)
      BY <1>9, <2>2, <3>1
    <3>3. cursor.height < txRequest.from \/ cursor.height \in txTable
      BY <1>0, <1>11 DEF TxCursorInv
    <3>4. cursor.height \in Nat /\ txRequest.from \in Nat
      BY <1>0 DEF TypeInv, Cursors
    <3> QED
      BY <1>2, <3>1, <3>2, <3>3, <3>4
  <2> QED
    BY <2>1, <2>2
<1>12. ASSUME txPc = "scan", Served, txEnd # txRequest.from + TxReplayMax - 1,
              NEW b \in Stored' \ txLate', HeightOf(b) > txEnd
       PROVE  Ahead(Queue', b)
  <2>1. CASE b \in Stored
    <3>1. b \in Stored \ txLate
      BY <1>1, <1>12, <2>1
    <3> QED
      BY <1>0, <1>8, <1>12, <3>1 DEF TxOwedInv
  <2>2. CASE b \notin Stored
    BY <1>9, <1>12, <2>2
  <2> QED
    BY <2>1, <2>2
<1>13. TxOwedInv'
  BY <1>1, <1>3, <1>11, <1>12 DEF TxOwedInv
<1> QED
  BY <1>1, <1>4, <1>6, <1>10, <1>13 DEF BlocksInv, TxFramesInv

\* The hub passes a notification on, drops it or closes.
LEMMA HubOwed ==
  ASSUME IInv, IInv', BlocksInv, TxDispatch \/ TxHubCloses
  PROVE  BlocksInv'
<1>0. TypeInv /\ TypeInv' /\ TableBounded /\ TxQueueInv /\ TxCursorInv /\ TxOwedInv
  BY DEF IInv, BlocksInv, TxFramesInv
<1>1. UNCHANGED <<txStore, txPc, txRequest, txEnd, cursor, txHistory>>
  BY DEF TxDispatch, TxHubCloses
<1>2. TableBounded' /\ TxCursorInv' /\ Stored' = Stored /\ TxOwed' = TxOwed
  BY <1>0, <1>1 DEF TableBounded, TxCursorInv, Stored, TxOwed, Written, txStore, txHistory
<1>3. txChannel \in Channels /\ txChannel.buf \in Seq(AllBlocks)
  BY <1>0, ChannelType, Zenon DEF TypeInv
<1>4. SUFFICES /\ TxQueueInv'
               /\ txPc # "idle" /\ Served' => Served /\ \A b : Ahead(Queue, b) => Ahead(Queue', b)
  BY <1>0, <1>1, <1>2, <1>4 DEF BlocksInv, TxFramesInv, TxOwedInv, txStore
<1>5. CASE TxHubCloses
  <2>1. txChannel' = [txChannel EXCEPT !.open = FALSE] /\ txTransit' = <<>>
    BY <1>5 DEF TxHubCloses
  <2>2. txChannel'.buf = txChannel.buf /\ txChannel'.open = FALSE
    BY <1>3, <2>1, ChannelFields, Zenon
  <2> QED
    BY <1>0, <1>2, <2>1, <2>2 DEF TxQueueInv, Served
<1>6. CASE TxDispatch
  <2>1. /\ txTransit \in Seq(AllBlocks) /\ txTransit # <<>> /\ txTransit' = Tail(txTransit)
        /\ Head(txTransit) \in AllBlocks
    BY <1>0, <1>6 DEF TxDispatch, TypeInv
  <2>2. /\ Len(txTransit) \in Nat /\ Len(txTransit) > 0 /\ Head(txTransit) = txTransit[1]
        /\ DOMAIN txTransit = 1..Len(txTransit)
        /\ txTransit' \in Seq(AllBlocks) /\ Len(txTransit') = Len(txTransit) - 1
        /\ DOMAIN txTransit' = 1..(Len(txTransit) - 1)
        /\ \A i \in 1..(Len(txTransit) - 1) : txTransit'[i] = txTransit[i + 1]
    BY <2>1
  <2>3. (\A i \in DOMAIN txTransit' : txTransit'[i] \in Stored) /\ Head(txTransit) \in Stored
    BY <1>0, <2>2 DEF TxQueueInv
  <2>4. CASE txChannel' = txChannel /\ (txPc = "idle" \/ ~txChannel.open)
    BY <1>0, <1>2, <2>3, <2>4 DEF TxQueueInv, Served
  <2>5. CASE txChannel' = [txChannel EXCEPT !.lagged = TRUE]
    <3>1. txChannel'.buf = txChannel.buf /\ txChannel'.lagged = TRUE
      BY <1>3, <2>5, ChannelFields, Zenon
    <3> QED
      BY <1>0, <1>2, <2>3, <3>1 DEF TxQueueInv, Served
  <2>6. CASE txChannel' = [txChannel EXCEPT !.buf = Append(txChannel.buf, Head(txTransit))]
    <3>1. /\ txChannel'.buf = Append(txChannel.buf, Head(txTransit))
          /\ txChannel'.lagged = txChannel.lagged /\ txChannel'.open = txChannel.open
      <4>1. \A q : /\ [txChannel EXCEPT !.buf = q].buf = q
                  /\ [txChannel EXCEPT !.buf = q].lagged = txChannel.lagged
                  /\ [txChannel EXCEPT !.buf = q].open = txChannel.open
        BY <1>3, ChannelFields, Zenon
      <4> QED
        BY <2>6, <4>1, Zenon
    <3> DEFINE s == txChannel.buf
               n == Len(s)
    <3>2. /\ n \in Nat /\ DOMAIN s = 1..n /\ txChannel'.buf \in Seq(AllBlocks)
          /\ Len(txChannel'.buf) = n + 1 /\ DOMAIN txChannel'.buf = 1..(n + 1)
          /\ (\A i \in 1..n : txChannel'.buf[i] = s[i]) /\ txChannel'.buf[n + 1] = Head(txTransit)
      BY <1>3, <2>1, <3>1
    <3>3. TxQueueInv'
      <4>1. ASSUME NEW i \in 1..(n + 1) PROVE txChannel'.buf[i] \in Stored
        <5>1. i \in 1..n \/ i = n + 1
          BY <3>2
        <5> QED
          BY <1>0, <2>3, <3>2, <5>1 DEF TxQueueInv
      <4> QED
        BY <1>2, <2>3, <3>2, <4>1 DEF TxQueueInv
    <3>4. /\ Len(Queue) = n + Len(txTransit) /\ Len(Queue) \in Nat
          /\ \A i \in 1..n : Queue[i] = s[i]
          /\ \A i \in 1..Len(txTransit) : Queue[n + i] = txTransit[i]
      BY <1>0, QueueType DEF QueueShape
    <3>5. /\ Len(Queue') = Len(txChannel'.buf) + Len(txTransit') /\ Len(Queue') \in Nat
          /\ \A i \in 1..Len(txChannel'.buf) : Queue'[i] = txChannel'.buf[i]
          /\ \A i \in 1..Len(txTransit') : Queue'[Len(txChannel'.buf) + i] = txTransit'[i]
      <4>1. QueueShape'
        BY <1>0, <3>3, QueueType, PTL
      <4> QED
        BY <4>1 DEF QueueShape
    <3> HIDE DEF s, n
    <3>6. Len(Queue') = Len(Queue)
      BY <2>2, <3>2, <3>4, <3>5
    <3>7. \A i \in 1..Len(Queue) : Queue'[i] = Queue[i]
      <4> SUFFICES ASSUME NEW i \in 1..Len(Queue) PROVE Queue'[i] = Queue[i]
        OBVIOUS
      <4>1. CASE i \in 1..n
        <5>1. i \in 1..Len(txChannel'.buf)
          BY <3>2, <4>1
        <5> QED
          BY <3>2, <3>4, <3>5, <4>1, <5>1
      <4>2. CASE i = n + 1
        <5>1. Queue[n + 1] = txTransit[1]
          BY <2>2, <3>4
        <5>2. n + 1 \in 1..Len(txChannel'.buf)
          BY <3>2
        <5> QED
          BY <2>2, <3>2, <3>5, <4>2, <5>1, <5>2
      <4>3. CASE i > n + 1
        <5> DEFINE k == i - (n + 1)
        <5>1. k \in 1..(Len(txTransit) - 1) /\ k + 1 \in 1..Len(txTransit)
                /\ (n + 1) + k = i /\ n + (k + 1) = i
          BY <2>2, <3>2, <3>4, <4>3
        <5> HIDE DEF k
        <5>2. Queue[i] = txTransit[k + 1]
          BY <3>4, <5>1
        <5>3. Queue'[i] = txTransit'[k]
          BY <2>2, <3>2, <3>5, <5>1
        <5> QED
          BY <2>2, <5>1, <5>2, <5>3
      <4> QED
        BY <3>2, <3>4, <4>1, <4>2, <4>3
    <3>8. \A b : Ahead(Queue, b) => Ahead(Queue', b)
      BY <3>4, <3>5, <3>6, <3>7, AheadGrows
    <3> QED
      BY <3>1, <3>3, <3>8 DEF Served
  <2> QED
    BY <1>6, <2>4, <2>5, <2>6 DEF TxDispatch
<1> QED
  BY <1>5, <1>6

\* A request begins: it has written nothing, and is owed nothing yet.
LEMMA BeginOwed ==
  ASSUME IInv, IInv', BlocksInv, NEW start \in TxFrom, NEW filter \in TxFilters,
         TransactionsStream(start, filter)
  PROVE  BlocksInv'
<1>0. TableBounded /\ TxQueueInv
  BY DEF BlocksInv, TxFramesInv
<1>1. /\ UNCHANGED <<txStore, txTransit, txChannel, cursor, txEnd>> /\ cursor = NoCursor
      /\ txRequest' = [from |-> start, filter |-> filter]
      /\ txPc' = IF start > 0 THEN "latest" ELSE "live"
  BY DEF TransactionsStream, IInv, StartInv
<1>2. TableBounded' /\ TxQueueInv'
  BY <1>0, <1>1 DEF TableBounded, TxQueueInv, Stored, txStore
<1>3. TxCursorInv' /\ TxOwedInv'
  BY <1>1 DEF TxCursorInv, TxOwedInv, NoCursor
<1> QED
  BY <1>1, <1>2, <1>3 DEF BlocksInv, TxFramesInv

\* The tip is stored, and nothing stored is above it.
LEMMA TipIsGreatest ==
  ASSUME TypeInv, TableBounded
  PROVE  TxTip \in Nat /\ \A k \in txTable : k <= TxTip
<1>1. CASE txTable = {}
  BY <1>1 DEF TxTip
<1>2. CASE txTable # {}
  <2>1. PICK n \in Nat : txTable \in SUBSET (0..n)
    BY DEF TableBounded
  <2>2. \E m \in txTable : \A k \in txTable : k <= m
    BY <1>2, <2>1, Greatest
  <2>3. TxTip \in txTable /\ \A k \in txTable : k <= TxTip
    BY <1>2, <2>2 DEF TxTip
  <2> QED
    BY <2>3, TxAssumption DEF TypeInv
<1> QED
  BY <1>1, <1>2

\* The replay reads the tip: nothing is stored from from_height on, or nothing
\* above the end of the range unless the cap cuts it.
LEMMA LatestOwed ==
  ASSUME IInv, IInv', BlocksInv, TxReplayLatest
  PROVE  BlocksInv'
<1>0. TypeInv /\ TableBounded /\ TxQueueInv
  BY DEF IInv, BlocksInv, TxFramesInv
<1>1. TxTip \in Nat /\ \A k \in txTable : k <= TxTip
  BY <1>0, TipIsGreatest
<1> HIDE DEF TxTip
<1>2. \A b \in Stored : HeightOf(b) \in Nat /\ HeightOf(b) <= TxTip
  BY <1>0, <1>1, StoredHeight
<1>3. UNCHANGED <<txStore, txTransit, txRequest, txChannel>>
  BY DEF TxReplayLatest
<1>4. TableBounded' /\ TxQueueInv' /\ Stored' = Stored
  BY <1>0, <1>3 DEF TableBounded, TxQueueInv, Stored, txStore
<1>5. txRequest.from \in Nat \ {0} /\ TxReplayMax \in Nat
  BY <1>0, TxAssumption DEF TxReplayLatest, IInv, StartInv, TypeInv
<1>6. CASE /\ txRequest.from > TxTip /\ txPc' = "live" /\ UNCHANGED txEnd
           /\ cursor' = [NoCursor EXCEPT !.height = txRequest.from - 1]
  <2>1. cursor'.height = txRequest.from - 1 /\ cursor'.hashes = {}
    BY <1>6 DEF NoCursor
  <2>2. TxCursorInv'
    BY <1>3, <1>5, <2>1 DEF TxCursorInv
  <2>3. TxOwed' = {}
    BY <1>1, <1>2, <1>3, <1>4, <1>5, <1>6 DEF TxOwed
  <2>4. TxOwedInv'
    BY <1>6, <2>3 DEF TxOwedInv
  <2> QED
    BY <1>4, <1>6, <2>2, <2>4 DEF BlocksInv, TxFramesInv
<1>7. CASE /\ txRequest.from <= TxTip /\ txPc' = "scan"
           /\ txEnd' = IF TxTip - txRequest.from + 1 > TxReplayMax
                       THEN txRequest.from + TxReplayMax - 1 ELSE TxTip
  <2>1. TxCursorInv'
    BY <1>7 DEF TxCursorInv
  <2>2. TxOwedInv'
    <3>1. CASE txEnd' = txRequest.from + TxReplayMax - 1
      BY <1>3, <1>7, <3>1 DEF TxOwedInv
    <3>2. CASE txEnd' = TxTip
      <4>1. \A b \in Stored' : ~(HeightOf(b) > txEnd')
        BY <1>1, <1>2, <1>4, <3>2
      <4> QED
        BY <1>7, <4>1 DEF TxOwedInv
    <3> QED
      BY <1>7, <3>1, <3>2
  <2>3. txEnd' \in Nat
    BY <1>1, <1>5, <1>7
  <2> QED
    BY <1>4, <2>1, <2>2, <2>3 DEF BlocksInv, TxFramesInv
<1> QED
  BY <1>6, <1>7 DEF TxReplayLatest

\* A query whose range fits the limit returns all of it.
LEMMA RowsComplete ==
  ASSUME TypeInv, NEW first, NEW last, NEW filter,
         NEW rows \in ListByMomentumHeightRange(first, last, filter),
         ~(Cardinality(InRange(first, last, filter)) > TxReplayMax)
  PROVE  \A b \in InRange(first, last, filter) : \E j \in DOMAIN rows : rows[j] = b
<1> DEFINE all == InRange(first, last, filter)
           n == Cardinality(all)
<1>1. all \subseteq AllBlocks
  BY DEF InRange, AllBlocks, TypeInv
<1>2. IsFiniteSet(all) /\ n \in Nat
  BY <1>1, FS_Subset, FS_CardinalityType, TxAssumption
<1>3. rows \in [1..n -> all] /\ \A i, j \in 1..n : i < j => Before(rows[i], rows[j])
  BY DEF ListByMomentumHeightRange
<1> HIDE DEF n, all
<1>4. \A b \in all : b \in Nat /\ HeightOf(b) \in Nat
  BY <1>1, HeightType, TxAssumption
<1>5. \A i, j \in 1..n : i < j => rows[i] # rows[j]
  <2> SUFFICES ASSUME NEW i \in 1..n, NEW j \in 1..n, i < j, rows[i] = rows[j] PROVE FALSE
    OBVIOUS
  <2>1. rows[i] \in Nat /\ HeightOf(rows[i]) \in Nat
    BY <1>3, <1>4
  <2>2. Before(rows[i], rows[j])
    BY <1>3
  <2> QED
    BY <2>1, <2>2 DEF Before
<1>6. rows \in Injection(1..n, all)
  <2>1. \A i, j \in 1..n : rows[i] = rows[j] => i = j
    BY <1>2, <1>5
  <2> QED
    BY <1>3, <2>1 DEF Injection, IsInjective
<1>7. Cardinality(1..n) = n
  BY <1>2, FS_Interval
<1>8. rows \in Surjection(1..n, all)
  BY <1>2, <1>6, <1>7, FS_Injection DEF n
<1>9. \A b \in all : \E j \in 1..n : rows[j] = b
  BY <1>8 DEF Surjection
<1> QED
  BY <1>3, <1>9 DEF all

\* The scan: what it leaves out is above its end, and ahead, or beyond a cap.
LEMMA ScanOwed ==
  ASSUME IInv, IInv', BlocksInv,
         NEW rows \in ListByMomentumHeightRange(txRequest.from, txEnd, txRequest.filter),
         TxReplayScan(rows)
  PROVE  BlocksInv'
<1>0. TypeInv /\ TableBounded /\ TxQueueInv /\ TxOwedInv
  BY DEF IInv, BlocksInv, TxFramesInv
<1> DEFINE range == InRange(txRequest.from, txEnd, txRequest.filter)
<1>1. /\ txPc = "scan" /\ txPc' = "live" /\ frames' = rows /\ cursor' = replayCursor(rows)
      /\ UNCHANGED <<txStore, txTransit, txRequest, txEnd, txChannel, txAhead>>
      /\ \/ txBeyond' = Stored
         \/ /\ txEnd # txRequest.from + TxReplayMax - 1
            /\ ~(Cardinality(range) > TxReplayMax)
  BY DEF TxReplayScan, Stored
<1>2. /\ TableBounded' /\ TxQueueInv' /\ Stored' = Stored /\ Queue' = Queue /\ Served' = Served
      /\ txLate' = txLate
  BY <1>0, <1>1 DEF TableBounded, TxQueueInv, Stored, Queue, Served, txStore
<1>3. rows \in Seq(AllBlocks) /\ \A j \in DOMAIN rows : rows[j] \in range
  <2>1. rows \in Seq(AllBlocks)
    BY <1>0, RowsType
  <2>2. \E n : rows \in [1..n -> range]
    BY DEF ListByMomentumHeightRange
  <2> QED
    BY <2>1, <2>2
<1>4. \A b \in range : /\ b \in Stored /\ HeightOf(b) <= txEnd /\ HeightOf(b) \in txTable
                       /\ HeightOf(b) \in Nat
  BY <1>0, StoredHeight DEF InRange, Stored
<1> HIDE DEF range
<1>5. /\ cursor'.hashes \subseteq Written'
      /\ cursor'.height = 0 \/ \E b \in range : cursor'.height = HeightOf(b)
  <2>1. CASE rows = <<>>
    <3>1. NoCursor.hashes = {} /\ NoCursor.height = 0
      BY DEF NoCursor
    <3> QED
      BY <1>1, <2>1, <3>1 DEF replayCursor
  <2>2. CASE rows # <<>>
    <3>1. Len(rows) \in DOMAIN rows
      BY <1>3, <2>2
    <3>2. cursor' = Marked(rows)
      BY <1>1, <2>2 DEF replayCursor
    <3>3. cursor'.height = HeightOf(rows[Len(rows)]) /\ cursor'.hashes \subseteq {rows[j] : j \in DOMAIN rows}
      BY <3>2 DEF Marked
    <3> QED
      BY <1>1, <1>3, <3>1, <3>3 DEF Written
  <2> QED
    BY <2>1, <2>2
<1>6. TxCursorInv'
  <2>1. txRequest.from > 0 => cursor'.height < txRequest.from \/ cursor'.height \in txTable
    BY <1>4, <1>5
  <2> QED
    BY <1>1, <1>5, <2>1 DEF TxCursorInv, txStore
<1>7. ASSUME Served, NEW b \in TxOwed' PROVE cursor'.height <= HeightOf(b) /\ Ahead(Queue, b)
  <2>1. /\ b \in Stored /\ txRequest.from <= HeightOf(b) /\ Matches(b, txRequest.filter)
        /\ b \notin Written' /\ b \notin txLate /\ b \notin txBeyond'
    BY <1>1, <1>2, <1>7 DEF TxOwed
  <2>2. txEnd # txRequest.from + TxReplayMax - 1 /\ ~(Cardinality(range) > TxReplayMax)
    BY <1>1, <2>1
  <2>3. b \notin range
    <3>1. \A x \in range : \E j \in DOMAIN rows : rows[j] = x
      BY <1>0, <2>2, RowsComplete DEF range
    <3> QED
      BY <1>1, <2>1, <3>1 DEF Written
  <2>4. HeightOf(b) \in Nat /\ ~(HeightOf(b) <= txEnd)
    <3>1. HeightOf(b) \in Nat
      BY <1>0, <2>1, StoredHeight
    <3>2. ~(HeightOf(b) <= txEnd)
      BY <2>1, <2>3 DEF range, InRange, Stored
    <3> QED
      BY <3>1, <3>2
  <2>5. txEnd \in Nat
    BY DEF BlocksInv
  <2>6. Ahead(Queue, b)
    BY <1>0, <1>1, <1>7, <2>1, <2>2, <2>4, <2>5 DEF TxOwedInv
  <2> QED
    BY <1>4, <1>5, <2>4, <2>5, <2>6
<1>8. TxOwedInv'
  BY <1>1, <1>2, <1>7 DEF TxOwedInv
<1> QED
  BY <1>1, <1>2, <1>6, <1>8 DEF BlocksInv, TxFramesInv

\* A live block is taken: nothing owed is below the cursor it leaves.
LEMMA ReceiveOwed ==
  ASSUME IInv, IInv', BlocksInv, TxLiveReceive
  PROVE  BlocksInv'
<1> DEFINE b == Head(txChannel.buf)
<1>0. TypeInv /\ TypeInv' /\ TableBounded /\ TxQueueInv /\ TxCursorInv /\ TxOwedInv
  BY DEF IInv, BlocksInv, TxFramesInv
<1>1. /\ txPc = "live" /\ txChannel.buf # <<>> /\ ~txChannel.lagged
      /\ txChannel' = [txChannel EXCEPT !.buf = Tail(txChannel.buf)]
      /\ UNCHANGED <<txStore, txTransit, txRequest, txEnd, txBeyond, txAhead>>
  BY DEF TxLiveReceive
<1>2. txChannel \in Channels /\ txChannel.buf \in Seq(AllBlocks)
  BY <1>0, ChannelType, Zenon DEF TypeInv
<1>3. /\ txChannel'.buf = Tail(txChannel.buf)
      /\ txChannel'.lagged = txChannel.lagged /\ txChannel'.open = txChannel.open
  <2>1. \A q : /\ [txChannel EXCEPT !.buf = q].buf = q
              /\ [txChannel EXCEPT !.buf = q].lagged = txChannel.lagged
              /\ [txChannel EXCEPT !.buf = q].open = txChannel.open
    BY <1>2, ChannelFields, Zenon
  <2> QED
    BY <1>1, <2>1, Zenon
<1> DEFINE s == txChannel.buf
           n == Len(s)
<1>4. /\ n \in Nat /\ n > 0 /\ DOMAIN s = 1..n /\ b = s[1] /\ b \in AllBlocks
      /\ Len(txChannel'.buf) = n - 1 /\ DOMAIN txChannel'.buf = 1..(n - 1)
      /\ \A i \in 1..(n - 1) : txChannel'.buf[i] = s[i + 1]
  BY <1>1, <1>2, <1>3
<1>5. b \in Stored
  BY <1>0, <1>4 DEF TxQueueInv
<1>6. HeightOf(b) \in Nat \ {0} /\ HeightOf(b) \in txTable
  BY <1>0, <1>5, StoredHeight
<1>7. /\ TableBounded' /\ TxQueueInv' /\ Stored' = Stored /\ Served' = Served /\ txLate' = txLate
      /\ txEnd' \in Nat
  <2>1. TableBounded' /\ Stored' = Stored /\ Served' = Served /\ txLate' = txLate
    BY <1>0, <1>1, <1>3 DEF TableBounded, Stored, Served, txStore
  <2>2. TxQueueInv'
    <3>1. \A i \in 1..n : s[i] \in Stored
      BY <1>0, <1>4 DEF TxQueueInv
    <3>2. \A i \in 1..(n - 1) : i + 1 \in 1..n
      BY <1>4
    <3>3. \A i \in DOMAIN txChannel'.buf : txChannel'.buf[i] \in Stored
      BY <1>4, <3>1, <3>2
    <3>4. \A i \in DOMAIN txTransit' : txTransit'[i] \in Stored
      BY <1>0, <1>1 DEF TxQueueInv
    <3> QED
      BY <2>1, <3>3, <3>4 DEF TxQueueInv
  <2> QED
    BY <1>1, <2>1, <2>2 DEF BlocksInv
<1>8. /\ Len(Queue) = n + Len(txTransit) /\ Len(Queue) \in Nat /\ Queue[1] = b
      /\ Len(Queue') = Len(Queue) - 1
      /\ \A i \in 1..Len(Queue') : Queue'[i] = Queue[i + 1]
  <2>1. /\ Len(Queue) = n + Len(txTransit) /\ Len(Queue) \in Nat /\ Len(txTransit) \in Nat
        /\ \A i \in 1..n : Queue[i] = s[i]
        /\ \A i \in 1..Len(txTransit) : Queue[n + i] = txTransit[i]
    BY <1>0, QueueType DEF QueueShape
  <2>2. QueueShape'
    BY <1>0, <1>7, QueueType, PTL
  <2>3. /\ Len(Queue') = (n - 1) + Len(txTransit)
        /\ \A i \in 1..(n - 1) : Queue'[i] = s[i + 1]
        /\ \A i \in 1..Len(txTransit) : Queue'[(n - 1) + i] = txTransit[i]
    BY <1>1, <1>4, <2>2 DEF QueueShape
  <2> HIDE DEF s, n, b
  <2>4. ASSUME NEW i \in 1..Len(Queue') PROVE Queue'[i] = Queue[i + 1]
    <3>1. CASE i \in 1..(n - 1)
      <4>1. i + 1 \in 1..n
        BY <1>4, <3>1
      <4> QED
        BY <2>1, <2>3, <3>1, <4>1
    <3>2. CASE i > n - 1
      <4> DEFINE k == i - (n - 1)
      <4>1. k \in 1..Len(txTransit) /\ (n - 1) + k = i /\ n + k = i + 1
        BY <1>4, <2>1, <2>3, <3>2
      <4> HIDE DEF k
      <4>2. Queue'[i] = txTransit[k] /\ Queue[i + 1] = txTransit[k]
        BY <2>1, <2>3, <4>1
      <4> QED
        BY <4>2
    <3> QED
      BY <1>4, <3>1, <3>2
  <2>5. Queue[1] = b
    BY <1>4, <2>1
  <2>6. Len(Queue') = Len(Queue) - 1
    BY <1>4, <2>1, <2>3
  <2> QED
    BY <2>1, <2>4, <2>5, <2>6
<1> HIDE DEF b, s, n
<1>9. ASSUME NEW x, Ahead(Queue, x), x # b
      PROVE  Ahead(Queue', x) /\ HeightOf(b) <= HeightOf(x)
  BY <1>8, <1>9, AheadTaken
<1>10. CASE /\ ~Matches(b, txRequest.filter) \/ seen(cursor, b)
            /\ UNCHANGED <<txPc, cursor, frames>>
  <2>1. TxCursorInv' /\ TxOwed' = TxOwed
    BY <1>0, <1>1, <1>7, <1>10 DEF TxCursorInv, Written, TxOwed, txStore
  <2>2. ASSUME txRequest.from > 0, Served, NEW x \in TxOwed
        PROVE  cursor.height <= HeightOf(x) /\ Ahead(Queue', x)
    <3>1. cursor.height <= HeightOf(x) /\ Ahead(Queue, x)
      BY <1>0, <1>1, <2>2 DEF TxOwedInv
    <3>2. /\ Matches(x, txRequest.filter) /\ x \notin Written
          /\ HeightOf(x) \in Nat /\ cursor.height \in Nat
      <4>1. x \in Stored /\ Matches(x, txRequest.filter) /\ x \notin Written
        BY <2>2 DEF TxOwed
      <4>2. cursor.height \in Nat
        BY <1>0 DEF TypeInv, Cursors
      <4> QED
        BY <1>0, <4>1, <4>2, StoredHeight
    <3>3. x # b
      <4>1. CASE ~Matches(b, txRequest.filter)
        BY <3>2, <4>1
      <4>2. CASE seen(cursor, b)
        BY <1>0, <1>1, <1>6, <3>1, <3>2, <4>2 DEF seen, TxCursorInv
      <4> QED
        BY <1>10, <4>1, <4>2
    <3> QED
      BY <1>9, <3>1, <3>3
  <2>3. TxOwedInv'
    BY <1>1, <1>7, <1>10, <2>1, <2>2 DEF TxOwedInv
  <2> QED
    BY <1>7, <2>1, <2>3 DEF BlocksInv, TxFramesInv
<1>11. CASE /\ frames' = Append(frames, b)
            /\ IF markPanics(cursor, b) THEN txPc' = "panic" /\ UNCHANGED cursor
               ELSE cursor' = mark(cursor, b) /\ UNCHANGED txPc
  <2>0. frames \in Seq(AllBlocks)
    BY <1>0 DEF TypeInv
  <2>1. Written' = Written \cup {b}
    <3>1. /\ DOMAIN frames' = 1..(Len(frames) + 1) /\ DOMAIN frames = 1..Len(frames)
          /\ Len(frames) \in Nat /\ frames'[Len(frames) + 1] = b
          /\ \A j \in 1..Len(frames) : frames'[j] = frames[j]
      BY <1>4, <1>11, <2>0
    <3>2. Written' \subseteq Written \cup {b}
      BY <3>1 DEF Written
    <3>3. Written \cup {b} \subseteq Written'
      <4>1. ASSUME NEW j \in DOMAIN frames PROVE frames[j] \in Written'
        BY <3>1, <4>1 DEF Written
      <4>2. b \in Written'
        BY <3>1 DEF Written
      <4> QED
        BY <4>1, <4>2 DEF Written
    <3> QED
      BY <3>2, <3>3
  <2>2. CASE markPanics(cursor, b)
    BY <1>7, <1>11, <2>2 DEF BlocksInv, TxFramesInv, TxCursorInv, TxOwedInv
  <2>3. CASE ~markPanics(cursor, b)
    <3>1. cursor' = mark(cursor, b) /\ txPc' = "live"
      BY <1>1, <1>11, <2>3
    <3>2. cursor'.height = HeightOf(b) /\ cursor'.hashes \subseteq cursor.hashes \cup {b}
      BY <3>1 DEF mark
    <3>3. TxCursorInv'
      BY <1>0, <1>1, <1>6, <2>1, <3>1, <3>2 DEF TxCursorInv, txStore
    <3>4. ASSUME txRequest.from > 0, Served, NEW x \in TxOwed'
          PROVE  cursor'.height <= HeightOf(x) /\ Ahead(Queue', x)
      <4>1. x \in TxOwed /\ x # b
        BY <1>1, <1>7, <2>1, <3>4 DEF TxOwed
      <4>2. Ahead(Queue, x)
        BY <1>0, <1>1, <3>4, <4>1 DEF TxOwedInv
      <4> QED
        BY <1>9, <3>2, <4>1, <4>2
    <3>5. TxOwedInv'
      BY <1>1, <1>7, <3>1, <3>4 DEF TxOwedInv
    <3> QED
      BY <1>7, <3>3, <3>5 DEF BlocksInv, TxFramesInv
  <2> QED
    BY <2>2, <2>3
<1> QED
  BY <1>10, <1>11 DEF TxLiveReceive, b

\* The invariant of the blocks owed is inductive, relative to IInv.
LEMMA NextOwed == IInv /\ IInv' /\ BlocksInv /\ [TxNext]_txVars => BlocksInv'
<1> SUFFICES ASSUME IInv, IInv', BlocksInv, [TxNext]_txVars PROVE BlocksInv'
  OBVIOUS
<1>1. CASE TxReturn
  <2>1. /\ UNCHANGED <<txStore, txTransit>> /\ txPc' = "idle" /\ txEnd' = 0
        /\ txChannel' = NoChannel
    BY <1>1 DEF TxReturn, TxGone
  <2>2. txChannel'.buf = <<>>
    BY <2>1, ChannelFields, Zenon
  <2>3. TableBounded' /\ txEnd' \in Nat /\ TxCursorInv' /\ TxOwedInv'
    BY <2>1 DEF BlocksInv, TableBounded, TxCursorInv, TxOwedInv, txStore
  <2>4. TxQueueInv'
    <3>1. TxQueueInv /\ Stored' = Stored
      BY <2>1 DEF BlocksInv, TxFramesInv, Stored, txStore
    <3> QED
      BY <2>1, <2>2, <3>1 DEF TxQueueInv
  <2> QED
    BY <2>3, <2>4 DEF BlocksInv, TxFramesInv
<1>2. CASE UNCHANGED txVars
  BY <1>2 DEF txVars, txStore, txHistory, BlocksInv, TxFramesInv, TableBounded, TxQueueInv, Stored,
              TxCursorInv, TxOwedInv, TxOwed, Served, Queue, Written
<1> QED
  BY <1>1, <1>2, CommitOwed, HubOwed, BeginOwed, LatestOwed, ScanOwed, ReceiveOwed DEF TxNext

\* Up to its cursor a connection has every block since from_height, but for
\* those stored late, left out by a cap, or of the cursor's height and ahead.
THEOREM Exact == TxSpec => []TxExact
<1>1. IInv /\ BlocksInv => TxExact
  <2> SUFFICES ASSUME IInv, BlocksInv, txPc = "live", txRequest.from > 0, ~txChannel.lagged,
                      txChannel.open,
                      NEW b \in InRange(txRequest.from, cursor.height, txRequest.filter),
                      b \notin Written \cup txLate \cup txBeyond
               PROVE  HeightOf(b) = cursor.height /\ b \in OnItsWay
    BY DEF TxExact, IInv
  <2>1. /\ b \in TxOwed /\ HeightOf(b) <= cursor.height
    BY DEF InRange, TxOwed, Stored
  <2>2. cursor.height <= HeightOf(b) /\ Ahead(Queue, b)
    BY <2>1 DEF BlocksInv, TxFramesInv, TxOwedInv, Served
  <2>3. TypeInv /\ TxQueueInv
    BY DEF IInv, BlocksInv, TxFramesInv
  <2>4. HeightOf(b) \in Nat /\ cursor.height \in Nat
    <3>1. b \in Stored
      BY <2>1 DEF TxOwed
    <3> QED
      BY <2>3, <3>1, StoredHeight DEF TypeInv, Cursors
  <2>5. QueueShape
    BY <2>3, QueueType
  <2>6. PICK j \in 1..Len(Queue) : Queue[j] = b
    BY <2>2 DEF Ahead
  <2>7. b \in OnItsWay
    <3> DEFINE n == Len(txChannel.buf)
    <3>1. /\ n \in Nat /\ Len(txTransit) \in Nat
          /\ DOMAIN txChannel.buf = 1..n /\ DOMAIN txTransit = 1..Len(txTransit)
      BY <2>5 DEF QueueShape
    <3>2. CASE j <= n
      <4>1. j \in 1..n /\ txChannel.buf[j] = b
        BY <2>5, <2>6, <3>1, <3>2 DEF QueueShape
      <4> QED
        BY <3>1, <4>1 DEF OnItsWay
    <3>3. CASE ~(j <= n)
      <4>1. j - n \in 1..Len(txTransit) /\ n + (j - n) = j
        BY <2>5, <3>1, <3>3 DEF QueueShape
      <4>2. txTransit[j - n] = b
        BY <2>5, <2>6, <4>1 DEF QueueShape
      <4> QED
        BY <3>1, <4>1, <4>2 DEF OnItsWay
    <3> QED
      BY <3>2, <3>3
  <2> QED
    BY <2>1, <2>2, <2>4, <2>7
<1> QED
  BY <1>1, Invariant, InitOwed, NextOwed, PTL DEF TxSpec

-----------------------------------------------------------------------------
(* The hub and the stream of momentums *)

USE StreamAssumption

\* The connections of a subject.
Of(s) == {c \in subs : SubjectOf[c] = s}

\* The connections of a subject are finitely many.
LEMMA OfFinite ==
  ASSUME RegType, NEW s
  PROVE  IsFiniteSet(Of(s)) /\ Cardinality(Of(s)) \in Nat
<1>1. Of(s) \in SUBSET subs
  BY DEF Of
<1>2. IsFiniteSet(Of(s))
  BY <1>1, FS_Subset DEF RegType
<1> QED
  BY <1>2, FS_CardinalityType

\* A queue that was appended to is not empty.
LEMMA AppendNotEmpty ==
  ASSUME NEW S, NEW q \in Seq(S), NEW x \in S
  PROVE  Append(q, x) # <<>>
<1>1. Len(Append(q, x)) = Len(q) + 1 /\ Len(q) \in Nat
  OBVIOUS
<1> QED
  BY <1>1

\* A step that leaves the counts and the registered connections alone keeps
\* them equal.
LEMMA CapUnchanged ==
  ASSUME CapExact, UNCHANGED <<subs, perSubject>>
  PROVE  CapExact'
BY DEF CapExact

\* The initial state satisfies the invariant.
LEMMA InitRegistryInv == Init => RegistryInv
<1> SUFFICES ASSUME Init PROVE RegistryInv
  OBVIOUS
<1>1. RegType /\ MutexInv /\ CloseInv /\ HubInv /\ LagInv
  BY FS_EmptySet DEF Init, RegType, MutexInv, CloseInv, HubInv, LagInv, NoRow, HandlerPcs
<1>2. CapExact
  <2>1. \A s : {c \in subs : SubjectOf[c] = s} = {}
    BY DEF Init
  <2> QED
    BY <2>1, FS_EmptySet DEF Init, CapExact, NoRow
<1> QED
  BY <1>1, <1>2 DEF RegistryInv

\* A step that neither moves a handler nor touches the registry or a channel,
\* and leaves the hub where it is.
LEMMA QuietStep ==
  ASSUME RegistryInv, UNCHANGED <<reg, cpc, channel>>, transit' \in Seq(Heights), HubInv'
  PROVE  RegistryInv'
<1> USE DEF RegistryInv, reg, channel
<1>1. RegType' /\ MutexInv' /\ CloseInv' /\ LagInv'
  BY DEF RegType, MutexInv, CloseInv, LagInv
<1> QED
  BY <1>1, CapUnchanged

\* Commits.
LEMMA CommitStep ==
  ASSUME RegistryInv, NEW h \in Heights, Commit(h)
  PROVE  RegistryInv'
<1>1. transit' \in Seq(Heights)
  <2>1. transit \in Seq(Heights)
    BY DEF RegistryInv, RegType
  <2>2. Append(transit, h) \in Seq(Heights)
    BY <2>1
  <2> QED
    BY <2>1, <2>2 DEF Commit
<1>2. HubInv'
  BY DEF Commit, RegistryInv, HubInv, reg
<1> QED
  BY <1>1, <1>2, QuietStep DEF Commit, handler

\* The hub's steps that change its state or its position only.
LEMMA HubStateStep ==
  ASSUME RegistryInv, HubListen \/ HubWaitFails \/ HubStop \/ Shutdown
  PROVE  RegistryInv'
<1> USE DEF HubListen, HubWaitFails, HubStop, Shutdown
<1>1. transit' \in Seq(Heights)
  <2>1. <<>> \in Seq(Heights) /\ transit \in Seq(Heights)
    BY DEF RegistryInv, RegType
  <2> QED
    BY <2>1
<1>2. HubInv' /\ UNCHANGED <<reg, cpc, channel>>
  BY DEF RegistryInv, HubInv, reg, handler
<1> QED
  BY <1>1, <1>2, QuietStep

\* dispatch.
LEMMA DispatchStep ==
  ASSUME RegistryInv, HubDispatch
  PROVE  RegistryInv'
<1> USE DEF RegistryInv, HubDispatch, reg, handler
<1>1. Head(transit) \in Heights /\ transit' \in Seq(Heights)
  BY DEF RegType
<1>2. buf' \in [Clients -> Seq(Heights)]
  <2>1. \A c \in Clients : Append(buf[c], Head(transit)) \in Seq(Heights)
    BY <1>1 DEF RegType
  <2> QED
    BY <2>1 DEF RegType
<1>3. RegType'
  BY <1>1, <1>2 DEF RegType
<1>4. MutexInv' /\ CloseInv' /\ HubInv'
  BY DEF RegType, MutexInv, CloseInv, HubInv
<1>5. LagInv'
  <2>1. SUFFICES ASSUME NEW c \in Clients,
                        cpc[c] \in {"accept", "latest", "scan", "live"}, lagged'[c] > 0
                 PROVE  buf'[c] # <<>>
    BY DEF LagInv
  <2>2. buf[c] \in Seq(Heights) /\ Len(buf[c]) \in Nat
    BY DEF RegType
  <2>3. CASE c \in subs /\ Len(buf[c]) < BufSize
    <3>1. buf'[c] = Append(buf[c], Head(transit))
      BY <2>3
    <3> QED
      BY <1>1, <2>2, <3>1, AppendNotEmpty
  <2>4. CASE c \in subs /\ Len(buf[c]) >= BufSize
    BY <2>2, <2>4 DEF RegType
  <2>5. CASE c \notin subs
    BY <2>1, <2>5 DEF LagInv, RegType
  <2> QED
    BY <2>2, <2>3, <2>4, <2>5
<1> QED
  BY <1>3, <1>4, <1>5, CapUnchanged

\* With nobody registered all counts are zero.
LEMMA CapEmpty ==
  ASSUME subs' = {}, perSubject' = NoRow
  PROVE  CapExact'
<1>1. SUFFICES ASSUME NEW s \in Subjects
               PROVE  perSubject'[s] = Cardinality(Of(s)') /\ perSubject'[s] <= PerSubjectMax
  BY DEF CapExact, Of
<1>2. Of(s)' = {}
  BY DEF Of
<1>3. Cardinality(Of(s)') = 0
  BY <1>2, FS_EmptySet
<1>4. perSubject'[s] = 0
  BY DEF NoRow
<1> QED
  BY <1>3, <1>4

\* closeAllSubs, after a lost connection and at the end of Run.
LEMMA CloseAllStep ==
  ASSUME RegistryInv, HubCloseSubs \/ HubDrain
  PROVE  RegistryInv'
<1> USE DEF RegistryInv, HubCloseSubs, HubDrain, closeAllSubs, Free, handler
<1>0. subs' = {} /\ perSubject' = NoRow /\ UNCHANGED <<mutex, buf, lagged, cpc, transit>>
  OBVIOUS
<1>1. RegType'
  <2>1. subs' \subseteq Clients /\ IsFiniteSet(subs') /\ perSubject' \in [Subjects -> Int]
    BY <1>0, FS_EmptySet DEF NoRow
  <2>2. \A c \in Clients : closed[c] \in {"no", "yes"} /\ closes[c] \in Nat
    BY DEF RegType
  <2>3. closeAllSubs
    OBVIOUS
  <2>4. closed' \in [Clients -> {"no", "yes"}]
    BY <2>2, <2>3 DEF closeAllSubs
  <2>5. closes' \in [Clients -> Nat]
    BY <2>2, <2>3 DEF closeAllSubs
  <2> QED
    BY <1>0, <2>1, <2>4, <2>5 DEF RegType
<1>2. MutexInv'
  BY <1>0 DEF RegType, MutexInv
<1>3. CloseInv'
  BY DEF RegType, CloseInv
<1>4. HubInv' /\ LagInv'
  BY DEF RegType, HubInv, LagInv
<1>5. CapExact'
  BY <1>0, CapEmpty
<1> QED
  BY <1>1, <1>2, <1>3, <1>4, <1>5

\* A handler that moves on, without the registry and its channel, between the
\* positions where it is registered.
LEMMA MoveStep ==
  ASSUME RegistryInv, NEW c \in Clients, NEW p \in {"latest", "scan", "live", "close"},
         cpc[c] \in {"accept", "latest", "scan", "live"},
         cpc' = [cpc EXCEPT ![c] = p], UNCHANGED <<hub, reg, channel>>
  PROVE  RegistryInv'
<1> USE DEF RegistryInv, hub, reg, channel
<1>1. RegType'
  BY DEF RegType, HandlerPcs
<1>2. MutexInv' /\ CloseInv' /\ HubInv' /\ LagInv'
  BY DEF RegType, MutexInv, CloseInv, HubInv, LagInv
<1> QED
  BY <1>1, <1>2, CapUnchanged

\* The handler's steps up to its return that leave the channel alone.
LEMMA HandlerStep ==
  ASSUME RegistryInv, NEW c \in Clients,
         Accept(c) \/ ReplayLatest(c) \/ ReplayScan(c) \/ LiveHubClosed(c) \/ HandlerFails(c)
  PROVE  RegistryInv'
<1>1. CASE Accept(c)
  BY <1>1, MoveStep DEF Accept
<1>2. CASE ReplayLatest(c)
  BY <1>2, MoveStep DEF ReplayLatest
<1>3. CASE ReplayScan(c)
  BY <1>3, MoveStep DEF ReplayScan
<1>4. CASE LiveHubClosed(c)
  BY <1>4, MoveStep DEF LiveHubClosed, Return
<1>5. CASE HandlerFails(c)
  BY <1>5, MoveStep DEF HandlerFails, Return
<1> QED
  BY <1>1, <1>2, <1>3, <1>4, <1>5

\* The handler takes an event.
LEMMA ReceiveStep ==
  ASSUME RegistryInv, NEW c \in Clients, LiveReceive(c)
  PROVE  RegistryInv'
<1> USE DEF RegistryInv, LiveReceive, hub, reg
<1>1. buf' \in [Clients -> Seq(Heights)]
  BY DEF RegType
<1>2. CASE cpc' = cpc /\ lagged[c] = 0
  <2>1. RegType' /\ MutexInv' /\ CloseInv' /\ HubInv'
    BY <1>1, <1>2 DEF RegType, MutexInv, CloseInv, HubInv
  <2>2. LagInv'
    BY <1>2 DEF RegType, LagInv
  <2> QED
    BY <2>1, <2>2, CapUnchanged
<1>3. CASE cpc' = [cpc EXCEPT ![c] = "close"]
  <2>1. RegType' /\ MutexInv' /\ CloseInv' /\ HubInv'
    BY <1>1, <1>3 DEF RegType, MutexInv, CloseInv, HubInv, HandlerPcs
  <2>2. LagInv'
    BY <1>3 DEF RegType, LagInv
  <2> QED
    BY <2>1, <2>2, CapUnchanged
<1> QED
  BY <1>2, <1>3 DEF Return, handler

\* Subscribe, check and registration.
LEMMA SubscribeStep ==
  ASSUME RegistryInv, NEW c \in Clients,
         (\E f \in FromHeights : SubscribeCheck(c, f)) \/ SubscribeRegister(c)
  PROVE  RegistryInv'
<1> USE DEF RegistryInv, hub, channel
<1>1. CASE \E f \in FromHeights : SubscribeCheck(c, f)
  <2> USE <1>1 DEF SubscribeCheck, Free
  <2>1. RegType' /\ MutexInv'
    BY DEF RegType, MutexInv, HandlerPcs
  <2>2. CloseInv' /\ LagInv'
    BY DEF RegType, CloseInv, LagInv
  <2>3. HubInv'
    BY DEF HubInv
  <2> QED
    BY <2>1, <2>2, <2>3, CapUnchanged
<1>2. CASE SubscribeRegister(c)
  <2> USE <1>2 DEF SubscribeRegister
  <2>1. SubjectOf[c] \in Subjects /\ c \notin subs /\ mutex = c
    BY DEF MutexInv, CloseInv
  <2>2. RegType'
    BY <2>1, FS_AddElement DEF RegType, HandlerPcs
  <2>3. MutexInv' /\ CloseInv' /\ LagInv'
    BY <2>1 DEF RegType, MutexInv, CloseInv, LagInv
  <2>4. HubInv'
    BY <2>1 DEF HubInv
  <2>5. CapExact'
    <3>1. SUFFICES ASSUME NEW s \in Subjects
                   PROVE  /\ perSubject'[s] = Cardinality(Of(s)')
                          /\ perSubject'[s] <= PerSubjectMax
      BY DEF CapExact, Of
    <3>2. perSubject[s] = Cardinality(Of(s)) /\ perSubject[s] <= PerSubjectMax
      BY DEF CapExact, Of
    <3>3. CASE s = SubjectOf[c]
      <4>1. Of(s)' = Of(s) \cup {c} /\ c \notin Of(s)
        BY <2>1, <3>3 DEF Of
      <4>2. Cardinality(Of(s)') = Cardinality(Of(s)) + 1
        <5>1. IsFiniteSet(Of(s))
          BY OfFinite
        <5>2. Cardinality(Of(s) \cup {c}) = Cardinality(Of(s)) + 1
          BY <4>1, <5>1, FS_AddElement
        <5> QED
          BY <4>1, <5>2
      <4>3. perSubject'[s] = perSubject[s] + 1 /\ perSubject[s] < PerSubjectMax
        BY <3>3, <2>1 DEF RegType, MutexInv
      <4> QED
        BY <3>2, <4>2, <4>3 DEF RegType
    <3>4. CASE s # SubjectOf[c]
      <4>1. Of(s)' = Of(s)
        BY <3>4 DEF Of
      <4> QED
        BY <3>2, <3>4, <4>1 DEF RegType
    <3> QED
      BY <3>3, <3>4
  <2> QED
    BY <2>2, <2>3, <2>4, <2>5
<1> QED
  BY <1>1, <1>2

\* unsubscribe.
LEMMA UnsubscribeStep ==
  ASSUME RegistryInv, NEW c \in Clients, Unsubscribe(c)
  PROVE  RegistryInv'
<1> USE DEF RegistryInv, Unsubscribe, hub, channel, Free
<1>1. SubjectOf[c] \in Subjects
  OBVIOUS
<1>2. RegType'
  BY <1>1, FS_RemoveElement DEF RegType, HandlerPcs
<1>3. MutexInv' /\ CloseInv' /\ LagInv'
  BY DEF RegType, MutexInv, CloseInv, LagInv
<1>4. HubInv'
  BY DEF HubInv
<1>5. CapExact'
  <2>1. SUFFICES ASSUME NEW s \in Subjects
                 PROVE  /\ perSubject'[s] = Cardinality(Of(s)')
                        /\ perSubject'[s] <= PerSubjectMax
    BY DEF CapExact, Of
  <2>2. perSubject[s] = Cardinality(Of(s)) /\ perSubject[s] <= PerSubjectMax
    BY DEF CapExact, Of
  <2>3. CASE c \in Of(s)
    <3>1. s = SubjectOf[c] /\ c \in subs /\ Of(s)' = Of(s) \ {c}
      BY <2>3 DEF Of
    <3>2. Cardinality(Of(s)') = Cardinality(Of(s)) - 1
      <4>1. IsFiniteSet(Of(s))
        BY OfFinite
      <4>2. Cardinality(Of(s) \ {c}) = Cardinality(Of(s)) - 1
        BY <2>3, <4>1, FS_RemoveElement
      <4> QED
        BY <3>1, <4>2
    <3>3. perSubject'[s] = perSubject[s] - 1
      BY <3>1 DEF RegType
    <3> QED
      BY <2>2, <3>2, <3>3 DEF RegType
  <2>4. CASE c \notin Of(s)
    <3>1. Of(s)' = Of(s) /\ (c \notin subs \/ s # SubjectOf[c])
      BY <2>4 DEF Of
    <3>2. perSubject'[s] = perSubject[s]
      <4>1. CASE c \in subs
        BY <1>1, <3>1, <4>1 DEF RegType
      <4>2. CASE c \notin subs
        BY <4>2
      <4> QED
        BY <4>1, <4>2
    <3> QED
      BY <2>2, <3>1, <3>2
  <2> QED
    BY <2>3, <2>4
<1> QED
  BY <1>2, <1>3, <1>4, <1>5

\* The deferred Close and the end of the connection.
LEMMA CloseStep ==
  ASSUME RegistryInv, NEW c \in Clients, Close(c) \/ CloseChannel(c)
  PROVE  RegistryInv'
<1> USE DEF RegistryInv, hub, reg
<1>1. CASE Gone(c) /\ UNCHANGED <<hub, reg>> /\ cpc[c] \in {"close", "closeCh"} /\ c \notin subs
  <2> USE <1>1 DEF Gone
  <2>1. RegType'
    BY DEF RegType, HandlerPcs
  <2>2. MutexInv' /\ LagInv' /\ CloseInv'
    BY DEF RegType, MutexInv, LagInv, CloseInv
  <2>3. HubInv'
    BY DEF HubInv
  <2> QED
    BY <2>1, <2>2, <2>3, CapUnchanged
<1>2. CASE Close(c) /\ closed[c] = "no"
  <2> USE <1>2 DEF Close
  <2>1. RegType'
    BY DEF RegType, HandlerPcs
  <2>2. closes[c] = 0
    BY DEF CloseInv
  <2>3. MutexInv' /\ LagInv' /\ CloseInv'
    BY <2>2 DEF RegType, MutexInv, LagInv, CloseInv
  <2>4. HubInv'
    BY DEF HubInv
  <2> QED
    BY <2>1, <2>3, <2>4, CapUnchanged
<1> QED
  BY <1>1, <1>2 DEF Close, CloseChannel, CloseInv

\* The invariant is inductive.
LEMMA StepRegistryInv == RegistryInv /\ [Next]_vars => RegistryInv'
<1> SUFFICES ASSUME RegistryInv, [Next]_vars PROVE RegistryInv'
  OBVIOUS
<1>1. ASSUME NEW h \in Heights, Commit(h) PROVE RegistryInv'
  BY <1>1, CommitStep
<1>2. CASE Hub \/ Shutdown
  BY <1>2, HubStateStep, DispatchStep, CloseAllStep DEF Hub
<1>3. ASSUME NEW c \in Clients,
             (\E f \in FromHeights : SubscribeCheck(c, f)) \/ Handler(c) \/ HandlerFails(c)
      PROVE  RegistryInv'
  BY <1>3, SubscribeStep, HandlerStep, ReceiveStep, UnsubscribeStep, CloseStep DEF Handler
<1>4. CASE UNCHANGED vars
  <2>1. transit' \in Seq(Heights) /\ UNCHANGED <<reg, cpc, channel>>
    BY <1>4 DEF vars, hub, handler, RegistryInv, RegType
  <2>2. HubInv'
    BY <1>4 DEF vars, hub, reg, RegistryInv, HubInv
  <2> QED
    BY <2>1, <2>2, QuietStep
<1> QED
  BY <1>1, <1>2, <1>3, <1>4 DEF Next

\* The invariant holds in every reachable state.
THEOREM RegistryInvariant == Spec => []RegistryInv
BY InitRegistryInv, StepRegistryInv, PTL DEF Spec

\* A subscriber's channel is closed at most once and never sent on afterwards,
\* whoever closes it: its handler, a lost LISTEN connection or the shutdown.
THEOREM NoDoubleClose == Spec => []ChannelsCloseOnce
<1>1. RegistryInv => ChannelsCloseOnce
  BY DEF RegistryInv, CloseInv, ChannelsCloseOnce
<1> QED
  BY <1>1, RegistryInvariant, PTL

\* The per-subject counts are exact and within the cap.
THEOREM SubjectCap == Spec => []CapExact
<1>1. RegistryInv => CapExact
  BY DEF RegistryInv
<1> QED
  BY <1>1, RegistryInvariant, PTL

\* A hub that does not listen has no subscribers.
THEOREM NoOrphanSubscribers == Spec => []NoOrphans
<1>1. RegistryInv => NoOrphans
  BY DEF RegistryInv, HubInv, NoOrphans
<1> QED
  BY <1>1, RegistryInvariant, PTL

\* A live connection that lost an event has one left to notice it with.
THEOREM LagIsNoticed == Spec => []LaggedNoticed
<1>1. RegistryInv => LaggedNoticed
  BY DEF RegistryInv, LagInv, LaggedNoticed
<1> QED
  BY <1>1, RegistryInvariant, PTL

-----------------------------------------------------------------------------
(***************************************************************************)
(* The frames of a connection                                              *)
(***************************************************************************)

\* What the type invariant says beyond RegistryInv.
TypeRest ==
  /\ table \subseteq Heights /\ late \subseteq table
  /\ Len(transit) <= MaxTransit
  /\ hubState \in {"pending", "running", "degraded", "stopped"}
  /\ hpc \in HubPcs /\ ctx \in {"live", "canceled"}
  /\ mutex \in Clients \cup {NoClient}
  /\ from \in [Clients -> FromHeights \cup {0}] /\ end \in [Clients -> 0..MaxHeight]
  /\ lastSent \in [Clients -> Nat]
  /\ \A c \in Clients : Len(buf[c]) <= BufSize
  /\ lagged \in [Clients -> 0..1] /\ closes \in [Clients -> 0..1]
  /\ sent \in [Clients -> SUBSET Heights] /\ beyond \in [Clients -> SUBSET Heights]

\* The registry's invariant has most of the types in it.
LEMMA TypeSplit ==
  ASSUME RegistryInv
  PROVE  TypeOK <=> TypeRest
<1>1. perSubject \in [Subjects -> Nat]
  <2>1. \A s \in Subjects : perSubject[s] = Cardinality(Of(s))
    BY DEF RegistryInv, CapExact, Of
  <2>2. \A s \in Subjects : Cardinality(Of(s)) \in Nat
    BY OfFinite DEF RegistryInv
  <2> QED
    BY <2>1, <2>2 DEF RegistryInv, RegType
<1>2. RegType
  BY DEF RegistryInv
<1> QED
  BY <1>1, <1>2 DEF TypeOK, TypeRest, RegType

\* The highest stored height is stored, and no other is above it.
LEMMA LatestIsGreatest ==
  ASSUME NEW S, S \subseteq Heights, S # {}
  PROVE  LET top == CHOOSE h \in S : \A k \in S : k <= h
         IN  top \in S /\ \A k \in S : k <= top
<1>1. MaxHeight \in Nat /\ S \in SUBSET (0..MaxHeight)
  BY DEF Heights
<1>2. \E m \in S : \A k \in S : k <= m
  BY <1>1, Greatest
<1> QED
  BY <1>2

\* FramesInv holds initially.
LEMMA InitFrames == Init => FramesInv
<1> SUFFICES ASSUME Init PROVE FramesInv
  OBVIOUS
<1>1. TypeOK
  <2>1. TypeRest
    BY DEF Init, TypeRest, HubPcs
  <2>2. RegistryInv
    BY InitRegistryInv
  <2> QED
    BY <2>1, <2>2, TypeSplit
<1>2. QueueInv /\ FrameInv /\ OwedInv
  BY DEF Init, QueueInv, FrameInv, OwedInv, Replays
<1> QED
  BY <1>1, <1>2 DEF FramesInv

\* A queue after an event was appended, and after one was taken.
LEMMA QueueFacts ==
  ASSUME NEW S, NEW q \in Seq(S)
  PROVE  /\ Len(q) \in Nat /\ \A i \in 1..Len(q) : q[i] \in S
         /\ \A x \in S : /\ Append(q, x) \in Seq(S)
                         /\ Len(Append(q, x)) = Len(q) + 1
                         /\ \A i \in 1..Len(q) : Append(q, x)[i] = q[i]
                         /\ Append(q, x)[Len(q) + 1] = x
         /\ q # <<>> => /\ Head(q) = q[1] /\ Len(q) > 0
                        /\ Tail(q) \in Seq(S) /\ Len(Tail(q)) = Len(q) - 1
                        /\ \A i \in 1..(Len(q) - 1) : Tail(q)[i] = q[i + 1]
OBVIOUS

\* A commit.
LEMMA CommitFrames ==
  ASSUME RegistryInv, RegistryInv', FramesInv, NEW h \in Heights, Commit(h)
  PROVE  FramesInv'
<1> USE DEF FramesInv, Commit, reg, handler, channel, history
<1>0. TypeRest /\ RegType
  BY TypeSplit DEF RegistryInv
<1>1. transit \in Seq(Heights) /\ buf \in [Clients -> Seq(Heights)]
  BY <1>0 DEF RegType
<1>2. TypeRest'
  <2>1. Len(transit') <= MaxTransit
    BY <1>0, <1>1, QueueFacts DEF TypeRest
  <2> QED
    BY <1>0, <2>1 DEF TypeRest
<1>3. QueueInv'
  <2>1. \A i \in 1..Len(transit') : transit'[i] \in table'
    <3>1. CASE transit' = transit
      BY <3>1 DEF QueueInv
    <3>2. CASE transit' = Append(transit, h)
      BY <1>1, <3>2, QueueFacts DEF QueueInv
    <3> QED
      BY <3>1, <3>2
  <2> QED
    BY <2>1 DEF QueueInv
<1>4. FrameInv'
  BY DEF FrameInv
<1>5. OwedInv'
  <2> SUFFICES ASSUME NEW c \in Clients, Replays(c), NEW k \in Owed(c)'
               PROVE  InOrder(c, k)'
    BY DEF OwedInv, Replays
  <2>0. buf[c] \in Seq(Heights) /\ Len(buf[c]) \in Nat /\ Len(transit) \in Nat
    BY <1>1
  <2>1. CASE k \in Owed(c)
    <3>1. InOrder(c, k)
      BY <2>1 DEF OwedInv
    <3>2. CASE transit' = transit
      BY <3>1, <3>2 DEF InOrder
    <3>3. CASE transit' = Append(transit, h)
      <4>1. ASSUME NEW j \in 1..Len(transit), transit[j] = k,
                   \A i \in 1..(j - 1) : transit[i] <= k
            PROVE  \E m \in 1..Len(transit') :
                     transit'[m] = k /\ \A i \in 1..(m - 1) : transit'[i] <= k
        <5>1. Len(transit') = Len(transit) + 1 /\ \A i \in 1..Len(transit) : transit'[i] = transit[i]
          BY <1>1, <3>3, QueueFacts
        <5> QED
          BY <2>0, <4>1, <5>1
      <4> QED
        BY <3>1, <4>1 DEF InOrder
    <3> QED
      BY <3>2, <3>3
  <2>2. CASE k \notin Owed(c)
    <3>1. k = h /\ h \notin table /\ h \notin late' /\ (cpc[c] # "scan" => from[c] <= h)
      BY <2>2 DEF Owed
    <3>2. \A g \in table : g < h
      BY <1>0, <3>1 DEF TypeRest, Heights
    <3>n. h \in Nat /\ table \subseteq Nat /\ lastSent[c] \in Nat /\ from[c] \in Nat
      <4>1. table \subseteq Heights /\ lastSent \in [Clients -> Nat]
              /\ from \in [Clients -> FromHeights \cup {0}]
        BY <1>0 DEF TypeRest
      <4>2. Heights \subseteq Nat /\ FromHeights \cup {0} \subseteq Nat
        BY DEF Heights
      <4>3. from[c] \in FromHeights \cup {0}
        BY <4>1
      <4> QED
        BY <4>1, <4>2, <4>3
    <3>3. h > lastSent[c]
      <4>1. \/ cpc[c] = "scan" /\ lastSent[c] = 0
            \/ cpc[c] # "scan" /\ lastSent[c] < from[c]
            \/ lastSent[c] \in table
        BY DEF FrameInv, Replays
      <4>2. CASE cpc[c] # "scan" /\ lastSent[c] < from[c]
        BY <3>n, <3>1, <4>2
      <4>3. CASE lastSent[c] \in table
        BY <3>n, <3>2, <4>3
      <4>4. CASE lastSent[c] = 0
        BY <4>4 DEF Heights
      <4> QED
        BY <4>1, <4>2, <4>3, <4>4
    <3>4. \A i \in 1..Len(buf[c]) : ~(buf[c][i] > h)
      <4>1. \A i \in 1..Len(buf[c]) : buf[c][i] \in table
        BY DEF QueueInv
      <4>2. \A g \in table : ~(g > h)
        BY <3>n, <3>2
      <4> QED
        BY <4>1, <4>2
    <3>5. hpc = "wait" =>
            \E j \in 1..Len(transit') :
              transit'[j] = h /\ \A i \in 1..(j - 1) : transit'[i] <= h
      <4> SUFFICES ASSUME hpc = "wait"
                   PROVE  \E j \in 1..Len(transit') :
                            transit'[j] = h /\ \A i \in 1..(j - 1) : transit'[i] <= h
        OBVIOUS
      <4>1. transit' = Append(transit, h)
        OBVIOUS
      <4>2. /\ Len(transit') = Len(transit) + 1 /\ transit'[Len(transit) + 1] = h
            /\ \A i \in 1..Len(transit) : transit'[i] = transit[i]
        BY <1>1, <4>1, QueueFacts
      <4>3. \A i \in 1..Len(transit) : transit[i] <= h
        <5>1. \A i \in 1..Len(transit) : transit[i] \in table
          BY DEF QueueInv
        <5>2. \A g \in table : g <= h
          BY <3>n, <3>2
        <5> QED
          BY <5>1, <5>2
      <4> QED
        BY <2>0, <4>2, <4>3
    <3> QED
      BY <3>1, <3>3, <3>4, <3>5 DEF InOrder
  <2> QED
    BY <2>1, <2>2
<1>6. TypeOK'
  BY <1>2, TypeSplit, PTL
<1> QED
  BY <1>3, <1>4, <1>5, <1>6

\* A connection of which nothing changed, while nothing is stored and the hub
\* neither moves nor takes or loses a notification.
LEMMA OthersKeep ==
  ASSUME OwedInv, NEW c \in Clients, UNCHANGED <<db, transit>>,
         cpc'[c] = cpc[c], from'[c] = from[c], end'[c] = end[c], lastSent'[c] = lastSent[c],
         buf'[c] = buf[c], lagged'[c] = lagged[c], sent'[c] = sent[c], beyond'[c] = beyond[c],
         c \in subs' /\ hpc' = "wait" => c \in subs /\ hpc = "wait"
  PROVE  (Replays(c) => \A h \in Owed(c) : InOrder(c, h))'
<1> SUFFICES ASSUME Replays(c), NEW h \in Owed(c)'
             PROVE  InOrder(c, h)'
  BY DEF Replays
<1>1. h \in Owed(c)
  BY DEF Owed, db
<1>2. InOrder(c, h)
  BY <1>1 DEF OwedInv
<1> QED
  BY <1>2 DEF InOrder

\* The hub's steps that carry no event: its state and position, closeAllSubs.
LEMMA HubFrames ==
  ASSUME RegistryInv, RegistryInv', FramesInv,
         HubListen \/ HubWaitFails \/ HubStop \/ Shutdown \/ HubCloseSubs \/ HubDrain
  PROVE  FramesInv'
<1> USE DEF HubListen, HubWaitFails, HubStop, Shutdown, HubCloseSubs, HubDrain, closeAllSubs,
            FramesInv, reg, handler, channel, history
<1>0. TypeRest /\ RegType
  BY TypeSplit DEF RegistryInv
<1>1. UNCHANGED <<db, handler, history, buf, lagged, mutex>>
  OBVIOUS
<1>2. transit' = transit \/ (transit' = <<>> /\ hpc' # "wait")
  OBVIOUS
<1>3. hubState' \in {"pending", "running", "degraded", "stopped"} /\ hpc' \in HubPcs
        /\ ctx' \in {"live", "canceled"}
  BY <1>0 DEF TypeRest, HubPcs
<1>4. closes' \in [Clients -> 0..1]
  <2>1. closes' = closes \/ closes' = [c \in Clients |-> IF c \in subs /\ closed[c] = "no" THEN 1 ELSE closes[c]]
    OBVIOUS
  <2>2. closes \in [Clients -> 0..1]
    BY <1>0 DEF TypeRest
  <2> QED
    BY <2>1, <2>2
<1>5. subs' \subseteq subs /\ (hpc' = "wait" => hpc = "wait" \/ subs = {})
  BY DEF RegistryInv, HubInv
<1> HIDE DEF HubListen, HubWaitFails, HubStop, Shutdown, HubCloseSubs, HubDrain, closeAllSubs
<1>6. TypeRest'
  <2>1. Len(transit') <= MaxTransit
    BY <1>0, <1>2 DEF TypeRest
  <2> QED
    BY <1>0, <1>1, <1>3, <1>4, <2>1 DEF TypeRest, db
<1>7. QueueInv' /\ FrameInv'
  BY <1>1, <1>2 DEF QueueInv, FrameInv, db
<1>8. OwedInv'
  <2> SUFFICES ASSUME NEW c \in Clients
               PROVE  (Replays(c) => \A h \in Owed(c) : InOrder(c, h))'
    BY DEF OwedInv
  <2>1. CASE transit' = transit
    BY <1>1, <1>5, <2>1, OthersKeep
  <2>2. CASE hpc' # "wait"
    <3> SUFFICES ASSUME Replays(c), NEW h \in Owed(c)
                 PROVE  InOrder(c, h)'
      BY <1>1 DEF Owed, Replays, db
    <3>1. InOrder(c, h)
      BY DEF OwedInv
    <3> QED
      BY <1>1, <2>2, <3>1 DEF InOrder
  <2> QED
    BY <1>2, <2>1, <2>2
<1>9. TypeOK'
  BY <1>6, TypeSplit, PTL
<1> QED
  BY <1>7, <1>8, <1>9

\* dispatch.
LEMMA DispatchFrames ==
  ASSUME RegistryInv, RegistryInv', FramesInv, HubDispatch
  PROVE  FramesInv'
<1> USE DEF FramesInv
<1>0. TypeRest /\ RegType
  BY TypeSplit DEF RegistryInv
<1>1. /\ transit \in Seq(Heights) /\ transit # <<>> /\ buf \in [Clients -> Seq(Heights)]
      /\ lagged \in [Clients -> 0..1] /\ BufSize \in Nat
  BY <1>0 DEF RegType, TypeRest, HubDispatch
<1> DEFINE x == Head(transit)
<1>2. /\ Len(transit) \in Nat /\ Len(transit) > 0 /\ x = transit[1] /\ x \in Heights
      /\ transit' = Tail(transit) /\ Len(transit') = Len(transit) - 1
      /\ \A i \in 1..(Len(transit) - 1) : transit'[i] = transit[i + 1]
  BY <1>1, QueueFacts DEF HubDispatch
<1>3. x \in table
  BY <1>2 DEF QueueInv
<1> HIDE DEF x
<1>4. UNCHANGED <<db, hubState, hpc, ctx, reg, handler, closed, closes, history>>
  BY DEF HubDispatch
<1>5. ASSUME NEW c \in Clients
      PROVE  \/ /\ c \in subs /\ Len(buf[c]) < BufSize
                /\ buf'[c] = Append(buf[c], x) /\ lagged'[c] = lagged[c]
             \/ c \in subs /\ buf'[c] = buf[c] /\ lagged'[c] = 1
             \/ c \notin subs /\ buf'[c] = buf[c] /\ lagged'[c] = lagged[c]
  BY <1>1 DEF HubDispatch, x
<1>6. ASSUME NEW c \in Clients
      PROVE  /\ buf[c] \in Seq(Heights) /\ Len(buf[c]) \in Nat
             /\ Len(Append(buf[c], x)) = Len(buf[c]) + 1
             /\ \A i \in 1..Len(buf[c]) : Append(buf[c], x)[i] = buf[c][i]
             /\ Append(buf[c], x)[Len(buf[c]) + 1] = x
  BY <1>1, <1>2, QueueFacts
<1>7. TypeRest'
  <2>1. Len(transit') <= MaxTransit
    BY <1>0, <1>2 DEF TypeRest
  <2>2. \A c \in Clients : Len(buf'[c]) <= BufSize
    <3> SUFFICES ASSUME NEW c \in Clients PROVE Len(buf'[c]) <= BufSize
      OBVIOUS
    <3>1. Len(buf[c]) <= BufSize
      BY <1>0 DEF TypeRest
    <3>2. CASE buf'[c] = buf[c]
      BY <3>1, <3>2
    <3>3. CASE Len(buf[c]) < BufSize /\ buf'[c] = Append(buf[c], x)
      <4>1. Len(buf'[c]) = Len(buf[c]) + 1 /\ Len(buf[c]) \in Nat
        BY <1>6, <3>3
      <4> QED
        BY <1>1, <3>3, <4>1
    <3> QED
      BY <1>5, <3>2, <3>3
  <2>3. lagged' \in [Clients -> 0..1]
    BY <1>1 DEF HubDispatch
  <2> QED
    BY <1>0, <1>4, <2>1, <2>2, <2>3 DEF TypeRest, db, reg, handler, history
<1>8. QueueInv'
  <2>1. \A i \in 1..Len(transit') : transit'[i] \in table
    BY <1>2 DEF QueueInv
  <2>2. ASSUME NEW c \in Clients, NEW i \in 1..Len(buf'[c])
        PROVE  buf'[c][i] \in table
    <3>1. \A k \in 1..Len(buf[c]) : buf[c][k] \in table
      BY DEF QueueInv
    <3>2. CASE buf'[c] = buf[c]
      BY <3>1, <3>2
    <3>3. CASE buf'[c] = Append(buf[c], x)
      <4>1. i \in 1..Len(buf[c]) \/ i = Len(buf[c]) + 1
        BY <1>6, <3>3
      <4> QED
        BY <1>3, <1>6, <3>1, <3>3, <4>1
    <3> QED
      BY <1>5, <3>2, <3>3
  <2> QED
    BY <1>4, <2>1, <2>2 DEF QueueInv, db
<1>9. FrameInv'
  BY <1>4 DEF FrameInv, handler, history, db
<1>10. OwedInv'
  <2> SUFFICES ASSUME NEW c \in Clients, Replays(c), NEW h \in Owed(c),
                      lagged'[c] = 0
               PROVE  /\ h > lastSent[c]
                      /\ \A i \in 1..Len(buf'[c]) :
                           buf'[c][i] > h => \E j \in 1..(i - 1) : buf'[c][j] = h
                      /\ c \in subs /\ hpc = "wait" =>
                           \/ \E j \in 1..Len(buf'[c]) : buf'[c][j] = h
                           \/ \E j \in 1..Len(transit') :
                                transit'[j] = h /\ \A i \in 1..(j - 1) : transit'[i] <= h
    <3>1. \A c \in Clients : Owed(c)' = Owed(c) /\ Replays(c)' = Replays(c)
      BY <1>4 DEF Owed, Replays, db, handler, history
    <3>2. \A c \in Clients : \A h \in Owed(c) : Replays(c) => h > lastSent[c]
      BY DEF OwedInv, InOrder
    <3> QED
      BY <1>4, <3>1, <3>2 DEF OwedInv, InOrder, handler, reg
  <2>0. h \in Nat /\ x \in Nat
    <3>1. h \in Heights
      BY <1>0 DEF Owed, TypeRest
    <3>2. Heights \subseteq Nat
      BY DEF Heights
    <3> QED
      BY <1>2, <3>1, <3>2
  <2>1. InOrder(c, h)
    BY DEF OwedInv
  <2>2. CASE c \notin subs
    BY <1>5, <2>1, <2>2 DEF InOrder
  <2>3. CASE c \in subs /\ lagged[c] = 0 /\ buf'[c] = Append(buf[c], x)
    <3>1. hpc = "wait"
      BY DEF HubDispatch
    <3>2. CASE \E j \in 1..Len(buf[c]) : buf[c][j] = h
      <4>1. PICK m \in 1..Len(buf[c]) : buf[c][m] = h
        BY <3>2
      <4>2. /\ Len(buf'[c]) = Len(buf[c]) + 1 /\ Len(buf[c]) \in Nat
            /\ \A i \in 1..Len(buf[c]) : buf'[c][i] = buf[c][i]
        BY <1>6, <2>3
      <4>3. m \in 1..Len(buf'[c]) /\ buf'[c][m] = h
        BY <4>1, <4>2
      <4>4. ASSUME NEW i \in 1..Len(buf'[c]), buf'[c][i] > h
            PROVE  \E j \in 1..(i - 1) : buf'[c][j] = h
        <5>1. CASE i = Len(buf[c]) + 1
          <6>1. m \in 1..(i - 1)
            BY <4>2, <5>1
          <6> QED
            BY <4>3, <6>1
        <5>2. CASE i \in 1..Len(buf[c])
          <6>1. buf[c][i] > h
            BY <4>2, <4>4, <5>2
          <6>2. PICK j \in 1..(i - 1) : buf[c][j] = h
            BY <2>1, <2>3, <5>2, <6>1 DEF InOrder
          <6>3. j \in 1..Len(buf[c])
            BY <4>2, <5>2, <6>2
          <6> QED
            BY <4>2, <6>2, <6>3
        <5> QED
          BY <4>2, <5>1, <5>2
      <4>5. h > lastSent[c]
        BY <2>1 DEF InOrder
      <4> QED
        BY <4>3, <4>4, <4>5
    <3>3. CASE \E j \in 1..Len(transit) :
                 transit[j] = h /\ \A i \in 1..(j - 1) : transit[i] <= h
      <4>1. PICK j \in 1..Len(transit) :
                 transit[j] = h /\ \A i \in 1..(j - 1) : transit[i] <= h
        BY <3>3
      <4>2. x <= h
        BY <1>2, <2>0, <4>1
      <4>3. CASE j = 1
        <5>1. x = h
          BY <1>2, <4>1, <4>3
        <5> QED
          BY <1>6, <2>0, <2>1, <2>3, <4>2, <5>1 DEF InOrder
      <4>4. CASE j > 1
        <5>1. j - 1 \in 1..Len(transit') /\ transit'[j - 1] = h
          BY <1>2, <4>1, <4>4
        <5>2. \A i \in 1..(j - 2) : transit'[i] <= h
          BY <1>2, <4>1, <4>4
        <5>3. \E m \in 1..Len(transit') :
                transit'[m] = h /\ \A i \in 1..(m - 1) : transit'[i] <= h
          <6>1. (j - 1) - 1 = j - 2
            BY <4>1
          <6> QED
            BY <5>1, <5>2, <6>1
        <5>4. \A i \in 1..Len(buf'[c]) :
                buf'[c][i] > h => \E m \in 1..(i - 1) : buf'[c][m] = h
          BY <1>6, <2>0, <2>1, <2>3, <4>2 DEF InOrder
        <5> QED
          BY <2>1, <5>3, <5>4 DEF InOrder
      <4> QED
        BY <4>3, <4>4
    <3> QED
      BY <2>1, <2>3, <3>1, <3>2, <3>3 DEF InOrder
  <2> QED
    BY <1>5, <2>2, <2>3
<1>11. TypeOK'
  BY <1>7, TypeSplit, PTL
<1> QED
  BY <1>8, <1>9, <1>10, <1>11

\* A step of a handler after which what it is owed is on its way.
LEMMA HandlerFrames ==
  ASSUME RegistryInv, RegistryInv', FramesInv, NEW c \in Clients, TypeRest',
         UNCHANGED <<db, transit, hpc>>, subs' \subseteq subs \cup {c},
         buf'[c] = buf[c] \/ buf'[c] = <<>> \/ (buf[c] # <<>> /\ buf'[c] = Tail(buf[c])),
         \A d \in Clients \ {c} :
           /\ cpc'[d] = cpc[d] /\ from'[d] = from[d] /\ end'[d] = end[d]
           /\ lastSent'[d] = lastSent[d] /\ buf'[d] = buf[d] /\ lagged'[d] = lagged[d]
           /\ sent'[d] = sent[d] /\ beyond'[d] = beyond[d],
         cpc'[c] # "live" => lastSent'[c] = 0 /\ sent'[c] = {},
         cpc'[c] = "live" /\ from'[c] > 0 => lastSent'[c] < from'[c] \/ lastSent'[c] \in table,
         Replays(c)' => \A h \in Owed(c)' : InOrder(c, h)'
  PROVE  FramesInv'
<1> USE DEF FramesInv
<1>1. QueueInv'
  <2>1. buf[c] \in Seq(Heights)
    BY DEF RegistryInv, RegType
  <2>2. \A i \in 1..Len(buf'[c]) : buf'[c][i] \in table
    <3>1. \A i \in 1..Len(buf[c]) : buf[c][i] \in table
      BY DEF QueueInv
    <3>2. CASE buf'[c] = buf[c] \/ buf'[c] = <<>>
      BY <3>1, <3>2
    <3>3. CASE buf[c] # <<>> /\ buf'[c] = Tail(buf[c])
      BY <2>1, <3>1, <3>3, QueueFacts
    <3> QED
      BY <3>2, <3>3
  <2> QED
    BY <2>2 DEF QueueInv, db
<1>2. FrameInv'
  BY DEF FrameInv, db
<1>3. OwedInv'
  <2> SUFFICES ASSUME NEW d \in Clients
               PROVE  (Replays(d) => \A h \in Owed(d) : InOrder(d, h))'
    BY DEF OwedInv
  <2>1. CASE d = c
    BY <2>1
  <2>2. CASE d # c
    BY <2>2, OthersKeep
  <2> QED
    BY <2>1, <2>2
<1>4. TypeOK'
  BY TypeSplit, PTL
<1> QED
  BY <1>1, <1>2, <1>3, <1>4

\* Subscribe, and the deferred Close up to the end of the connection.
LEMMA RegistryFrames ==
  ASSUME RegistryInv, RegistryInv', FramesInv, NEW c \in Clients,
         \/ (\E f \in FromHeights : SubscribeCheck(c, f)) \/ SubscribeRegister(c)
         \/ Close(c) \/ Unsubscribe(c) \/ CloseChannel(c)
  PROVE  FramesInv'
<1> USE DEF SubscribeCheck, SubscribeRegister, Close, Gone, Unsubscribe, CloseChannel,
            hub, reg, channel, history
<1>0. TypeRest /\ RegType
  BY TypeSplit DEF FramesInv, RegistryInv
<1>1. /\ cpc[c] # "live" /\ cpc'[c] \notin {"scan", "live"} /\ lastSent' = lastSent
      /\ subs' \subseteq subs \cup {c}
  BY <1>0 DEF RegType
<1>2. UNCHANGED <<db, transit, hpc, sent, beyond>>
  OBVIOUS
<1>3. \A d \in Clients \ {c} :
        /\ cpc'[d] = cpc[d] /\ from'[d] = from[d] /\ end'[d] = end[d] /\ lastSent'[d] = lastSent[d]
        /\ buf'[d] = buf[d] /\ lagged'[d] = lagged[d]
  BY <1>0 DEF RegType, TypeRest
<1>4. buf'[c] = buf[c] \/ buf'[c] = <<>>
  BY <1>0 DEF RegType
<1>5. TypeRest'
  <2>1. from' \in [Clients -> FromHeights \cup {0}]
    BY <1>0 DEF TypeRest
  <2>2. \A d \in Clients : Len(buf'[d]) <= BufSize
    BY <1>0, <1>3, <1>4 DEF TypeRest
  <2>3. lagged' \in [Clients -> 0..1] /\ closes' \in [Clients -> 0..1]
    <3>1. /\ lagged' = lagged \/ lagged' = [lagged EXCEPT ![c] = 0]
          /\ closes' = closes \/ closes' = [closes EXCEPT ![c] = 0]
      OBVIOUS
    <3>2. lagged \in [Clients -> 0..1] /\ closes \in [Clients -> 0..1] /\ 0 \in 0..1
      BY <1>0 DEF TypeRest
    <3> QED
      BY ONLY <3>1, <3>2
  <2>4. mutex' \in Clients \cup {NoClient} /\ UNCHANGED <<hubState, ctx, end>>
    BY <1>0 DEF TypeRest
  <2> QED
    BY <1>0, <1>1, <1>2, <2>1, <2>2, <2>3, <2>4 DEF TypeRest, db
<1>6. lastSent[c] = 0 /\ sent[c] = {}
  BY <1>1 DEF FramesInv, FrameInv
<1> HIDE DEF SubscribeCheck, SubscribeRegister, Close, Gone, Unsubscribe, CloseChannel,
             hub, reg, channel, history
<1>7. ~Replays(c)'
  BY <1>1 DEF Replays
<1> QED
  BY <1>1, <1>2, <1>3, <1>4, <1>5, <1>6, <1>7, HandlerFrames

\* The handler returns.
LEMMA ReturnFrames ==
  ASSUME RegistryInv, RegistryInv', FramesInv, NEW c \in Clients, Return(c),
         UNCHANGED <<db, hub, reg, lagged, closed, closes>>,
         buf' = buf \/ (buf[c] # <<>> /\ buf' = [buf EXCEPT ![c] = Tail(@)])
  PROVE  FramesInv'
<1>0. TypeRest /\ RegType
  BY TypeSplit DEF FramesInv, RegistryInv
<1> USE DEF Return, hub, reg
<1>1. buf \in [Clients -> Seq(Heights)] /\ buf[c] \in Seq(Heights)
  BY <1>0 DEF RegType
<1>2. cpc'[c] = "close" /\ lastSent'[c] = 0 /\ sent'[c] = {}
  BY <1>0 DEF RegType, TypeRest
<1>3. \A d \in Clients \ {c} :
        /\ cpc'[d] = cpc[d] /\ from'[d] = from[d] /\ end'[d] = end[d] /\ lastSent'[d] = lastSent[d]
        /\ buf'[d] = buf[d] /\ lagged'[d] = lagged[d]
        /\ sent'[d] = sent[d] /\ beyond'[d] = beyond[d]
  BY <1>0, <1>1 DEF RegType, TypeRest
<1>4. buf'[c] = buf[c] \/ (buf[c] # <<>> /\ buf'[c] = Tail(buf[c]))
  BY <1>1
<1>5. TypeRest'
  <2>1. \A d \in Clients : Len(buf'[d]) <= BufSize
    <3>1. Len(buf'[c]) <= Len(buf[c])
      BY <1>1, <1>4, QueueFacts
    <3>2. Len(buf[c]) \in Nat /\ Len(buf'[c]) \in Nat
      BY <1>1, <1>4, QueueFacts
    <3>3. \A d \in Clients : Len(buf[d]) <= BufSize
      BY <1>0 DEF TypeRest
    <3>4. Len(buf'[c]) <= BufSize
      BY <3>1, <3>2, <3>3
    <3> QED
      BY <1>3, <3>3, <3>4
  <2>2. from' \in [Clients -> FromHeights \cup {0}] /\ end' \in [Clients -> 0..MaxHeight]
          /\ lastSent' \in [Clients -> Nat]
    BY <1>0 DEF TypeRest
  <2>3. sent' \in [Clients -> SUBSET Heights] /\ beyond' \in [Clients -> SUBSET Heights]
    BY <1>0 DEF TypeRest
  <2> QED
    BY <1>0, <2>1, <2>2, <2>3 DEF TypeRest, db
<1>6. UNCHANGED <<db, transit, hpc>> /\ subs' \subseteq subs \cup {c}
  OBVIOUS
<1>7. ~Replays(c)'
  BY <1>2 DEF Replays
<1> HIDE DEF Return, hub, reg
<1> QED
  BY <1>2, <1>3, <1>4, <1>5, <1>6, <1>7, HandlerFrames

\* The handler accepts and reads the latest height: the range reaches it, or
\* the cap leaves the rest to the REST API, and nothing is owed yet.
LEMMA LatestFrames ==
  ASSUME RegistryInv, RegistryInv', FramesInv, NEW c \in Clients,
         Accept(c) \/ ReplayLatest(c)
  PROVE  FramesInv'
<1>0. TypeRest /\ RegType
  BY TypeSplit DEF FramesInv, RegistryInv
<1>1. UNCHANGED <<db, hub, reg, from, channel, sent>>
  BY DEF Accept, ReplayLatest, history
<1>2. cpc[c] # "live" /\ lastSent[c] = 0 /\ sent[c] = {}
  BY DEF Accept, ReplayLatest, FramesInv, FrameInv
<1>3. /\ cpc \in [Clients -> HandlerPcs] /\ from \in [Clients -> FromHeights \cup {0}]
      /\ from[c] \in Nat /\ end \in [Clients -> 0..MaxHeight] /\ lastSent \in [Clients -> Nat]
      /\ sent \in [Clients -> SUBSET Heights] /\ beyond \in [Clients -> SUBSET Heights]
      /\ table \subseteq Heights /\ Heights \subseteq Nat
  <2>1. FromHeights \cup {0} \subseteq Nat /\ Heights \subseteq Nat
    BY DEF Heights
  <2>2. from[c] \in FromHeights \cup {0}
    BY <1>0 DEF TypeRest
  <2> QED
    BY <1>0, <2>1, <2>2 DEF RegType, TypeRest
<1>4. SUFFICES /\ end' \in [Clients -> 0..MaxHeight] /\ lastSent' \in [Clients -> Nat]
               /\ beyond' \in [Clients -> SUBSET Heights]
               /\ \A d \in Clients \ {c} :
                    /\ cpc'[d] = cpc[d] /\ end'[d] = end[d] /\ lastSent'[d] = lastSent[d]
                    /\ beyond'[d] = beyond[d]
               /\ cpc'[c] # "live" => lastSent'[c] = 0
               /\ cpc'[c] = "live" /\ from[c] > 0 =>
                    /\ lastSent'[c] < from[c]
                    /\ \A h \in table : ~(from[c] <= h)
               /\ cpc'[c] = "scan" => \A h \in table : end'[c] < h => h \in beyond'[c]
  <2>1. TypeRest'
    BY <1>0, <1>1, <1>4 DEF TypeRest, db, hub, reg, channel
  <2>2. UNCHANGED <<db, transit, hpc>> /\ subs' \subseteq subs \cup {c} /\ buf'[c] = buf[c]
    BY <1>1 DEF hub, reg, channel
  <2>3. \A d \in Clients \ {c} :
          /\ cpc'[d] = cpc[d] /\ from'[d] = from[d] /\ end'[d] = end[d] /\ lastSent'[d] = lastSent[d]
          /\ buf'[d] = buf[d] /\ lagged'[d] = lagged[d]
          /\ sent'[d] = sent[d] /\ beyond'[d] = beyond[d]
    BY <1>1, <1>4 DEF channel
  <2>4. Replays(c)' => Owed(c)' = {}
    BY <1>1, <1>4 DEF Owed, Replays, db
  <2>5. cpc'[c] = "live" /\ from'[c] > 0 => lastSent'[c] < from'[c]
    BY <1>1, <1>4
  <2>6. sent'[c] = {}
    BY <1>1, <1>2
  <2> QED
    BY <1>4, <2>1, <2>2, <2>3, <2>4, <2>5, <2>6, HandlerFrames
<1>5. CASE Accept(c)
  BY <1>2, <1>3, <1>5 DEF Accept, history
<1>6. CASE ReplayLatest(c)
  <2>1. table # {} => GetLatest \in table /\ \A k \in table : k <= GetLatest
    BY <1>3, LatestIsGreatest DEF GetLatest
  <2> HIDE DEF GetLatest
  <2>3. CASE table = {} /\ cpc' = [cpc EXCEPT ![c] = "live"] /\ UNCHANGED <<end, lastSent, beyond>>
    BY <1>2, <1>3, <2>3
  <2>4. CASE /\ table # {} /\ from[c] > GetLatest /\ cpc' = [cpc EXCEPT ![c] = "live"]
             /\ lastSent' = [lastSent EXCEPT ![c] = from[c] - 1] /\ UNCHANGED <<end, beyond>>
    <3>0. GetLatest \in Heights
      BY <1>3, <2>1, <2>4
    <3>1. GetLatest \in Nat /\ from[c] - 1 \in Nat /\ from[c] - 1 < from[c]
      BY <1>3, <2>4, <3>0
    <3>2. \A h \in table : ~(from[c] <= h)
      BY <1>3, <2>1, <2>4, <3>1
    <3> QED
      BY <1>3, <2>4, <3>1, <3>2
  <2>5. CASE /\ table # {} /\ from[c] <= GetLatest /\ cpc' = [cpc EXCEPT ![c] = "scan"]
             /\ GetLatest - from[c] + 1 > ReplayMax
             /\ end' = [end EXCEPT ![c] = from[c] + ReplayMax - 1]
             /\ beyond' = [beyond EXCEPT ![c] = {h \in table : h > from[c] + ReplayMax - 1}]
             /\ UNCHANGED lastSent
    <3> DEFINE last == from[c] + ReplayMax - 1
               rest == {h \in table : h > last}
    <3>1. GetLatest \in 1..MaxHeight
      BY <1>3, <2>1, <2>5 DEF Heights
    <3>2. last \in 0..MaxHeight
      BY <1>3, <2>5, <3>1
    <3>3. rest \subseteq Heights /\ \A h \in table : last < h => h \in rest
      BY <1>3, <3>2
    <3>4. end' = [end EXCEPT ![c] = last] /\ beyond' = [beyond EXCEPT ![c] = rest]
      BY <2>5
    <3> HIDE DEF last, rest
    <3>5. /\ end' \in [Clients -> 0..MaxHeight] /\ beyond' \in [Clients -> SUBSET Heights]
          /\ end'[c] = last /\ beyond'[c] = rest
          /\ \A d \in Clients \ {c} : end'[d] = end[d] /\ beyond'[d] = beyond[d]
      BY <1>3, <3>2, <3>3, <3>4
    <3> QED
      BY <1>2, <1>3, <2>5, <3>3, <3>5
  <2>6. CASE /\ table # {} /\ from[c] <= GetLatest /\ cpc' = [cpc EXCEPT ![c] = "scan"]
             /\ end' = [end EXCEPT ![c] = GetLatest]
             /\ UNCHANGED <<beyond, lastSent>>
    <3>1. GetLatest \in 0..MaxHeight /\ \A h \in table : ~(GetLatest < h)
      <4>1. GetLatest \in 1..MaxHeight /\ MaxHeight \in Nat
        BY <1>3, <2>1, <2>6 DEF Heights
      <4>2. \A h \in table : h \in Nat /\ h <= GetLatest
        BY <1>3, <2>1, <2>6
      <4> QED
        BY <4>1, <4>2
    <3>2. end' \in [Clients -> 0..MaxHeight] /\ end'[c] = GetLatest
          /\ \A d \in Clients \ {c} : end'[d] = end[d]
      BY <1>3, <2>6, <3>1
    <3> QED
      BY <1>2, <1>3, <2>6, <3>1, <3>2
  <2> QED
    BY <1>6, <2>3, <2>4, <2>5, <2>6 DEF ReplayLatest
<1> QED
  BY <1>5, <1>6

\* The scan sends what its range reaches: still owed is only what was owed
\* before it, above the range.
LEMMA ScanFrames ==
  ASSUME RegistryInv, RegistryInv', FramesInv, NEW c \in Clients, ReplayScan(c)
  PROVE  FramesInv'
<1>0. TypeRest /\ RegType
  BY TypeSplit DEF FramesInv, RegistryInv
<1>1. UNCHANGED <<db, hub, reg, from, channel, beyond>> /\ cpc[c] = "scan"
  BY DEF ReplayScan
<1>3. /\ cpc \in [Clients -> HandlerPcs] /\ from \in [Clients -> FromHeights \cup {0}]
      /\ from[c] \in Nat /\ end \in [Clients -> 0..MaxHeight] /\ lastSent \in [Clients -> Nat]
      /\ sent \in [Clients -> SUBSET Heights] /\ beyond \in [Clients -> SUBSET Heights]
      /\ table \subseteq Heights /\ Heights \subseteq Nat \ {0} /\ end[c] \in Nat
  <2>1. FromHeights \cup {0} \subseteq Nat /\ Heights \subseteq Nat \ {0}
    BY DEF Heights
  <2>2. from[c] \in FromHeights \cup {0} /\ end[c] \in 0..MaxHeight
    BY <1>0 DEF TypeRest
  <2>3. end[c] \in Nat
    BY <2>2
  <2> QED
    BY <1>0, <2>1, <2>2, <2>3 DEF RegType, TypeRest
<1> DEFINE rows == ListByHeightRange(from[c], end[c])
           top == IF rows = {} THEN 0 ELSE CHOOSE h \in rows : \A k \in rows : k <= h
<1>4. rows \subseteq table /\ rows \subseteq Heights /\ \A h \in rows : h <= end[c]
  BY <1>3 DEF ListByHeightRange
<1>5. top \in rows \/ top = 0
  BY <1>4, LatestIsGreatest
<1>6. \A h \in table : from[c] <= h => h \in rows \/ end[c] < h
  BY <1>3 DEF ListByHeightRange
<1>7. /\ sent' = [sent EXCEPT ![c] = rows] /\ lastSent' = [lastSent EXCEPT ![c] = top]
      /\ end' = [end EXCEPT ![c] = 0] /\ cpc' = [cpc EXCEPT ![c] = "live"]
  BY DEF ReplayScan
<1> HIDE DEF rows, top
<1>8. top \in Nat /\ (from[c] > 0 => top < from[c] \/ top \in table) /\ top <= end[c]
  <2>1. CASE top \in rows
    BY <1>3, <1>4, <2>1
  <2>2. CASE top = 0
    BY <1>3, <2>2
  <2> QED
    BY <1>5, <2>1, <2>2
<1>9. /\ sent' \in [Clients -> SUBSET Heights] /\ lastSent' \in [Clients -> Nat]
      /\ end' \in [Clients -> 0..MaxHeight]
      /\ sent'[c] = rows /\ lastSent'[c] = top /\ cpc'[c] = "live"
      /\ \A d \in Clients \ {c} :
           /\ cpc'[d] = cpc[d] /\ end'[d] = end[d] /\ lastSent'[d] = lastSent[d]
           /\ sent'[d] = sent[d]
  <2>1. 0 \in 0..MaxHeight
    OBVIOUS
  <2> QED
    BY <1>3, <1>4, <1>7, <1>8, <2>1
<1>10. TypeRest'
  BY <1>0, <1>1, <1>9 DEF TypeRest, db, hub, reg, channel
<1>11. ASSUME NEW h \in Owed(c)' PROVE InOrder(c, h)'
  <2>1. h \in table /\ from[c] <= h /\ h \notin rows /\ h \notin late \cup beyond[c]
    BY <1>1, <1>9, <1>11 DEF Owed, db
  <2>2. end[c] < h /\ h \in Nat
    BY <1>3, <1>6, <2>1
  <2>3. sent[c] = {}
    BY <1>1 DEF FramesInv, FrameInv
  <2>4. h \in Owed(c)
    BY <1>1, <2>1, <2>2, <2>3 DEF Owed
  <2>5. InOrder(c, h)
    BY <1>1, <2>4 DEF FramesInv, OwedInv, Replays
  <2>6. h > lastSent'[c]
    BY <1>3, <1>8, <1>9, <2>2
  <2>7. UNCHANGED <<subs, hpc, transit, buf, lagged>>
    BY <1>1 DEF hub, reg, channel
  <2> QED
    BY <2>5, <2>6, <2>7 DEF InOrder
<1>12. UNCHANGED <<db, transit, hpc>> /\ subs' \subseteq subs \cup {c} /\ buf'[c] = buf[c]
  BY <1>1 DEF hub, reg, channel
<1>13. \A d \in Clients \ {c} :
         /\ cpc'[d] = cpc[d] /\ from'[d] = from[d] /\ end'[d] = end[d] /\ lastSent'[d] = lastSent[d]
         /\ buf'[d] = buf[d] /\ lagged'[d] = lagged[d]
         /\ sent'[d] = sent[d] /\ beyond'[d] = beyond[d]
  BY <1>1, <1>9 DEF channel
<1>14. cpc'[c] = "live" /\ (from'[c] > 0 => lastSent'[c] < from'[c] \/ lastSent'[c] \in table)
  BY <1>1, <1>8, <1>9
<1> QED
  BY <1>10, <1>11, <1>12, <1>13, <1>14, HandlerFrames

\* The handler takes an event: nothing owed is below the frame it writes.
LEMMA ReceiveFrames ==
  ASSUME RegistryInv, RegistryInv', FramesInv, NEW c \in Clients, LiveReceive(c)
  PROVE  FramesInv'
<1>0. TypeRest /\ RegType
  BY TypeSplit DEF FramesInv, RegistryInv
<1> DEFINE x == Head(buf[c])
<1>1. /\ UNCHANGED <<db, hub, reg, lagged, closed, closes>> /\ buf[c] # <<>> /\ cpc[c] = "live"
      /\ buf' = [buf EXCEPT ![c] = Tail(@)]
  BY DEF LiveReceive
<1>2. buf \in [Clients -> Seq(Heights)] /\ buf[c] \in Seq(Heights)
  BY <1>0 DEF RegType
<1>3. /\ Len(buf[c]) \in Nat /\ Len(buf[c]) > 0 /\ x = buf[c][1] /\ x \in Heights
      /\ buf'[c] = Tail(buf[c]) /\ Len(buf'[c]) = Len(buf[c]) - 1
      /\ \A i \in 1..(Len(buf[c]) - 1) : buf'[c][i] = buf[c][i + 1]
  BY <1>1, <1>2, QueueFacts
<1>4. x \in table
  BY <1>3 DEF FramesInv, QueueInv
<1> HIDE DEF x
<1>5. CASE Return(c)
  BY <1>1, <1>5, ReturnFrames
<1>6. CASE /\ lagged[c] = 0 /\ UNCHANGED <<cpc, from, end, beyond>>
           /\ \/ x <= lastSent[c] /\ UNCHANGED <<lastSent, sent>>
              \/ /\ x > lastSent[c] /\ sent' = [sent EXCEPT ![c] = @ \cup {x}]
                 /\ lastSent' = [lastSent EXCEPT ![c] = x]
  <2>0. /\ lastSent \in [Clients -> Nat] /\ sent \in [Clients -> SUBSET Heights]
        /\ Heights \subseteq Nat /\ table \subseteq Nat
    BY <1>0 DEF TypeRest, Heights
  <2>1. /\ lastSent' \in [Clients -> Nat] /\ sent' \in [Clients -> SUBSET Heights]
        /\ \A d \in Clients \ {c} : lastSent'[d] = lastSent[d] /\ sent'[d] = sent[d]
    BY <1>3, <1>6, <2>0
  <2>2. TypeRest'
    <3>1. \A d \in Clients : Len(buf'[d]) <= BufSize
      BY <1>0, <1>1, <1>2, <1>3 DEF TypeRest
    <3> QED
      BY <1>0, <1>1, <1>6, <2>1, <3>1 DEF TypeRest, db, hub, reg
  <2>3. cpc'[c] = "live" /\ (from[c] > 0 => lastSent'[c] < from[c] \/ lastSent'[c] \in table)
    BY <1>1, <1>4, <1>6, <2>0 DEF FramesInv, FrameInv
  <2>4. ASSUME from[c] > 0, NEW h \in Owed(c)'
        PROVE  InOrder(c, h)'
    <3>1. h \in Owed(c) /\ h \notin sent'[c]
      BY <1>1, <1>6, <2>0 DEF Owed, db
    <3>2. /\ h > lastSent[c] /\ h \in Nat /\ x \in Nat
          /\ \A i \in 1..Len(buf[c]) :
               buf[c][i] > h => \E j \in 1..(i - 1) : buf[c][j] = h
          /\ c \in subs /\ hpc = "wait" =>
               \/ \E j \in 1..Len(buf[c]) : buf[c][j] = h
               \/ \E j \in 1..Len(transit) :
                    transit[j] = h /\ \A i \in 1..(j - 1) : transit[i] <= h
      <4>1. InOrder(c, h)
        BY <1>1, <2>4, <3>1 DEF FramesInv, OwedInv, Replays
      <4>2. h \in Nat /\ x \in Nat
        BY <1>3, <2>0, <3>1 DEF Owed
      <4> QED
        BY <1>6, <4>1, <4>2 DEF InOrder
    <3>3. h # x
      BY <1>6, <2>0, <3>1, <3>2
    <3>4. h > lastSent'[c]
      <4>1. CASE lastSent' = lastSent
        BY <3>2, <4>1
      <4>2. CASE lastSent' = [lastSent EXCEPT ![c] = x]
        <5>1. ~(x > h)
          BY <1>3, <3>2
        <5> QED
          BY <2>0, <3>2, <3>3, <4>2, <5>1
      <4> QED
        BY <1>6, <4>1, <4>2
    <3>5. ASSUME NEW j \in 1..Len(buf[c]), buf[c][j] = h
          PROVE  j - 1 \in 1..Len(buf'[c]) /\ buf'[c][j - 1] = h
      BY <1>3, <3>3, <3>5
    <3>6. ASSUME NEW i \in 1..Len(buf'[c]), buf'[c][i] > h
          PROVE  \E j \in 1..(i - 1) : buf'[c][j] = h
      <4>1. i + 1 \in 1..Len(buf[c]) /\ buf[c][i + 1] > h
        BY <1>3, <3>6
      <4>2. PICK j \in 1..i : buf[c][j] = h
        BY <3>2, <4>1
      <4>3. j \in 1..Len(buf[c])
        BY <1>3, <4>1
      <4> QED
        BY <3>5, <4>2, <4>3
    <3>7. UNCHANGED <<subs, hpc, transit>>
      BY <1>1 DEF hub, reg
    <3> QED
      BY <3>2, <3>4, <3>5, <3>6, <3>7 DEF InOrder
  <2>5. UNCHANGED <<db, transit, hpc>> /\ subs' \subseteq subs \cup {c} /\ from' = from
    BY <1>1, <1>6 DEF hub, reg
  <2>6. \A d \in Clients \ {c} :
          /\ cpc'[d] = cpc[d] /\ from'[d] = from[d] /\ end'[d] = end[d] /\ lastSent'[d] = lastSent[d]
          /\ buf'[d] = buf[d] /\ lagged'[d] = lagged[d]
          /\ sent'[d] = sent[d] /\ beyond'[d] = beyond[d]
    BY <1>1, <1>2, <1>6, <2>1
  <2>7. Replays(c)' => from[c] > 0
    BY <2>3, <2>5 DEF Replays
  <2> QED
    BY <1>1, <1>3, <2>2, <2>3, <2>4, <2>5, <2>6, <2>7, HandlerFrames
<1> QED
  BY <1>5, <1>6 DEF LiveReceive, x, handler, history

\* The invariant of the frames is inductive, relative to that of the registry.
LEMMA StepFrames == RegistryInv /\ RegistryInv' /\ FramesInv /\ [Next]_vars => FramesInv'
<1> SUFFICES ASSUME RegistryInv, RegistryInv', FramesInv, [Next]_vars PROVE FramesInv'
  OBVIOUS
<1>1. ASSUME NEW h \in Heights, Commit(h) PROVE FramesInv'
  BY <1>1, CommitFrames
<1>2. CASE Hub \/ Shutdown
  BY <1>2, HubFrames, DispatchFrames DEF Hub
<1>3. ASSUME NEW c \in Clients,
             (\E f \in FromHeights : SubscribeCheck(c, f)) \/ Handler(c) \/ HandlerFails(c)
      PROVE  FramesInv'
  <2>1. CASE HandlerFails(c) \/ LiveHubClosed(c)
    <3>1. Return(c) /\ UNCHANGED <<db, hub, reg, channel>>
      BY <2>1 DEF HandlerFails, LiveHubClosed
    <3> QED
      BY <3>1, ReturnFrames DEF channel
  <2> QED
    BY <1>3, <2>1, RegistryFrames, LatestFrames, ScanFrames, ReceiveFrames DEF Handler
<1>4. CASE UNCHANGED vars
  BY <1>4 DEF vars, db, hub, reg, handler, channel, history, FramesInv, TypeOK, QueueInv,
              FrameInv, OwedInv, Owed, Replays, InOrder
<1> QED
  BY <1>1, <1>2, <1>3, <1>4 DEF Next

\* Every variable of the hub and its connections has its type, and every queue
\* its bound, in every reachable state.
THEOREM TypeCorrect == Spec => []TypeOK
<1>1. FramesInv => TypeOK
  BY DEF FramesInv
<1> QED
  BY <1>1, InitFrames, StepFrames, RegistryInvariant, PTL DEF Spec

\* A connection with from_height has no gap up to its last frame: not through
\* what is committed between the two queries of its replay, nor through a full
\* channel, a closed hub or a repeated notification.  Only a replay that was cut
\* short leaves out what was stored by then.
THEOREM NoGap == Spec => []GapFree
<1>1. FramesInv => GapFree
  <2> SUFFICES ASSUME FramesInv, NEW c \in Clients, cpc[c] = "live", from[c] > 0,
                      NEW h \in table, from[c] <= h, h <= lastSent[c],
                      h \notin sent[c] \cup late \cup beyond[c]
               PROVE  FALSE
    BY DEF GapFree
  <2>1. h > lastSent[c]
    BY DEF FramesInv, OwedInv, Owed, Replays, InOrder
  <2>2. h \in Nat /\ lastSent[c] \in Nat
    BY DEF FramesInv, TypeOK, Heights
  <2> QED
    BY <2>1, <2>2
<1> QED
  BY <1>1, InitFrames, StepFrames, RegistryInvariant, PTL DEF Spec

=============================================================================
