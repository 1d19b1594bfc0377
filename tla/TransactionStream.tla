-------------------------- MODULE TransactionStream --------------------------
(***************************************************************************)
(* The WebSocket stream of account blocks: TransactionsStream, its cursor, *)
(* replayTransactions and runTxLive of                                     *)
(* internal/api/handlers/transactions_stream.go.                           *)
(*                                                                         *)
(* Its hub is another instance of the one in MomentumStream and shares     *)
(* nothing with it but the commits, so the hub is reduced here to what one *)
(* connection sees of it: it passes notifications on in order, drops those *)
(* that find the channel full, and may close the channel.  A block is the  *)
(* number that its hash has in the order of hashes.                        *)
(***************************************************************************)
EXTENDS Integers, Sequences, FiniteSets

CONSTANTS
  Txs,          \* height -> its account blocks, in the order of the momentum
  Involves,     \* block -> the addresses it is from and to
  TxFilters,    \* values of ?address=, "" for a request without it
  TxFrom,       \* values of ?from_height=, 0 for a request without it
  TxBufSize,    \* ClientBuf of the hub
  TxReplayMax,  \* streamReplayMaxRows, of heights and of rows
  TxMaxTransit  \* bound: notifications on their way to the hub

TxHeights == DOMAIN Txs
BlocksOf(h) == {Txs[h][j] : j \in DOMAIN Txs[h]}
AllBlocks == UNION {BlocksOf(h) : h \in TxHeights}
HeightOf(b) == CHOOSE h \in TxHeights : b \in BlocksOf(h)

ASSUME TxAssumption ==
  /\ TxHeights \subseteq Nat \ {0} /\ AllBlocks \subseteq Nat /\ IsFiniteSet(AllBlocks)
  /\ \A h \in TxHeights : Txs[h] \in Seq(Nat)
  /\ \A g, h \in TxHeights : g # h => BlocksOf(g) \cap BlocksOf(h) = {}
  /\ TxFrom \subseteq Nat /\ TxBufSize \in Nat \ {0} /\ TxReplayMax \in Nat \ {0}
  /\ TxMaxTransit \in Nat

VARIABLES
  txTable,    \* heights whose momentum and blocks are stored
  txLate,     \* blocks stored below a height already there (history)
  txTransit,  \* notifications on the LISTEN connection
  txPc,       \* where the handler is
  txRequest,  \* its parameters [from, filter]
  txEnd,      \* replayTransactions' end
  txChannel,  \* the Subscriber: [buf, lagged, open]
  cursor,     \* the txStreamCursor; made: hashes is not the nil map
  frames,     \* blocks written, in order (history)
  txBeyond,   \* what was stored when a cap cut the replay short (history)
  txAhead     \* the request began above everything stored (history)

txStore   == <<txTable, txLate>>
txHistory == <<frames, txBeyond, txAhead>>
txVars == <<txStore, txTransit, txPc, txRequest, txEnd, txChannel, cursor, txHistory>>

NoCursor  == [height |-> 0, hashes |-> {}, made |-> FALSE]
NoRequest == [from |-> 0, filter |-> ""]
NoChannel == [buf |-> <<>>, lagged |-> FALSE, open |-> TRUE]

TxInit ==
  /\ txTable = {} /\ txLate = {} /\ txTransit = <<>>
  /\ txPc = "idle" /\ txRequest = NoRequest /\ txEnd = 0
  /\ txChannel = NoChannel /\ cursor = NoCursor
  /\ frames = <<>> /\ txBeyond = {} /\ txAhead = FALSE

-----------------------------------------------------------------------------
(***************************************************************************)
(* The indexer and the hub                                                 *)
(***************************************************************************)

\* A momentum is committed, or committed again, with one NOTIFY per block.
TxCommit(h) ==
  /\ Len(txTransit) + Len(Txs[h]) <= TxMaxTransit
  /\ txTable' = txTable \cup {h}
  /\ txLate' = IF h \notin txTable /\ \E k \in txTable : k > h
               THEN txLate \cup BlocksOf(h) ELSE txLate
  /\ txTransit' = txTransit \o Txs[h]
  /\ UNCHANGED <<txPc, txRequest, txEnd, txChannel, cursor, txHistory>>

\* dispatch, to this connection when it is subscribed.
TxDispatch ==
  /\ txTransit # <<>>
  /\ txTransit' = Tail(txTransit)
  /\ txChannel' =
       IF txPc = "idle" \/ ~txChannel.open THEN txChannel
       ELSE IF Len(txChannel.buf) < TxBufSize
       THEN [txChannel EXCEPT !.buf = Append(@, Head(txTransit))]
       ELSE [txChannel EXCEPT !.lagged = TRUE]
  /\ UNCHANGED <<txStore, txPc, txRequest, txEnd, cursor, txHistory>>

\* The LISTEN connection breaks: what it carried is lost, and the channels
\* are closed.
TxHubCloses ==
  /\ txPc # "idle" /\ txChannel.open
  /\ txChannel' = [txChannel EXCEPT !.open = FALSE]
  /\ txTransit' = <<>>
  /\ UNCHANGED <<txStore, txPc, txRequest, txEnd, cursor, txHistory>>

-----------------------------------------------------------------------------
(***************************************************************************)
(* txStreamCursor                                                          *)
(***************************************************************************)

\* Mutant: the cursor of the momentum stream, which compares heights only.
seenByHeight(c, b) == HeightOf(b) <= c.height

seen(c, b) ==
  \/ c.height > 0 /\ HeightOf(b) < c.height
  \/ HeightOf(b) = c.height /\ b \in c.hashes

\* Writing to the nil map panics.
markPanics(c, b) == HeightOf(b) = c.height /\ ~c.made

mark(c, b) ==
  [height |-> HeightOf(b), made |-> TRUE,
   hashes |-> IF HeightOf(b) = c.height THEN c.hashes \cup {b} ELSE {b}]

-----------------------------------------------------------------------------
(***************************************************************************)
(* The handler                                                             *)
(***************************************************************************)

Matches(b, filter) == filter = "" \/ filter \in Involves[b]

\* Subscribe, upgrade, and the choice of a replay.
TransactionsStream(from, filter) ==
  /\ txPc = "idle"
  /\ txRequest' = [from |-> from, filter |-> filter]
  /\ txPc' = IF from > 0 THEN "latest" ELSE "live"
  /\ UNCHANGED <<txStore, txTransit, txEnd, txChannel, cursor, txHistory>>

\* GetLatest's height; without a row there is nothing to replay either.
TxTip == IF txTable = {} THEN 0 ELSE CHOOSE h \in txTable : \A k \in txTable : k <= h

\* replayTransactions: nothing stored from there on, or a range.
TxReplayLatest ==
  LET from == txRequest.from IN
  /\ txPc = "latest"
  /\ \/ /\ from > TxTip
        /\ cursor' = [NoCursor EXCEPT !.height = from - 1]
        /\ txAhead' = TRUE
        /\ txPc' = "live" /\ UNCHANGED txEnd
     \/ /\ from <= TxTip
        /\ txEnd' = IF TxTip - from + 1 > TxReplayMax THEN from + TxReplayMax - 1 ELSE TxTip
        /\ txPc' = "scan" /\ UNCHANGED <<cursor, txAhead>>
  /\ UNCHANGED <<txStore, txTransit, txRequest, txChannel, frames, txBeyond>>

\* Ordered by momentum height and hash.
Before(a, b) == HeightOf(a) < HeightOf(b) \/ (HeightOf(a) = HeightOf(b) /\ a < b)

InRange(first, last, filter) ==
  {b \in UNION {BlocksOf(h) : h \in txTable} :
     first <= HeightOf(b) /\ HeightOf(b) <= last /\ Matches(b, filter)}

\* The answers of the query: the first rows of the range, up to the limit.
ListByMomentumHeightRange(first, last, filter) ==
  LET all == InRange(first, last, filter)
      n == IF Cardinality(all) > TxReplayMax THEN TxReplayMax ELSE Cardinality(all)
  IN {rows \in [1..n -> all] :
        /\ \A i, j \in 1..n : i < j => Before(rows[i], rows[j])
        /\ \A b \in all : \/ \E i \in 1..n : rows[i] = b
                          \/ \A i \in 1..n : Before(rows[i], b)}

\* The cursor after the rows have been written and marked.
Marked(rows) ==
  LET height == HeightOf(rows[Len(rows)]) IN
  [height |-> height, made |-> TRUE,
   hashes |-> {rows[j] : j \in {i \in DOMAIN rows : HeightOf(rows[i]) = height}}]

\* Mutant: an empty replay leaves the cursor below from_height.
replayCursorBelow(rows) ==
  IF rows = <<>> THEN [NoCursor EXCEPT !.height = txRequest.from - 1] ELSE Marked(rows)

replayCursor(rows) == IF rows = <<>> THEN NoCursor ELSE Marked(rows)

TxReplayScan(rows) ==
  LET capped == \/ txEnd = txRequest.from + TxReplayMax - 1
                \/ Cardinality(InRange(txRequest.from, txEnd, txRequest.filter)) > TxReplayMax
  IN
  /\ txPc = "scan"
  /\ frames' = rows
  /\ cursor' = replayCursor(rows)
  /\ txBeyond' = IF capped THEN UNION {BlocksOf(h) : h \in txTable} ELSE {}
  /\ txPc' = "live"
  /\ UNCHANGED <<txStore, txTransit, txRequest, txEnd, txChannel, txAhead>>

\* The handler is gone, with its variables and its Subscriber.
TxGone ==
  /\ txPc' = "idle" /\ txRequest' = NoRequest /\ txEnd' = 0
  /\ txChannel' = NoChannel /\ cursor' = NoCursor
  /\ frames' = <<>> /\ txBeyond' = {} /\ txAhead' = FALSE

\* runTxLive takes a block.
TxLiveReceive ==
  LET b == Head(txChannel.buf)
      skip == ~Matches(b, txRequest.filter) \/ seen(cursor, b)
  IN
  /\ txPc = "live" /\ txChannel.buf # <<>> /\ ~txChannel.lagged
  /\ txChannel' = [txChannel EXCEPT !.buf = Tail(@)]
  /\ \/ skip /\ UNCHANGED <<txPc, cursor, frames>>
     \/ /\ ~skip
        /\ frames' = Append(frames, b)
        /\ IF markPanics(cursor, b) THEN txPc' = "panic" /\ UNCHANGED cursor
           ELSE cursor' = mark(cursor, b) /\ UNCHANGED txPc
  /\ UNCHANGED <<txStore, txTransit, txRequest, txEnd, txBeyond, txAhead>>

\* The handler returns: a lagged subscriber takes no other block and is told so
\* (4000), a closed and empty channel ends the stream (1011), a query or a
\* write fails, the client leaves, or net/http recovers the panic.
TxReturn ==
  /\ txPc # "idle"
  /\ TxGone
  /\ UNCHANGED <<txStore, txTransit>>

TxNext ==
  \/ \E h \in TxHeights : TxCommit(h)
  \/ TxDispatch \/ TxHubCloses
  \/ \E from \in TxFrom, filter \in TxFilters : TransactionsStream(from, filter)
  \/ TxReplayLatest
  \/ \E rows \in ListByMomentumHeightRange(txRequest.from, txEnd, txRequest.filter) :
       TxReplayScan(rows)
  \/ TxLiveReceive \/ TxReturn

TxSpec == TxInit /\ [][TxNext]_txVars

-----------------------------------------------------------------------------
(***************************************************************************)
(* Properties                                                              *)
(***************************************************************************)

Written == {frames[j] : j \in DOMAIN frames}
OnItsWay == {txTransit[j] : j \in DOMAIN txTransit}
              \cup {txChannel.buf[j] : j \in DOMAIN txChannel.buf}

\* Every block at most once, in the order of heights, within the filter.
TxOrdered ==
  /\ \A i, j \in DOMAIN frames : i < j =>
       frames[i] # frames[j] /\ HeightOf(frames[i]) <= HeightOf(frames[j])
  /\ \A b \in Written : Matches(b, txRequest.filter)

\* A connection receives every block at most once, in the order of heights and
\* within its filter, although the replay overlaps the live events, a momentum
\* has several blocks and may be committed twice.  Up to its cursor it has all
\* of those since from_height, but for those stored late, those left out by the
\* replay's caps, and at the cursor's own height those still on their way.
TxExact ==
  txPc = "live" =>
    /\ TxOrdered
    /\ txRequest.from > 0 /\ ~txChannel.lagged /\ txChannel.open =>
         \A b \in InRange(txRequest.from, cursor.height, txRequest.filter) :
           \/ b \in Written \cup txLate \cup txBeyond
           \/ HeightOf(b) = cursor.height /\ b \in OnItsWay

\* The nil map of a cursor without a replay is written to only in a request
\* that began above everything stored: a block of the height just below
\* from_height is then sent, and ends the connection without a close code.
TxPanicsOnlyAhead == txPc = "panic" => txAhead

-----------------------------------------------------------------------------
(***************************************************************************)
(* The inductive invariant of the blocks a connection is owed              *)
(***************************************************************************)

Stored == UNION {BlocksOf(h) : h \in txTable}

\* Only a stored block is notified.
TxQueueInv ==
  /\ \A i \in DOMAIN txTransit : txTransit[i] \in Stored
  /\ \A i \in DOMAIN txChannel.buf : txChannel.buf[i] \in Stored

\* What is ahead of a connection the hub serves.
Queue == txChannel.buf \o txTransit

\* The block is in the queue, and no block of a greater height comes before it.
Ahead(q, b) ==
  \E j \in 1..Len(q) : q[j] = b /\ \A i \in 1..(j - 1) : HeightOf(q[i]) <= HeightOf(b)

\* The matching blocks since from_height that were not written, nor stored
\* late, nor left out by the replay's caps.
TxOwed ==
  {b \in Stored : /\ txRequest.from <= HeightOf(b) /\ Matches(b, txRequest.filter)
                  /\ b \notin Written \cup txLate \cup txBeyond}

Served == txChannel.open /\ ~txChannel.lagged

\* The cursor names only blocks written, and a height that is stored or below
\* from_height.
TxCursorInv ==
  txPc = "live" =>
    /\ cursor.hashes \subseteq Written
    /\ txRequest.from > 0 => cursor.height < txRequest.from \/ cursor.height \in txTable

\* A block owed is not below the cursor and is ahead.  Between the two queries
\* of the replay, so is all that was stored above its end.
TxOwedInv ==
  /\ txPc = "live" /\ txRequest.from > 0 /\ Served =>
       \A b \in TxOwed : cursor.height <= HeightOf(b) /\ Ahead(Queue, b)
  /\ txPc = "scan" /\ Served =>
       \/ txEnd = txRequest.from + TxReplayMax - 1
       \/ \A b \in Stored \ txLate : HeightOf(b) > txEnd => Ahead(Queue, b)

TxFramesInv == TxQueueInv /\ TxCursorInv /\ TxOwedInv
=============================================================================
