-------------------------- MODULE BridgeSync_proofs --------------------------
(***************************************************************************)
(* Proofs about the bridge synchronisation: for every page length, every   *)
(* number of requests and every configuration, and however requests arrive *)
(* and are finalized between two calls, the pages of a part leave nothing  *)
(* out, what a part without a failure leaves is fresh, and without any     *)
(* failure the lists have no hole.                                         *)
(*                                                                         *)
(* The argument follows the paging.  The node's lists only grow at their   *)
(* new end, so the page of index i begins at or above the place where the  *)
(* page before it ended: what has been covered is an interval that grows   *)
(* downwards, and the part ends when it reaches the stop height.           *)
(***************************************************************************)
EXTENDS BridgeSync, NatOrder, SequenceTheorems, FiniteSetTheorems

-----------------------------------------------------------------------------
(* The node's lists *)

\* What the rows of the two tables and the node's requests look like.
Recipients == {RecipientOf[i] : i \in Nat}
WrapRows == [height : Nat \ {0}, to : Recipients, confs : Nat]
UnwrapRows == [height : Nat \ {0}, to : Recipients, redeemed : BOOLEAN, revoked : BOOLEAN]
RowsOf(kind) == IF kind = "wrap" THEN WrapRows ELSE UnwrapRows

\* Requests, oldest first.
Requests(kind, l) ==
  /\ l \in Seq(RowsOf(kind))
  /\ \A i, j \in DOMAIN l : i <= j => l[i].height <= l[j].height

\* r was the request that is s now.
Later(kind, r, s) ==
  /\ s.height = r.height /\ s.to = r.to
  /\ Final(kind, r) => Final(kind, s)

\* m is what the list l has grown into.
Grown(kind, l, m) ==
  /\ DOMAIN l \subseteq DOMAIN m
  /\ \A i \in DOMAIN l : Later(kind, l[i], m[i])
  /\ \A i \in DOMAIN l : \A j \in DOMAIN m \ DOMAIN l : l[i].height < m[j].height

\* The node's side: budgets, version and the two lists.
NodeInv ==
  /\ budget \in Budgets /\ version \in 0..budget["config"]
  /\ node \in [Kinds -> {node[k] : k \in Kinds}]
  /\ \A k \in Kinds : Requests(k, node[k])

\* A list of requests as a function on its positions.
LEMMA ListFacts ==
  ASSUME NEW kind, NEW l, Requests(kind, l)
  PROVE  /\ Len(l) \in Nat /\ DOMAIN l = 1..Len(l)
         /\ \A i \in DOMAIN l : l[i] \in RowsOf(kind) /\ l[i].height \in Nat \ {0}
<1>1. l \in Seq(RowsOf(kind))
  BY DEF Requests
<1>2. \A r \in RowsOf(kind) : r.height \in Nat \ {0}
  BY DEF RowsOf, WrapRows, UnwrapRows
<1>3. Len(l) \in Nat /\ DOMAIN l = 1..Len(l) /\ \A i \in DOMAIN l : l[i] \in RowsOf(kind)
  BY <1>1, LenProperties
<1> QED  BY <1>2, <1>3

\* The last request has the greatest height.
LEMMA LastHeightFacts ==
  ASSUME NEW kind, NEW l, Requests(kind, l)
  PROVE  /\ LastHeight(l) \in Nat
         /\ \A i \in DOMAIN l : l[i].height <= LastHeight(l)
<1>1. /\ Len(l) \in Nat /\ DOMAIN l = 1..Len(l)
      /\ \A i \in DOMAIN l : l[i].height \in Nat \ {0}
  BY ListFacts
<1>2. CASE l = <<>>
  BY <1>2 DEF LastHeight
<1>3. CASE l # <<>>
  <2>1. Len(l) \in DOMAIN l
    BY <1>1, <1>3 DEF Requests
  <2>2. LastHeight(l) = l[Len(l)].height
    BY <1>3 DEF LastHeight
  <2> QED  BY <1>1, <2>1, <2>2 DEF Requests
<1> QED  BY <1>2, <1>3

\* Growing is reflexive.
LEMMA GrownRefl ==
  ASSUME NEW kind, NEW l
  PROVE  Grown(kind, l, l)
BY DEF Grown, Later

\* Growing is transitive, so a page fetched long ago is still comparable.
LEMMA GrownTrans ==
  ASSUME NEW kind, NEW l, NEW m, NEW n, Grown(kind, l, m), Grown(kind, m, n)
  PROVE  Grown(kind, l, n)
<1>1. \A i \in DOMAIN l : Later(kind, l[i], n[i])
  BY DEF Grown, Later
<1>2. ASSUME NEW i \in DOMAIN l, NEW j \in DOMAIN n \ DOMAIN l
      PROVE  l[i].height < n[j].height
  <2>1. CASE j \in DOMAIN m
    <3>1. l[i].height < m[j].height /\ n[j].height = m[j].height
      BY <2>1 DEF Grown, Later
    <3> QED  BY <3>1
  <2>2. CASE j \notin DOMAIN m
    <3>1. m[i].height < n[j].height /\ m[i].height = l[i].height
      BY <2>2 DEF Grown, Later
    <3> QED  BY <3>1
  <2> QED  BY <2>1, <2>2
<1> QED  BY <1>1, <1>2 DEF Grown

\* What a momentum adds is above everything before it.
LEMMA NewRequestsGrow ==
  ASSUME NodeInv, NEW kind \in Kinds, NEW n \in Nat, NewRequests(kind, n)
  PROVE  Requests(kind, node'[kind]) /\ Grown(kind, node[kind], node'[kind])
<1> DEFINE l == node[kind]
           have == Len(l)
           h == LastHeight(l) + 1
           new == [j \in 1..n |-> NewRow(kind, h, RecipientOf[have + j])]
           m == l \o new
<1>1. node'[kind] = m
  BY DEF NewRequests, NodeInv
<1>2. Requests(kind, l)
  BY DEF NodeInv
<1>3. /\ have \in Nat /\ DOMAIN l = 1..have /\ l \in Seq(RowsOf(kind))
      /\ \A i \in DOMAIN l : l[i].height \in Nat \ {0}
  BY <1>2, ListFacts DEF Requests
<1>4. /\ h \in Nat \ {0} /\ \A i \in DOMAIN l : l[i].height < h
  BY <1>2, <1>3, LastHeightFacts
<1> HIDE DEF l, h
<1>5. ASSUME NEW j \in 1..n
      PROVE  /\ new[j] \in RowsOf(kind) /\ new[j].height = h
  <2>1. RecipientOf[have + j] \in Recipients
    BY <1>3 DEF Recipients
  <2>2. new[j] = NewRow(kind, h, RecipientOf[have + j])
    OBVIOUS
  <2>3. NewRow(kind, h, RecipientOf[have + j]) \in RowsOf(kind)
    BY <1>4, <2>1, BridgeAssumption DEF NewRow, RowsOf, WrapRows, UnwrapRows
  <2>4. NewRow(kind, h, RecipientOf[have + j]).height = h
    BY DEF NewRow
  <2> QED  BY <2>2, <2>3, <2>4
<1>6. new \in Seq(RowsOf(kind)) /\ Len(new) = n
  <2>1. new \in [1..n -> RowsOf(kind)]
    BY <1>5
  <2> HIDE DEF new
  <2> QED  BY <2>1
<1> HIDE DEF new, have
<1>7. /\ m \in Seq(RowsOf(kind)) /\ Len(m) = have + n
      /\ \A i \in 1..(have + n) : m[i] = IF i <= have THEN l[i] ELSE new[i - have]
  BY <1>3, <1>6, ConcatProperties DEF have
<1> HIDE DEF m
<1>8. DOMAIN m = 1..(have + n)
  BY <1>7
<1>9. /\ \A i \in 1..have : i \in DOMAIN m /\ m[i] = l[i]
      /\ \A i \in DOMAIN m \ 1..have : m[i].height = h
  <2>1. \A i \in DOMAIN m \ 1..have : i - have \in 1..n /\ m[i] = new[i - have]
    BY <1>3, <1>7, <1>8
  <2> QED  BY <1>3, <1>5, <1>7, <1>8, <2>1
<1>10. Grown(kind, l, m)
  BY <1>3, <1>4, <1>9 DEF Grown, Later
<1>11. ASSUME NEW i \in DOMAIN m, NEW j \in DOMAIN m, i <= j
       PROVE  m[i].height <= m[j].height
  <2>1. CASE j \in 1..have
    <3>1. i \in 1..have
      BY <1>3, <1>8, <1>11, <2>1
    <3> QED  BY <1>2, <1>3, <1>9, <1>11, <2>1, <3>1 DEF Requests
  <2>2. CASE j \notin 1..have
    BY <1>3, <1>4, <1>9, <2>2
  <2> QED  BY <2>1, <2>2
<1>12. Requests(kind, m)
  BY <1>7, <1>11 DEF Requests
<1> QED  BY <1>1, <1>10, <1>12 DEF l

\* A request that makes progress stays the request it is, and final if it is.
LEMMA ProgressGrows ==
  ASSUME NodeInv, NEW kind \in Kinds, NEW i \in DOMAIN node[kind], Progress(kind, i)
  PROVE  Requests(kind, node'[kind]) /\ Grown(kind, node[kind], node'[kind])
<1> DEFINE l == node[kind]
           m == node'[kind]
           r == l[i]
           s == m[i]
<1>1. Requests(kind, l)
  BY DEF NodeInv
<1>2. l \in Seq(RowsOf(kind)) /\ Len(l) \in Nat /\ DOMAIN l = 1..Len(l) /\ r \in RowsOf(kind)
  BY <1>1, ListFacts DEF Requests
<1>3. /\ ~Final(kind, r)
      /\ \/ kind = "wrap" /\ m = [l EXCEPT ![i].confs = @ - 1]
         \/ kind = "unwrap" /\ m = [l EXCEPT ![i].redeemed = TRUE]
         \/ kind = "unwrap" /\ m = [l EXCEPT ![i].revoked = TRUE]
  BY DEF Progress, NodeInv
<1> HIDE DEF l, m
<1>4. /\ DOMAIN m = DOMAIN l /\ \A j \in DOMAIN l : j # i => m[j] = l[j]
      /\ \/ kind = "wrap" /\ s = [r EXCEPT !.confs = @ - 1]
         \/ kind = "unwrap" /\ s = [r EXCEPT !.redeemed = TRUE]
         \/ kind = "unwrap" /\ s = [r EXCEPT !.revoked = TRUE]
  BY <1>2, <1>3 DEF l
<1>5. s \in RowsOf(kind) /\ s.height = r.height /\ s.to = r.to
  <2> HIDE DEF r, s
  <2>1. CASE kind = "wrap"
    <3>1. r \in WrapRows /\ r.confs # 0
      BY <1>2, <1>3, <2>1 DEF RowsOf, Final, IsWrapRequestFinalized
    <3>2. s = [r EXCEPT !.confs = @ - 1]
      BY <1>4, <2>1
    <3>3. s \in WrapRows /\ s.height = r.height /\ s.to = r.to
      BY <3>1, <3>2 DEF WrapRows
    <3> QED  BY <2>1, <3>3 DEF RowsOf
  <2>2. CASE kind = "unwrap"
    <3>1. r \in UnwrapRows
      BY <1>2, <2>2 DEF RowsOf
    <3>2. s = [r EXCEPT !.redeemed = TRUE] \/ s = [r EXCEPT !.revoked = TRUE]
      BY <1>4, <2>2
    <3>3. s \in UnwrapRows /\ s.height = r.height /\ s.to = r.to
      BY <3>1, <3>2 DEF UnwrapRows
    <3> QED  BY <2>2, <3>3 DEF RowsOf
  <2> QED  BY <2>1, <2>2 DEF Kinds
<1>6. \A j \in DOMAIN l : m[j] \in RowsOf(kind) /\ m[j].height = l[j].height
  <2>1. \A j \in DOMAIN l : l[j] \in RowsOf(kind)
    BY <1>2
  <2> QED  BY <1>4, <1>5, <2>1
<1>7. m \in Seq(RowsOf(kind))
  <2>1. m \in [1..Len(l) -> RowsOf(kind)]
    <3>1. m = [j \in DOMAIN l |-> m[j]]
      BY <1>2, <1>3
    <3> QED  BY <1>2, <1>6, <3>1
  <2> QED  BY <1>2, <2>1
<1>8. Requests(kind, m)
  BY <1>1, <1>4, <1>6, <1>7 DEF Requests
<1>9. \A j \in DOMAIN l : Later(kind, l[j], m[j])
  BY <1>3, <1>4, <1>5 DEF Later
<1>10. Grown(kind, l, m)
  BY <1>4, <1>9 DEF Grown
<1> QED  BY <1>8, <1>10 DEF l, m

\* What the node does between two calls.
LEMMA NodeSteps ==
  ASSUME NodeInv, Node
  PROVE  /\ NodeInv' /\ \A k \in Kinds : Grown(k, node[k], node'[k])
         /\ UNCHANGED <<stored, tables, pass, history>> /\ version' >= version
<1>1. /\ UNCHANGED <<budget, stored, tables, pass, history>>
      /\ version' \in 0..budget["config"] /\ version' >= version
  <2>1. budget["config"] \in Nat
    BY BridgeAssumption DEF NodeInv
  <2> QED  BY <2>1 DEF Node, NewRequests, Progress, Reconfigure, NodeInv, nodeVars
<1>2. ASSUME node' = node
      PROVE  \A k \in Kinds : Requests(k, node'[k]) /\ Grown(k, node[k], node'[k])
  BY <1>2, GrownRefl DEF NodeInv
<1>3. ASSUME NEW kind \in Kinds, NEW m, node' = [node EXCEPT ![kind] = m],
             Requests(kind, m), Grown(kind, node[kind], m)
      PROVE  \A k \in Kinds : Requests(k, node'[k]) /\ Grown(k, node[k], node'[k])
  BY <1>3, GrownRefl DEF NodeInv
<1>4. \A k \in Kinds : Requests(k, node'[k]) /\ Grown(k, node[k], node'[k])
  <2>1. ASSUME NEW kind \in Kinds, NEW n \in 1..budget[kind], NewRequests(kind, n)
        PROVE  \A k \in Kinds : Requests(k, node'[k]) /\ Grown(k, node[k], node'[k])
    <3>1. n \in Nat
      OBVIOUS
    <3>2. Requests(kind, node'[kind]) /\ Grown(kind, node[kind], node'[kind])
      BY <2>1, <3>1, NewRequestsGrow
    <3>3. node' = [node EXCEPT ![kind] = node'[kind]]
      BY <2>1 DEF NewRequests, NodeInv
    <3> QED  BY <1>3, <3>2, <3>3
  <2>2. ASSUME NEW kind \in Kinds, NEW i \in DOMAIN node[kind], Progress(kind, i)
        PROVE  \A k \in Kinds : Requests(k, node'[k]) /\ Grown(k, node[k], node'[k])
    <3>1. Requests(kind, node'[kind]) /\ Grown(kind, node[kind], node'[kind])
      BY <2>2, ProgressGrows
    <3>2. node' = [node EXCEPT ![kind] = node'[kind]]
      BY <2>2 DEF Progress, NodeInv
    <3> QED  BY <1>3, <3>1, <3>2
  <2>3. CASE Reconfigure
    BY <1>2, <2>3 DEF Reconfigure
  <2> QED  BY <2>1, <2>2, <2>3 DEF Node
<1>5. node' \in [Kinds -> {node'[k] : k \in Kinds}]
  <2>1. DOMAIN node' = Kinds /\ node' = [k \in Kinds |-> node'[k]]
    BY DEF Node, NewRequests, Progress, Reconfigure, NodeInv
  <2> QED  BY <2>1
<1> QED  BY <1>1, <1>4, <1>5 DEF NodeInv

-----------------------------------------------------------------------------
(* The stored requests *)

\* A table of requests holds some of those the node has.
StoredIn(kind, t, l) ==
  /\ DOMAIN t \subseteq DOMAIN l
  /\ \A i \in DOMAIN t : t[i] \in RowsOf(kind) /\ t[i].height = l[i].height /\ t[i].to = l[i].to

\* Both tables hold requests of the node, under their own ids.
StoredInv ==
  /\ DOMAIN stored = Kinds
  /\ \A k \in Kinds : StoredIn(k, stored[k], node[k])

\* What is stored stays in the list as the list grows.
LEMMA StoredGrown ==
  ASSUME NEW kind, NEW t, NEW l, NEW m, StoredIn(kind, t, l), Grown(kind, l, m)
  PROVE  StoredIn(kind, t, m)
BY DEF StoredIn, Grown, Later

\* What an upsert leaves: its row, final if the row it was given is.
Stored(kind, t, i, r, l) ==
  LET u == Upsert(kind, t, i, r) IN
  /\ StoredIn(kind, u, l)
  /\ DOMAIN u = DOMAIN t \cup {i}
  /\ \A j \in DOMAIN t : j # i => u[j] = t[j]
  /\ Final(kind, u[i]) <=> Final(kind, r)

\* An upsert of a request's row adds or overwrites that one row.
LEMMA UpsertStores ==
  ASSUME NEW kind \in Kinds, NEW t, NEW l, StoredIn(kind, t, l), NEW i \in DOMAIN l,
         NEW r \in RowsOf(kind), r.height = l[i].height, r.to = l[i].to
  PROVE  Stored(kind, t, i, r, l)
<1> DEFINE o == Row(t, i, r)
           s == IF kind = "wrap" THEN [o EXCEPT !.confs = r.confs]
                ELSE [o EXCEPT !.redeemed = r.redeemed, !.revoked = r.revoked]
           u == Put(t, i, s)
<1>1. Upsert(kind, t, i, r) = u
  BY DEF Upsert, UpsertWrapRequest, UpsertUnwrapRequest, Kinds
<1>2. o \in RowsOf(kind) /\ o.height = l[i].height /\ o.to = l[i].to
  BY DEF Row, StoredIn
<1> HIDE DEF o
<1>3. /\ s \in RowsOf(kind) /\ s.height = o.height /\ s.to = o.to
      /\ Final(kind, s) <=> Final(kind, r)
  <2>1. CASE kind = "wrap"
    <3>1. o \in WrapRows /\ r \in WrapRows
      BY <1>2, <2>1 DEF RowsOf
    <3>2. s = [o EXCEPT !.confs = r.confs]
      BY <2>1
    <3> HIDE DEF s
    <3>3. s \in WrapRows /\ s.height = o.height /\ s.to = o.to /\ s.confs = r.confs
      BY <3>1, <3>2 DEF WrapRows
    <3> QED  BY <2>1, <3>3 DEF RowsOf, Final, IsWrapRequestFinalized
  <2>2. CASE kind = "unwrap"
    <3>1. o \in UnwrapRows /\ r \in UnwrapRows
      BY <1>2, <2>2 DEF RowsOf
    <3>2. s = [o EXCEPT !.redeemed = r.redeemed, !.revoked = r.revoked]
      BY <2>2
    <3> HIDE DEF s
    <3>3. /\ s \in UnwrapRows /\ s.height = o.height /\ s.to = o.to
          /\ s.redeemed = r.redeemed /\ s.revoked = r.revoked
      BY <3>1, <3>2 DEF UnwrapRows
    <3> QED  BY <2>2, <3>3 DEF RowsOf, Final, IsUnwrapRequestFinalized
  <2> QED  BY <2>1, <2>2 DEF Kinds
<1> HIDE DEF s
<1>4. DOMAIN u = DOMAIN t \cup {i} /\ u[i] = s /\ \A j \in DOMAIN t : j # i => u[j] = t[j]
  BY DEF Put
<1> HIDE DEF u
<1>5. StoredIn(kind, u, l)
  BY <1>2, <1>3, <1>4 DEF StoredIn
<1> QED  BY <1>1, <1>3, <1>4, <1>5 DEF Stored

\* The stop height is at most the height of every open request and of the newest
\* known, and is one of the node's heights, or 0 when nothing is stored.
LEMMA StopHeight ==
  ASSUME NEW kind \in Kinds, NEW l, Requests(kind, l), NEW t, StoredIn(kind, t, l)
  PROVE  LET stop == SyncStopHeight(kind, t)
         IN /\ stop \in 0..LastHeight(l) /\ stop <= NewestKnown(t)
            /\ \A i \in DOMAIN t : ~Final(kind, t[i]) => stop <= t[i].height
            /\ DOMAIN t = {} => stop = 0
            /\ DOMAIN t # {} => \E i \in DOMAIN t : /\ NewestKnown(t) = l[i].height
                                                    /\ \A j \in DOMAIN t : t[j].height <= l[i].height
<1> DEFINE open == {i \in DOMAIN t : ~Final(kind, t[i])}
           all == HeightsOf(t, DOMAIN t)
           some == HeightsOf(t, open)
           last == LastHeight(l)
           stop == SyncStopHeight(kind, t)
<1>1. last \in Nat /\ all \subseteq 0..last /\ some \subseteq all
  <2>1. last \in Nat /\ \A i \in DOMAIN l : l[i].height <= last /\ l[i].height \in Nat
    BY LastHeightFacts, ListFacts
  <2>2. \A i \in DOMAIN t : t[i].height \in 0..last
    BY <2>1 DEF StoredIn
  <2> QED  BY <2>1, <2>2 DEF HeightsOf
<1>2. stop = IF open # {} THEN Oldest(some) ELSE NewestKnown(t)
  <2>1. CASE kind = "wrap"
    <3>1. open = {i \in DOMAIN t : t[i].confs > 0}
      <4>1. \A i \in DOMAIN t : t[i].confs \in Nat
        BY <2>1 DEF StoredIn, RowsOf, WrapRows
      <4>2. \A i \in DOMAIN t : ~Final(kind, t[i]) <=> t[i].confs > 0
        BY <2>1, <4>1 DEF Final, IsWrapRequestFinalized
      <4> QED  BY <4>2
    <3> HIDE DEF open
    <3> QED  BY <2>1, <3>1 DEF SyncStopHeight, GetWrapSyncStopHeight
  <2>2. CASE kind = "unwrap"
    <3>1. open = {i \in DOMAIN t : ~t[i].redeemed /\ ~t[i].revoked}
      BY <2>2 DEF Final, IsUnwrapRequestFinalized
    <3> HIDE DEF open
    <3> QED  BY <2>2, <3>1 DEF SyncStopHeight, GetUnwrapSyncStopHeight
  <2> QED  BY <2>1, <2>2 DEF Kinds
<1>3. open # {} => Oldest(some) \in some /\ \A g \in some : Oldest(some) <= g
  <2> SUFFICES ASSUME open # {} PROVE Oldest(some) \in some /\ \A g \in some : Oldest(some) <= g
    OBVIOUS
  <2>1. some # {} /\ some \in SUBSET Nat
    BY <1>1 DEF HeightsOf
  <2> HIDE DEF some
  <2>2. \E m \in some : \A g \in some : m <= g
    BY <2>1, Least
  <2> QED  BY <2>2 DEF Oldest
<1>4. DOMAIN t # {} => /\ NewestKnown(t) \in all /\ \A g \in all : g <= NewestKnown(t)
  <2> SUFFICES ASSUME DOMAIN t # {}
               PROVE  NewestKnown(t) \in all /\ \A g \in all : g <= NewestKnown(t)
    OBVIOUS
  <2>1. all # {} /\ all \in SUBSET (0..last)
    BY <1>1 DEF HeightsOf
  <2>2. NewestKnown(t) = Newest(all)
    BY DEF NewestKnown
  <2> HIDE DEF all
  <2>3. \E m \in all : \A g \in all : g <= m
    BY <1>1, <2>1, Greatest
  <2> QED  BY <2>2, <2>3 DEF Newest
<1>5. DOMAIN t = {} => NewestKnown(t) = 0 /\ open = {}
  BY DEF NewestKnown
<1>6. /\ \A i \in DOMAIN t : t[i].height \in all
      /\ \A i \in open : t[i].height \in some /\ i \in DOMAIN t
      /\ \A h \in all : \E i \in DOMAIN t : h = t[i].height
      /\ open # {} => DOMAIN t # {}
  BY DEF HeightsOf
<1> HIDE DEF open, all, some, last, stop
<1>7. stop \in 0..last /\ stop <= NewestKnown(t)
  <2>1. CASE DOMAIN t = {}
    BY <1>1, <1>2, <1>5, <2>1
  <2>2. CASE DOMAIN t # {} /\ open = {}
    BY <1>1, <1>2, <1>4, <2>2
  <2>3. CASE open # {}
    <3>1. stop \in some /\ stop \in all
      BY <1>1, <1>2, <1>3, <2>3
    <3> QED  BY <1>1, <1>4, <1>6, <2>3, <3>1
  <2> QED  BY <2>1, <2>2, <2>3
<1>8. \A i \in open : stop <= t[i].height
  BY <1>2, <1>3, <1>6
<1>9. DOMAIN t # {} => \E i \in DOMAIN t : /\ NewestKnown(t) = l[i].height
                                           /\ \A j \in DOMAIN t : t[j].height <= l[i].height
  BY <1>4, <1>6 DEF StoredIn
<1> QED  BY <1>2, <1>5, <1>7, <1>8, <1>9 DEF open, last, stop

-----------------------------------------------------------------------------
(* The pages *)

\* How many requests the pages before page index have shown.
Seen(index) == index * PageLen

\* The number of requests before a page, by its index.
LEMMA SeenFacts ==
  ASSUME NEW i \in Nat
  PROVE  /\ Seen(0) = 0 /\ Seen(i) \in Nat /\ i <= Seen(i)
         /\ Seen(i + 1) = Seen(i) + PageLen
<1> DEFINE p == PageLen
<1>1. p \in Nat \ {0}
  BY BridgeAssumption
<1> HIDE DEF p
<1>2. 0 * p = 0 /\ i * p \in Nat /\ i <= i * p /\ (i + 1) * p = i * p + p
  BY <1>1
<1> QED  BY <1>2 DEF Seen, p

\* The page that begins in a list of n requests is at most n div PageLen.
LEMMA LastPage ==
  ASSUME NEW i \in Nat, NEW n \in Nat, Seen(i) <= n
  PROVE  i \in 0..(n \div PageLen)
<1> DEFINE p == PageLen
           q == n \div p
<1>1. p \in Nat \ {0}
  BY BridgeAssumption
<1> HIDE DEF p
<1>2. q \in Nat /\ n = q * p + (n % p) /\ n % p \in 0..(p - 1)
  BY <1>1
<1> HIDE DEF q
<1>3. i * p <= n
  BY DEF Seen, p
<1>4. ASSUME i > q PROVE FALSE
  <2>1. i * p >= (q + 1) * p
    BY <1>1, <1>2, <1>4
  <2>2. (q + 1) * p = q * p + p
    BY <1>1, <1>2
  <2> QED  BY <1>1, <1>2, <1>3, <2>1, <2>2
<1> QED  BY <1>2, <1>4 DEF q, p

\* A position in a list ordered by some key lies on one of its pages.
LEMMA SomePage ==
  ASSUME NEW f \in Nat, NEW s \in Nat \ {0}
  PROVE  \E n \in 1..(f + 1) : (n - 1) * s <= f /\ f <= (n - 1) * s + s - 1
<1> DEFINE q == f \div s
<1>1. q \in Nat /\ f = q * s + (f % s) /\ f % s \in 0..(s - 1)
  OBVIOUS
<1> HIDE DEF q
<1>2. q * s >= q
  BY <1>1
<1>3. (q + 1) - 1 = q /\ q + 1 \in 1..(f + 1)
  BY <1>1, <1>2
<1>4. q * s <= f /\ f <= q * s + s - 1
  BY <1>1
<1>5. \E n \in 1..(f + 1) : n - 1 = q
  BY <1>3
<1> QED  BY <1>4, <1>5

\* The rows of a page that are left, newest first, as the node had them.
PageRows(kind, rows, l) ==
  /\ rows \in Seq([id : Nat, row : RowsOf(kind)]) /\ rows # <<>>
  /\ \A j \in DOMAIN rows :
       /\ rows[j].id = rows[1].id - j + 1 /\ rows[j].id \in DOMAIN l
       /\ Later(kind, rows[j].row, l[rows[j].id])

\* The lowest id of the rows still to be written; ids fall by one along a page.
Bottom(rows) == rows[1].id - Len(rows) + 1

\* The first row of a page, the next to be written.
LEMMA TopRow ==
  ASSUME NEW kind, NEW rows, NEW l, PageRows(kind, rows, l)
  PROVE  /\ Len(rows) \in Nat \ {0} /\ DOMAIN rows = 1..Len(rows) /\ Head(rows) = rows[1]
         /\ rows[1].id \in Nat /\ rows[1].id \in DOMAIN l /\ rows[1].row \in RowsOf(kind)
         /\ Later(kind, rows[1].row, l[rows[1].id])
         /\ Bottom(rows) \in Int /\ Bottom(rows) <= rows[1].id
         /\ Len(rows) = 1 => Bottom(rows) = rows[1].id
         /\ Len(rows) > 1 \/ Len(rows) = 1
<1> DEFINE S == [id : Nat, row : RowsOf(kind)]
<1>1. rows \in Seq(S) /\ rows # <<>>
  BY DEF PageRows
<1>2. \A r \in S : r.id \in Nat /\ r.row \in RowsOf(kind)
  OBVIOUS
<1> HIDE DEF S
<1>3. Len(rows) \in Nat \ {0} /\ DOMAIN rows = 1..Len(rows) /\ Head(rows) = rows[1]
  BY <1>1
<1>4. rows[1] \in S /\ 1 \in DOMAIN rows
  BY <1>1, <1>3
<1>5. rows[1].id \in Nat /\ rows[1].row \in RowsOf(kind)
  BY <1>2, <1>4
<1>6. rows[1].id \in DOMAIN l /\ Later(kind, rows[1].row, l[rows[1].id])
  BY <1>4 DEF PageRows
<1>7. /\ Bottom(rows) \in Int /\ Bottom(rows) <= rows[1].id
      /\ Len(rows) = 1 => Bottom(rows) = rows[1].id
  BY <1>3, <1>5 DEF Bottom
<1>8. Len(rows) > 1 \/ Len(rows) = 1
  <2> DEFINE n == Len(rows)
  <2>1. n \in Nat \ {0}
    BY <1>3
  <2> HIDE DEF n
  <2>2. n > 1 \/ n = 1
    BY <2>1
  <2> QED  BY <2>2 DEF n
<1> QED  BY <1>3, <1>5, <1>6, <1>7, <1>8

\* What a call for a page returns.
LEMMA PageFacts ==
  ASSUME NodeInv, NEW kind \in Kinds, NEW index \in Nat
  PROVE  LET page == GetAllRequests(kind, index)
             first == Len(node[kind]) - Seen(index)
         IN /\ page = <<>> => first <= 0
            /\ page # <<>> =>
                 /\ PageRows(kind, page, node[kind]) /\ page[1].id = first
                 /\ IF Len(page) < PageLen THEN Bottom(page) = 1
                    ELSE Bottom(page) = first - PageLen + 1
                 /\ \A j \in DOMAIN page : page[j].row = node[kind][page[j].id]
<1> DEFINE l == node[kind]
           n == Len(l)
           first == n - Seen(index)
           count == IF first <= 0 THEN 0 ELSE IF first < PageLen THEN first ELSE PageLen
           page == GetAllRequests(kind, index)
           S == [id : Nat, row : RowsOf(kind)]
<1>1. Requests(kind, l) /\ PageLen \in Nat \ {0} /\ Seen(index) \in Nat
  BY BridgeAssumption, SeenFacts DEF NodeInv
<1>2. /\ n \in Nat /\ DOMAIN l = 1..n /\ \A i \in DOMAIN l : l[i] \in RowsOf(kind)
  BY <1>1, ListFacts
<1>3. page = [j \in 1..count |-> [id |-> first - j + 1, row |-> l[first - j + 1]]]
  <2> DEFINE Max0(x) == IF x > 0 THEN x ELSE 0
  <2>1. page = [j \in 1..(Max0(first) - Max0(first - PageLen)) |->
                  [id |-> first - j + 1, row |-> l[first - j + 1]]]
    BY DEF GetAllRequests, Seen
  <2>2. Max0(first) - Max0(first - PageLen) = count
    <3> HIDE DEF n, l
    <3> QED  BY <1>1, <1>2
  <2> HIDE DEF count, first, l, n, page, Max0
  <2> QED  BY <2>1, <2>2
<1> HIDE DEF l, n, page
<1>4. first \in Int /\ count \in Nat /\ (first <= 0 => count = 0) /\ (first > 0 => count > 0)
      /\ (first > 0 => count <= first)
  BY <1>1, <1>2
<1>5. \A j \in 1..count : first - j + 1 \in DOMAIN l /\ first - j + 1 \in Nat
  BY <1>1, <1>2
<1>6. count > 0 => IF count < PageLen THEN first - count + 1 = 1
                   ELSE first - count + 1 = first - PageLen + 1
  BY <1>1, <1>2
<1> HIDE DEF first, count
<1>7. page \in [1..count -> S] /\ page \in Seq(S) /\ Len(page) = count
  <2>1. page \in [1..count -> S]
    BY <1>2, <1>3, <1>5
  <2> HIDE DEF S
  <2> QED  BY <1>4, <2>1
<1>8. \A j \in 1..count : /\ page[j].id = first - j + 1 /\ page[j].id \in DOMAIN l
                          /\ page[j].row = l[page[j].id]
  BY <1>3, <1>5
<1>9. page = <<>> => first <= 0
  BY <1>4, <1>7
<1>10. ASSUME page # <<>>
       PROVE  /\ PageRows(kind, page, l) /\ page[1].id = first
              /\ IF Len(page) < PageLen THEN Bottom(page) = 1
                 ELSE Bottom(page) = first - PageLen + 1
              /\ \A j \in DOMAIN page : page[j].row = l[page[j].id]
  <2>1. count > 0 /\ DOMAIN page = 1..count
    BY <1>4, <1>7, <1>10
  <2>2. page[1].id = first
    BY <1>4, <1>8, <2>1
  <2>3. PageRows(kind, page, l)
    BY <1>7, <1>8, <1>10, <2>1, <2>2 DEF PageRows, Later
  <2>4. Bottom(page) = first - count + 1
    BY <1>7, <2>2 DEF Bottom
  <2> QED  BY <1>6, <1>7, <1>8, <2>1, <2>2, <2>3, <2>4
<1> QED  BY <1>9, <1>10 DEF l, n, first, page

\* A page stays one of the list while that grows.
LEMMA PageRowsGrown ==
  ASSUME NEW kind, NEW rows, NEW l, NEW m, PageRows(kind, rows, l), Grown(kind, l, m)
  PROVE  PageRows(kind, rows, m)
<1>1. \A j \in DOMAIN rows : /\ rows[j].id \in DOMAIN m
                             /\ Later(kind, rows[j].row, m[rows[j].id])
  BY DEF PageRows, Grown, Later
<1> QED  BY <1>1 DEF PageRows

\* Without its first row it begins one lower and ends where it did.
LEMMA TailRows ==
  ASSUME NEW kind, NEW rows, NEW l, PageRows(kind, rows, l), Len(rows) > 1
  PROVE  /\ PageRows(kind, Tail(rows), l)
         /\ Tail(rows)[1].id = rows[1].id - 1 /\ Bottom(Tail(rows)) = Bottom(rows)
         /\ \A j \in DOMAIN Tail(rows) : j + 1 \in DOMAIN rows /\ Tail(rows)[j] = rows[j + 1]
<1> DEFINE S == [id : Nat, row : RowsOf(kind)]
           t == Tail(rows)
<1>1. rows \in Seq(S) /\ rows # <<>> /\ Len(rows) \in Nat /\ DOMAIN rows = 1..Len(rows)
  BY LenProperties DEF PageRows
<1>2. /\ t \in Seq(S) /\ Len(t) = Len(rows) - 1 /\ DOMAIN t = 1..Len(t)
      /\ \A j \in 1..Len(t) : t[j] = rows[j + 1]
  <2>1. t \in Seq(S) /\ Len(t) = Len(rows) - 1 /\ \A j \in 1..Len(t) : t[j] = rows[j + 1]
    BY <1>1, HeadTailProperties
  <2> HIDE DEF t
  <2> QED  BY <2>1, LenProperties
<1> HIDE DEF t
<1>3. /\ 1 \in DOMAIN t /\ t # <<>> /\ t[1] = rows[2] /\ 2 \in DOMAIN rows
      /\ \A j \in DOMAIN t : j + 1 \in DOMAIN rows /\ t[j] = rows[j + 1]
  BY <1>1, <1>2
<1>4. rows[1].id \in Nat
  <2>1. \A r \in S : r.id \in Nat
    OBVIOUS
  <2> HIDE DEF S
  <2>2. rows[1] \in S
    BY <1>1, <1>3
  <2> QED  BY <2>1, <2>2
<1>5. t[1].id = rows[1].id - 1
  BY <1>3, <1>4 DEF PageRows
<1>6. \A j \in DOMAIN t : t[j].id = t[1].id - j + 1
  <2> TAKE j \in DOMAIN t
  <2>1. j \in Nat
    BY <1>1, <1>2
  <2>2. t[j] = rows[j + 1] /\ j + 1 \in DOMAIN rows
    BY <1>3
  <2>3. t[j].id = rows[1].id - (j + 1) + 1
    BY <2>2 DEF PageRows
  <2> QED  BY <1>4, <1>5, <2>1, <2>3
<1>7. PageRows(kind, t, l)
  <2>1. \A j \in DOMAIN t : t[j].id \in DOMAIN l /\ Later(kind, t[j].row, l[t[j].id])
    BY <1>3 DEF PageRows
  <2> QED  BY <1>2, <1>3, <1>6, <2>1 DEF PageRows
<1>8. Bottom(t) = Bottom(rows)
  <2> DEFINE k == Len(rows)
             b == rows[1].id
  <2>1. Len(t) = k - 1 /\ t[1].id = b - 1 /\ k \in Nat /\ b \in Nat
    BY <1>1, <1>2, <1>4, <1>5
  <2> HIDE DEF k, b
  <2>2. Bottom(t) = b - k + 1
    BY <2>1 DEF Bottom
  <2> QED  BY <2>2 DEF Bottom, k, b
<1> QED  BY <1>3, <1>5, <1>7, <1>8 DEF t

-----------------------------------------------------------------------------
(* A pass *)

\* The pass is between reading its stop height and its last page.
Paging == pass.at \in {"fetch", "rows"}

\* The requests above it have been through the pages of this part, or came later.
Floor == IF pass.at = "fetch" THEN Len(node[pass.kind]) - Seen(pass.index) ELSE pass.rows[1].id

\* Above f there is a request at or below the stop height.
Reached(f) ==
  /\ pass.stop > 0
  /\ \E h \in DOMAIN node[pass.kind] : h > f /\ node[pass.kind][h].height <= pass.stop

\* The pass itself: its position, its kind and a stop height the node has reached.
PassInv ==
  /\ DOMAIN pass = DOMAIN NoPass
  /\ pass.at \in Steps /\ pass.kind \in Kinds
  /\ pass.stop \in 0..LastHeight(node[pass.kind])
  /\ faults \in 0..budget["faults"] /\ clean \in BOOLEAN

\* The pages before the one to fetch, or in hand, were full pages of the list.
FetchInv ==
  /\ pass.at = "stop" => pass.index = 0
  /\ Paging => pass.index \in Nat /\ Seen(pass.index) <= Len(node[pass.kind])

\* The page in hand: a stretch of the list, as far down as its index says, and the
\* last page when it is short; a hit means the stop height was reached.
RowsInv ==
  pass.at = "rows" =>
    /\ PageRows(pass.kind, pass.rows, node[pass.kind])
    /\ pass.short \in BOOLEAN /\ pass.hit \in BOOLEAN
    /\ IF pass.short THEN Bottom(pass.rows) = 1
       ELSE Bottom(pass.rows) + PageLen <= Len(node[pass.kind]) - Seen(pass.index) + 1
    /\ pass.hit => Reached(Floor)

\* All that the proofs of both tables rest on.
PagingInv == NodeInv /\ StoredInv /\ PassInv /\ FetchInv /\ RowsInv

\* The steps of the configuration part, which leave the two tables alone.
ConfigStep ==
  \/ \E ok \in BOOLEAN :
       \/ ReadClock(ok) \/ UpdateAdmin(ok) \/ UpdateSecurity(ok)
       \/ \E g \in pass.todo : UpdateGuardian(g, ok)
       \/ SweepGuardians(ok) \/ UpdateOrchestrator(ok)
       \/ FetchNetworks(ok) \/ UpdateNetwork(ok)
       \/ \E token \in pass.todo : UpdateNetworkToken(token, ok)
       \/ GetTimeChallengesInfo(ok)
       \/ \E m \in pass.todo : UpdateTimeChallenge(m, ok)
       \/ PruneTimeChallenges(ok)
  \/ GetSecurityInfoFails

\* Faults stay within the budget.
LEMMA Faults ==
  ASSUME PassInv, NodeInv, UNCHANGED budget,
         \/ \E ok \in BOOLEAN : FirstOutcome(ok) \/ Outcome(ok)
         \/ Fault /\ clean' = FALSE
         \/ UNCHANGED <<faults, clean>>
  PROVE  faults' \in 0..budget'["faults"] /\ clean' \in BOOLEAN /\ faults' >= faults
<1>1. budget["faults"] \in Nat
  BY BridgeAssumption DEF NodeInv
<1>2. faults' = faults \/ Fault
  BY DEF FirstOutcome, Outcome
<1>3. faults' \in 0..budget["faults"] /\ faults' >= faults
  BY <1>1, <1>2 DEF Fault, PassInv
<1>4. clean' \in BOOLEAN
  BY DEF FirstOutcome, Outcome, PassInv
<1> QED  BY <1>3, <1>4

\* A new pass begins with nothing fetched.
LEMMA StartPass ==
  ASSUME PassInv, NodeInv, runBridgeSyncLoop
  PROVE  /\ PassInv' /\ ~Paging' /\ pass.at = "idle"
         /\ UNCHANGED <<nodeVars, stored, tables, faults, clean, mark>>
<1>1. pass.at = "idle" /\ pass' = [NoPass EXCEPT !.at = "stop"]
      /\ UNCHANGED <<nodeVars, stored, tables, faults, clean, mark>> /\ UNCHANGED <<budget, node>>
  BY DEF runBridgeSyncLoop, At, history, nodeVars
<1>2. /\ DOMAIN pass' = DOMAIN NoPass /\ pass'.at = "stop" /\ pass'.kind = "wrap"
      /\ pass'.stop = 0
  BY <1>1 DEF NoPass
<1>3. LastHeight(node["wrap"]) \in Nat
  BY LastHeightFacts DEF NodeInv, Kinds
<1>4. faults' \in 0..budget'["faults"] /\ clean' \in BOOLEAN
  BY <1>1, Faults
<1> QED  BY <1>1, <1>2, <1>3, <1>4 DEF PassInv, Paging, Steps, Kinds

\* A crash forgets the pass and counts as a fault.
LEMMA CrashStep ==
  ASSUME PassInv, NodeInv, Crash
  PROVE  /\ PassInv' /\ ~Paging' /\ pass'.at = "idle" /\ faults' > faults /\ clean' = FALSE
         /\ UNCHANGED <<nodeVars, stored, tables>>
<1>1. pass' = NoPass /\ UNCHANGED <<nodeVars, stored, tables>> /\ UNCHANGED <<budget, node>>
      /\ clean' = FALSE /\ Fault
  BY DEF Crash, nodeVars
<1>2. LastHeight(node["wrap"]) \in Nat
  BY LastHeightFacts DEF NodeInv, Kinds
<1>3. faults' \in 0..budget'["faults"] /\ clean' \in BOOLEAN
  BY <1>1, Faults
<1>4. faults \in Nat /\ faults' = faults + 1
  BY <1>1 DEF PassInv, Fault
<1> QED  BY <1>1, <1>2, <1>3, <1>4 DEF PassInv, Paging, Steps, Kinds, NoPass

\* The positions of the configuration part.
ConfigSteps == {"admin", "security", "guardians", "orchestrator", "networks", "network",
                "tokens", "challenges", "challenge"}

\* How a statement of the configuration moves the pass.
ConfigMove ==
  /\ pass.at \in ConfigSteps \cup {"config"}
  /\ DOMAIN pass' = DOMAIN NoPass /\ pass'.at \in ConfigSteps \cup {"idle"}
  /\ \/ pass'.kind = pass.kind /\ pass'.stop = pass.stop
     \/ pass'.kind = "wrap" /\ pass'.stop = 0

\* Once the requests are through, no statement concerns them.
LEMMA ConfigKeepsRequests ==
  ASSUME PassInv, NodeInv, ConfigStep
  PROVE  /\ PassInv' /\ ~Paging /\ ~Paging' /\ pass.at \notin {"idle", "stop"} /\ faults' >= faults
         /\ pass'.at # "stop" /\ ConfigMove
         /\ UNCHANGED <<nodeVars, stored>>
<1>1. UNCHANGED <<nodeVars, stored>> /\ UNCHANGED <<budget, node>>
  BY DEF ConfigStep, ReadClock, UpdateAdmin, UpdateSecurity, UpdateGuardian, SweepGuardians,
         UpdateOrchestrator, FetchNetworks, UpdateNetwork, UpdateNetworkToken,
         GetTimeChallengesInfo, UpdateTimeChallenge, PruneTimeChallenges, GetSecurityInfoFails,
         nodeVars
<1>2. \E ok \in BOOLEAN : FirstOutcome(ok) \/ Outcome(ok)
  BY DEF ConfigStep, ReadClock, UpdateAdmin, UpdateSecurity, UpdateGuardian, SweepGuardians,
         UpdateOrchestrator, FetchNetworks, UpdateNetwork, UpdateNetworkToken,
         GetTimeChallengesInfo, UpdateTimeChallenge, PruneTimeChallenges, GetSecurityInfoFails
<1>3. faults' \in 0..budget'["faults"] /\ clean' \in BOOLEAN /\ faults' >= faults
  BY <1>1, <1>2, Faults
<1>4. LastHeight(node["wrap"]) \in Nat
  BY LastHeightFacts DEF NodeInv, Kinds
<1>5. ConfigMove
  <2> USE DEF PassInv, NoPass, ConfigMove, ConfigSteps
  <2>1. ASSUME NEW ok \in BOOLEAN, ReadClock(ok) PROVE ConfigMove
    BY <2>1 DEF ReadClock, At
  <2>2. ASSUME NEW ok \in BOOLEAN, UpdateAdmin(ok) PROVE ConfigMove
    BY <2>2 DEF UpdateAdmin, At
  <2>3. ASSUME NEW ok \in BOOLEAN, UpdateSecurity(ok) PROVE ConfigMove
    BY <2>3 DEF UpdateSecurity
  <2>4. ASSUME NEW ok \in BOOLEAN, SweepGuardians(ok) PROVE ConfigMove
    BY <2>4 DEF SweepGuardians
  <2>5. ASSUME NEW ok \in BOOLEAN, UpdateOrchestrator(ok) PROVE ConfigMove
    BY <2>5 DEF UpdateOrchestrator
  <2>6. ASSUME NEW ok \in BOOLEAN, FetchNetworks(ok) PROVE ConfigMove
    BY <2>6 DEF FetchNetworks, ToChallenges
  <2>7. ASSUME NEW ok \in BOOLEAN, UpdateNetwork(ok) PROVE ConfigMove
    BY <2>7 DEF UpdateNetwork, NetworkDone, ToChallenges
  <2>8. ASSUME NEW ok \in BOOLEAN, GetTimeChallengesInfo(ok) PROVE ConfigMove
    BY <2>8 DEF GetTimeChallengesInfo
  <2>9. ASSUME NEW ok \in BOOLEAN, PruneTimeChallenges(ok) PROVE ConfigMove
    BY <2>9 DEF PruneTimeChallenges
  <2>10. ASSUME NEW ok \in BOOLEAN, NEW g \in pass.todo, UpdateGuardian(g, ok) PROVE ConfigMove
    BY <2>10 DEF UpdateGuardian
  <2>11. ASSUME NEW ok \in BOOLEAN, NEW token \in pass.todo, UpdateNetworkToken(token, ok) PROVE ConfigMove
    BY <2>11 DEF UpdateNetworkToken, NetworkDone, ToChallenges
  <2>12. ASSUME NEW ok \in BOOLEAN, NEW m \in pass.todo, UpdateTimeChallenge(m, ok) PROVE ConfigMove
    BY <2>12 DEF UpdateTimeChallenge
  <2>13. ASSUME GetSecurityInfoFails PROVE ConfigMove
    BY <2>13 DEF GetSecurityInfoFails, At
  <2> HIDE DEF PassInv, NoPass, ConfigMove, ConfigSteps
  <2> QED  BY <2>1, <2>2, <2>3, <2>4, <2>5, <2>6, <2>7, <2>8, <2>9, <2>10, <2>11, <2>12, <2>13 DEF ConfigStep
<1> QED  BY <1>1, <1>3, <1>4, <1>5 DEF ConfigMove, ConfigSteps, PassInv, Paging, Steps, Kinds

\* Growing only adds requests and only raises the last height.
LEMMA GrownBounds ==
  ASSUME NEW kind, NEW l, NEW m, Requests(kind, l), Requests(kind, m), Grown(kind, l, m)
  PROVE  Len(l) <= Len(m) /\ LastHeight(l) <= LastHeight(m)
<1>1. /\ Len(l) \in Nat /\ DOMAIN l = 1..Len(l) /\ LastHeight(l) \in Nat
      /\ Len(m) \in Nat /\ DOMAIN m = 1..Len(m) /\ LastHeight(m) \in Nat
      /\ \A i \in DOMAIN m : m[i].height <= LastHeight(m)
  BY ListFacts, LastHeightFacts
<1>2. DOMAIN l \subseteq DOMAIN m /\ \A i \in DOMAIN l : m[i].height = l[i].height
  BY DEF Grown, Later
<1>3. CASE l = <<>>
  BY <1>1, <1>3 DEF LastHeight
<1>4. CASE l # <<>>
  <2>1. Len(l) \in DOMAIN l
    BY <1>1, <1>4 DEF Requests
  <2>2. LastHeight(l) = l[Len(l)].height
    BY <1>4 DEF LastHeight
  <2>3. m[Len(l)].height <= LastHeight(m) /\ m[Len(l)].height = LastHeight(l)
    BY <1>1, <1>2, <2>1, <2>2
  <2> QED  BY <1>1, <1>2, <2>1, <2>3
<1> QED  BY <1>3, <1>4

\* Requests that arrive between two calls only shift the pages upwards.
LEMMA NodeKeepsPaging ==
  ASSUME PagingInv, Node
  PROVE  PagingInv' /\ (Paging => Floor' >= Floor /\ Floor \in Int)
<1> DEFINE kind == pass.kind
           l == node[kind]
           m == node'[kind]
<1>1. /\ NodeInv' /\ \A k \in Kinds : Grown(k, node[k], node'[k])
      /\ UNCHANGED <<stored, pass, faults, clean>>
  BY NodeSteps DEF PagingInv, history
<1>2. kind \in Kinds /\ kind' = kind
  BY <1>1 DEF PagingInv, PassInv
<1>3. Requests(kind, l) /\ Requests(kind, m) /\ Grown(kind, l, m)
  BY <1>1, <1>2 DEF PagingInv, NodeInv
<1>4. Len(l) <= Len(m) /\ LastHeight(l) <= LastHeight(m)
  BY <1>3, GrownBounds
<1>5. Len(l) \in Nat /\ Len(m) \in Nat /\ LastHeight(l) \in Nat /\ LastHeight(m) \in Nat
  BY <1>3, ListFacts, LastHeightFacts
<1>6. StoredInv'
  <2>1. \A k \in Kinds : StoredIn(k, stored[k], node'[k])
    BY <1>1, StoredGrown DEF PagingInv, StoredInv
  <2> QED  BY <1>1, <2>1 DEF PagingInv, StoredInv
<1>7. PassInv'
  <2>1. budget' = budget
    BY DEF Node, NewRequests, Progress, Reconfigure, nodeVars
  <2>2. pass.stop \in 0..LastHeight(m)
    BY <1>4, <1>5 DEF PagingInv, PassInv
  <2> QED  BY <1>1, <2>1, <2>2 DEF PagingInv, PassInv
<1>8. FetchInv'
  <2>1. Paging => pass.index \in Nat /\ Seen(pass.index) <= Len(l) /\ Seen(pass.index) \in Nat
    BY SeenFacts DEF PagingInv, FetchInv
  <2>2. Paging => Seen(pass.index) <= Len(m)
    BY <1>4, <1>5, <2>1
  <2> QED  BY <1>1, <2>1, <2>2 DEF PagingInv, FetchInv, Paging
<1>9. Paging => Floor' >= Floor /\ Floor \in Int
  <2>1. CASE pass.at = "fetch"
    <3>1. Seen(pass.index) \in Nat
      BY <2>1, SeenFacts DEF PagingInv, FetchInv, Paging
    <3>2. Floor = Len(l) - Seen(pass.index) /\ Floor' = Len(m) - Seen(pass.index)
      BY <1>1, <2>1 DEF Floor
    <3> QED  BY <1>4, <1>5, <3>1, <3>2
  <2>2. CASE pass.at = "rows"
    <3>1. Floor = pass.rows[1].id /\ Floor' = Floor
      BY <1>1, <2>2 DEF Floor
    <3>2. PageRows(kind, pass.rows, l)
      BY <2>2 DEF PagingInv, RowsInv
    <3>3. pass.rows[1].id \in Nat
      BY <3>2, TopRow
    <3> QED  BY <3>1, <3>3
  <2> QED  BY <2>1, <2>2 DEF Paging
<1>10. RowsInv'
  <2> SUFFICES ASSUME pass'.at = "rows" PROVE RowsInv'
    BY DEF RowsInv
  <2>1. pass.at = "rows" /\ Paging
    BY <1>1 DEF Paging
  <2>2. PageRows(kind, pass.rows, m)
    BY <1>3, <2>1, PageRowsGrown DEF PagingInv, RowsInv
  <2>3. ~pass.short => Bottom(pass.rows) + PageLen <= Len(m) - Seen(pass.index) + 1
    <3>1. Seen(pass.index) \in Nat /\ PageLen \in Nat
      BY <2>1, SeenFacts, BridgeAssumption DEF PagingInv, FetchInv
    <3>2. Bottom(pass.rows) \in Int
      BY <2>2, TopRow
    <3>3. ~pass.short => Bottom(pass.rows) + PageLen <= Len(l) - Seen(pass.index) + 1
      BY <2>1 DEF PagingInv, RowsInv
    <3> HIDE DEF l, m
    <3> QED  BY <1>4, <1>5, <3>1, <3>2, <3>3
  <2>4. pass.hit => Reached(Floor)'
    <3>1. Reached(Floor) => Reached(Floor)'
      <4>1. Floor' = Floor
        BY <1>1, <2>1 DEF Floor
      <4> QED  BY <1>1, <1>3, <4>1 DEF Reached, Grown, Later
    <3> QED  BY <2>1, <3>1 DEF PagingInv, RowsInv
  <2> QED  BY <1>1, <2>1, <2>2, <2>3, <2>4 DEF PagingInv, RowsInv
<1> QED  BY <1>1, <1>6, <1>7, <1>8, <1>9, <1>10 DEF PagingInv

\* After a part comes the next one.
LEMMA NextPartFacts ==
  ASSUME PagingInv, pass' = NextPart, UNCHANGED <<budget, node>>, StoredInv',
         version' = version, faults' \in 0..budget'["faults"], clean' \in BOOLEAN
  PROVE  PagingInv' /\ ~Paging' /\ pass'.at \in {"stop", "config"}
<1>1. /\ DOMAIN pass' = DOMAIN NoPass /\ pass'.at \in {"stop", "config"}
      /\ pass'.kind \in Kinds /\ pass'.stop = 0 /\ pass'.index = 0
  BY DEF NextPart, NoPass, Kinds
<1>2. NodeInv'
  BY DEF PagingInv, NodeInv
<1>3. LastHeight(node[pass'.kind]) \in Nat
  BY <1>1, LastHeightFacts DEF PagingInv, NodeInv
<1>4. PassInv'
  BY <1>1, <1>3 DEF PassInv, Steps
<1> QED  BY <1>1, <1>2, <1>4 DEF PagingInv, FetchInv, RowsInv, Paging

\* The part begins above all requests there are.
LEMMA StopStep ==
  ASSUME PagingInv, NEW ok \in BOOLEAN, ReadStopHeight(ok)
  PROVE  /\ PagingInv' /\ UNCHANGED <<nodeVars, stored, tables>> /\ faults' >= faults
         /\ pass.at = "stop"
         /\ ~ok => pass' = NextPart /\ ~Paging' /\ pass'.at # "idle" /\ clean' = FALSE
         /\ ok => /\ pass'.at = "fetch" /\ pass'.kind = pass.kind
                  /\ pass'.stop = SyncStopHeight(pass.kind, stored[pass.kind])
                  /\ Floor' = Len(node[pass.kind])
<1> DEFINE kind == pass.kind
           l == node[kind]
           t == stored[kind]
<1>1. /\ pass.at = "stop" /\ FirstOutcome(ok) /\ UNCHANGED <<nodeVars, stored, tables>>
      /\ UNCHANGED <<budget, node, version, stored>>
  BY DEF ReadStopHeight, nodeVars
<1>2. faults' \in 0..budget'["faults"] /\ clean' \in BOOLEAN /\ faults' >= faults
  BY <1>1, Faults DEF PagingInv
<1>3. StoredInv' /\ NodeInv'
  BY <1>1 DEF PagingInv, StoredInv, NodeInv
<1>4. ASSUME ~ok
      PROVE  PagingInv' /\ pass' = NextPart /\ ~Paging' /\ pass'.at # "idle" /\ clean' = FALSE
  <2>1. pass' = NextPart /\ clean' = FALSE
    BY <1>4 DEF ReadStopHeight, FirstOutcome
  <2> QED  BY <1>1, <1>2, <1>3, <2>1, NextPartFacts
<1>5. ASSUME ok
      PROVE  /\ PagingInv' /\ pass'.at = "fetch" /\ pass'.kind = kind
             /\ pass'.stop = SyncStopHeight(kind, t) /\ Floor' = Len(l)
  <2>1. kind \in Kinds /\ DOMAIN pass = DOMAIN NoPass /\ pass.index = 0
    BY <1>1 DEF PagingInv, PassInv, FetchInv
  <2>2. pass' = [pass EXCEPT !.at = "fetch", !.stop = SyncStopHeight(kind, t)]
    BY <1>5 DEF ReadStopHeight
  <2>3. /\ DOMAIN pass' = DOMAIN NoPass /\ pass'.at = "fetch" /\ pass'.kind = kind
        /\ pass'.index = 0 /\ pass'.stop = SyncStopHeight(kind, t)
    BY <2>1, <2>2 DEF NoPass
  <2>4. Requests(kind, l) /\ StoredIn(kind, t, l)
    BY <2>1 DEF PagingInv, NodeInv, StoredInv
  <2>5. SyncStopHeight(kind, t) \in 0..LastHeight(l)
    BY <2>1, <2>4, StopHeight
  <2>6. PassInv'
    BY <1>1, <1>2, <2>1, <2>3, <2>5 DEF PassInv, Steps
  <2>7. Seen(0) = 0 /\ Len(l) \in Nat
    BY <2>4, SeenFacts, ListFacts
  <2>8. FetchInv' /\ RowsInv'
    BY <1>1, <2>3, <2>7 DEF FetchInv, RowsInv
  <2>9. Floor' = Len(l)
    BY <1>1, <2>3, <2>7 DEF Floor
  <2> QED  BY <1>3, <2>3, <2>6, <2>8, <2>9 DEF PagingInv
<1> QED  BY <1>1, <1>2, <1>4, <1>5

\* A page begins right below the floor; an empty one means that there is none.
LEMMA FetchStep ==
  ASSUME PagingInv, NEW ok \in BOOLEAN, FetchPage(ok)
  PROVE  /\ PagingInv' /\ UNCHANGED <<nodeVars, stored, tables>> /\ faults' >= faults
         /\ pass.at = "fetch" /\ clean' = (clean /\ ok)
         /\ \/ /\ pass' = NextPart /\ ~Paging' /\ pass'.at # "idle"
               /\ ok => Floor <= 0
               /\ ~ok => faults' > faults
            \/ /\ ok /\ pass'.at = "rows" /\ pass'.kind = pass.kind /\ pass'.stop = pass.stop
               /\ Floor' = Floor /\ mark' = mark
               /\ pass'.rows = GetAllRequests(pass.kind, pass.index)
               /\ \A j \in DOMAIN pass'.rows : pass'.rows[j].row = node[pass.kind][pass'.rows[j].id]
<1> DEFINE kind == pass.kind
           l == node[kind]
           index == pass.index
           p == GetAllRequests(kind, index)
           first == Len(l) - Seen(index)
<1>1. /\ pass.at = "fetch" /\ Outcome(ok) /\ UNCHANGED <<nodeVars, stored, tables>>
      /\ UNCHANGED <<budget, node, version, stored>> /\ clean' = (clean /\ ok)
  BY DEF FetchPage, nodeVars, Outcome
<1>2. /\ faults' \in 0..budget'["faults"] /\ clean' \in BOOLEAN /\ faults' >= faults
      /\ ~ok => faults' > faults
  <2>1. ~ok => faults' = faults + 1 /\ faults \in Nat
    BY <1>1 DEF Outcome, Fault, PagingInv, PassInv
  <2>2. ~ok => faults' > faults
    BY <2>1
  <2>3. faults' \in 0..budget'["faults"] /\ clean' \in BOOLEAN /\ faults' >= faults
    BY <1>1, Faults DEF PagingInv
  <2> QED  BY <2>2, <2>3
<1>3. StoredInv' /\ NodeInv'
  BY <1>1 DEF PagingInv, StoredInv, NodeInv
<1>4. /\ kind \in Kinds /\ DOMAIN pass = DOMAIN NoPass /\ index \in Nat /\ Seen(index) <= Len(l)
      /\ Requests(kind, l) /\ Floor = first /\ Paging
  BY <1>1 DEF PagingInv, PassInv, FetchInv, NodeInv, Paging, Floor
<1>5. /\ p = <<>> => first <= 0
      /\ p # <<>> =>
           /\ PageRows(kind, p, l) /\ p[1].id = first
           /\ IF Len(p) < PageLen THEN Bottom(p) = 1 ELSE Bottom(p) = first - PageLen + 1
           /\ \A j \in DOMAIN p : p[j].row = l[p[j].id]
  BY <1>4, PageFacts DEF PagingInv
<1>6. ASSUME ~ok \/ p = <<>>
      PROVE  PagingInv' /\ pass' = NextPart /\ ~Paging' /\ pass'.at # "idle" /\ (ok => Floor <= 0)
  <2>1. pass' = NextPart
    BY <1>6 DEF FetchPage
  <2> QED  BY <1>1, <1>2, <1>3, <1>4, <1>5, <1>6, <2>1, NextPartFacts
<1>7. ASSUME ok, p # <<>>
      PROVE  /\ PagingInv' /\ pass'.at = "rows" /\ pass'.kind = kind /\ pass'.stop = pass.stop
             /\ Floor' = Floor /\ pass'.rows = p /\ mark' = mark
  <2>1. pass' = [pass EXCEPT !.at = "rows", !.rows = p, !.short = Len(p) < PageLen, !.hit = FALSE]
    BY <1>7 DEF FetchPage
  <2> HIDE DEF p
  <2>2. /\ DOMAIN pass' = DOMAIN NoPass /\ pass'.at = "rows" /\ pass'.kind = kind
        /\ pass'.stop = pass.stop /\ pass'.index = index /\ pass'.rows = p
        /\ pass'.short = (Len(p) < PageLen) /\ pass'.hit = FALSE
    BY <1>4, <2>1 DEF NoPass
  <2>3. pass' # NextPart
    <3>1. NextPart.at # "rows"
      BY DEF NextPart, NoPass
    <3> QED  BY <2>2, <3>1
  <2>4. mark' = mark
    BY <2>3 DEF FetchPage
  <2>5. PassInv'
    BY <1>1, <1>2, <1>4, <2>2 DEF PagingInv, PassInv, Steps
  <2>6. FetchInv'
    BY <1>1, <1>4, <2>2 DEF FetchInv
  <2>7. Floor' = Floor
    BY <1>4, <1>5, <1>7, <2>2 DEF Floor
  <2>8. RowsInv'
    <3>1. ~(Len(p) < PageLen) => Bottom(p) + PageLen <= first + 1
      <4>1. first \in Int /\ PageLen \in Nat
        BY <1>4, ListFacts, SeenFacts, BridgeAssumption
      <4> HIDE DEF first
      <4> QED  BY <1>5, <1>7, <4>1
    <3>2. (Len(p) < PageLen) \in BOOLEAN
      OBVIOUS
    <3> QED  BY <1>1, <1>5, <1>7, <2>2, <3>1, <3>2 DEF RowsInv
  <2> QED  BY <1>3, <2>2, <2>4, <2>5, <2>6, <2>7, <2>8 DEF PagingInv
<1> QED  BY <1>1, <1>2, <1>5, <1>6, <1>7

\* An upsert takes the row below the floor, and lowers it by one at most; where the
\* part ends there, no request is left or one at the stop height has been met.
LEMMA UpsertStep ==
  ASSUME PagingInv, NEW ok \in BOOLEAN, UpsertRequest(ok)
  PROVE  /\ PagingInv' /\ UNCHANGED <<nodeVars, tables>> /\ faults' >= faults
         /\ pass.at = "rows" /\ clean' = (clean /\ ok)
         /\ ~ok => faults' > faults /\ stored' = stored
         /\ ok => stored' = [stored EXCEPT ![pass.kind] =
                               Upsert(pass.kind, @, pass.rows[1].id, pass.rows[1].row)]
         /\ Floor = pass.rows[1].id
         /\ \/ /\ pass' = NextPart /\ ~Paging' /\ pass'.at # "idle"
               /\ Floor = 1 \/ Reached(Floor - 1)
            \/ /\ Paging' /\ pass'.kind = pass.kind /\ pass'.stop = pass.stop /\ mark' = mark
               /\ Floor' >= Floor - 1 /\ Floor' \in Int
               /\ pass'.at = "rows" => pass'.rows = Tail(pass.rows)
<1> DEFINE kind == pass.kind
           l == node[kind]
           rows == pass.rows
           r == rows[1]
           hit == pass.hit \/ (pass.stop > 0 /\ r.row.height <= pass.stop)
<1>1. /\ pass.at = "rows" /\ Outcome(ok) /\ UNCHANGED <<nodeVars, tables>>
      /\ UNCHANGED <<budget, node, version>> /\ clean' = (clean /\ ok)
  BY DEF UpsertRequest, nodeVars, Outcome
<1>2. /\ faults' \in 0..budget'["faults"] /\ clean' \in BOOLEAN /\ faults' >= faults
      /\ ~ok => faults' > faults
  <2>1. ~ok => faults' = faults + 1 /\ faults \in Nat
    BY <1>1 DEF Outcome, Fault, PagingInv, PassInv
  <2>2. ~ok => faults' > faults
    BY <2>1
  <2>3. faults' \in 0..budget'["faults"] /\ clean' \in BOOLEAN /\ faults' >= faults
    BY <1>1, Faults DEF PagingInv
  <2> QED  BY <2>2, <2>3
<1>3. /\ kind \in Kinds /\ DOMAIN pass = DOMAIN NoPass /\ pass.index \in Nat
      /\ Seen(pass.index) <= Len(l) /\ Requests(kind, l) /\ StoredIn(kind, stored[kind], l)
      /\ Floor = r.id /\ PageRows(kind, rows, l) /\ Paging /\ DOMAIN stored = Kinds
      /\ pass.short \in BOOLEAN /\ pass.hit \in BOOLEAN
  BY <1>1 DEF PagingInv, PassInv, FetchInv, NodeInv, StoredInv, RowsInv, Paging, Floor
<1>4. /\ Len(rows) \in Nat \ {0} /\ Head(rows) = r /\ r.id \in Nat /\ r.id \in DOMAIN l
      /\ r.row \in RowsOf(kind) /\ Later(kind, r.row, l[r.id]) /\ Bottom(rows) \in Int
      /\ Len(rows) = 1 => Bottom(rows) = r.id
      /\ Len(rows) > 1 \/ Len(rows) = 1
  BY <1>3, TopRow
<1>5. /\ stored' = IF ok THEN [stored EXCEPT ![kind] = Upsert(kind, @, r.id, r.row)] ELSE stored
      /\ pass' = IF Len(rows) > 1 THEN [pass EXCEPT !.rows = Tail(@), !.hit = hit]
                 ELSE IF PageDone(hit) THEN NextPart
                 ELSE [pass EXCEPT !.at = "fetch", !.index = @ + 1, !.rows = <<>>,
                         !.hit = FALSE, !.short = FALSE]
      /\ mark' = IF pass' = NextPart THEN NoMark ELSE mark
  BY <1>4 DEF UpsertRequest
<1>6. StoredInv' /\ NodeInv'
  <2>1. ok => /\ stored'[kind] = Upsert(kind, stored[kind], r.id, r.row)
              /\ \A k \in Kinds : k # kind => stored'[k] = stored[k]
              /\ DOMAIN stored' = Kinds
    BY <1>3, <1>5
  <2>2. StoredIn(kind, Upsert(kind, stored[kind], r.id, r.row), l)
    BY <1>3, <1>4, UpsertStores DEF Later, Stored
  <2>3. ok => StoredInv'
    BY <1>1, <2>1, <2>2 DEF PagingInv, StoredInv
  <2>4. ~ok => StoredInv'
    BY <1>1, <1>5 DEF PagingInv, StoredInv
  <2> QED  BY <1>1, <2>3, <2>4 DEF PagingInv, NodeInv
<1>7. hit \in BOOLEAN /\ (hit => Reached(r.id - 1))
  <2>1. r.row.height = l[r.id].height
    BY <1>4 DEF Later
  <2>2. pass.hit => Reached(r.id)
    BY <1>1, <1>3 DEF PagingInv, RowsInv
  <2>3. Reached(r.id) => Reached(r.id - 1)
    <3>1. \A h \in DOMAIN l : h > r.id => h > r.id - 1
      <4>1. DOMAIN l = 1..Len(l) /\ Len(l) \in Nat
        BY <1>3, ListFacts
      <4> QED  BY <1>4, <4>1
    <3> QED  BY <3>1 DEF Reached
  <2>4. pass.stop > 0 /\ r.row.height <= pass.stop => Reached(r.id - 1)
    <3>1. r.id > r.id - 1
      BY <1>4
    <3> QED  BY <1>4, <2>1, <3>1 DEF Reached
  <2> QED  BY <2>2, <2>3, <2>4
<1> HIDE DEF hit
<1>8. NextPart.at \notin {"rows", "fetch"}
  BY DEF NextPart, NoPass
<1>9. ASSUME Len(rows) > 1
      PROVE  /\ PagingInv' /\ Paging' /\ pass'.kind = kind /\ pass'.stop = pass.stop
             /\ mark' = mark /\ Floor' = r.id - 1 /\ pass'.rows = Tail(rows)
  <2> DEFINE t == Tail(rows)
  <2>1. /\ PageRows(kind, t, l) /\ t[1].id = r.id - 1 /\ Bottom(t) = Bottom(rows)
    BY <1>3, <1>9, TailRows
  <2>2. pass' = [pass EXCEPT !.rows = t, !.hit = hit]
    BY <1>5, <1>9
  <2> HIDE DEF t
  <2>3. /\ DOMAIN pass' = DOMAIN NoPass /\ pass'.at = "rows" /\ pass'.kind = kind
        /\ pass'.stop = pass.stop /\ pass'.index = pass.index /\ pass'.rows = t
        /\ pass'.short = pass.short /\ pass'.hit = hit
    BY <1>1, <1>3, <2>2 DEF NoPass
  <2>4. mark' = mark
    BY <1>5, <1>8, <2>3
  <2>5. PassInv' /\ FetchInv'
    BY <1>1, <1>2, <1>3, <2>3 DEF PagingInv, PassInv, Steps, FetchInv
  <2>6. Floor' = r.id - 1
    BY <2>1, <2>3 DEF Floor
  <2>7. RowsInv'
    <3>1. IF pass.short THEN Bottom(t) = 1 ELSE Bottom(t) + PageLen <= Len(l) - Seen(pass.index) + 1
      BY <1>1, <2>1 DEF PagingInv, RowsInv
    <3>2. hit => Reached(Floor)'
      BY <1>1, <1>7, <2>3, <2>6 DEF Reached
    <3> QED  BY <1>1, <1>3, <1>7, <2>1, <2>3, <3>1, <3>2 DEF RowsInv
  <2> QED  BY <1>6, <2>3, <2>4, <2>5, <2>6, <2>7 DEF PagingInv, Paging, t
<1>10. ASSUME ~(Len(rows) > 1), PageDone(hit)
       PROVE  /\ PagingInv' /\ pass' = NextPart /\ ~Paging' /\ pass'.at # "idle"
              /\ r.id = 1 \/ Reached(r.id - 1)
  <2>1. pass' = NextPart
    BY <1>5, <1>10
  <2>2. PagingInv' /\ ~Paging' /\ pass'.at # "idle"
    BY <1>1, <1>2, <1>6, <2>1, NextPartFacts
  <2>3. Len(rows) = 1
    BY <1>4, <1>10
  <2>4. pass.short => r.id = 1
    BY <1>1, <1>4, <2>3 DEF PagingInv, RowsInv
  <2> QED  BY <1>7, <1>10, <2>1, <2>2, <2>4 DEF PageDone
<1>11. ASSUME ~(Len(rows) > 1), ~PageDone(hit)
       PROVE  /\ PagingInv' /\ Paging' /\ pass'.kind = kind /\ pass'.stop = pass.stop
              /\ mark' = mark /\ pass'.at # "rows" /\ Floor' >= r.id - 1 /\ Floor' \in Int
  <2>1. pass' = [pass EXCEPT !.at = "fetch", !.index = pass.index + 1, !.rows = <<>>,
                   !.hit = FALSE, !.short = FALSE]
    BY <1>5, <1>11
  <2>2. /\ DOMAIN pass' = DOMAIN NoPass /\ pass'.at = "fetch" /\ pass'.kind = kind
        /\ pass'.stop = pass.stop /\ pass'.index = pass.index + 1
    BY <1>3, <2>1 DEF NoPass
  <2>3. mark' = mark
    BY <1>5, <1>8, <2>2
  <2>4. r.id + PageLen <= Len(l) - Seen(pass.index) + 1
    <3>1. Len(rows) = 1 /\ ~pass.short
      BY <1>4, <1>11 DEF PageDone
    <3> QED  BY <1>1, <1>4, <3>1 DEF PagingInv, RowsInv
  <2>5. /\ Seen(pass.index + 1) = Seen(pass.index) + PageLen /\ Seen(pass.index) \in Nat
        /\ PageLen \in Nat /\ Len(l) \in Nat /\ r.id >= 1
    <3>1. DOMAIN l = 1..Len(l) /\ Len(l) \in Nat
      BY <1>3, ListFacts
    <3>2. r.id >= 1
      BY <1>4, <3>1
    <3> QED  BY <1>3, <3>1, <3>2, SeenFacts, BridgeAssumption
  <2>6. Seen(pass.index + 1) <= Len(l) /\ Len(l) - Seen(pass.index + 1) >= r.id - 1
        /\ Len(l) - Seen(pass.index + 1) \in Int
    <3> HIDE DEF l, r
    <3> QED  BY <1>4, <2>4, <2>5
  <2>7. PassInv' /\ FetchInv'
    BY <1>1, <1>2, <1>3, <2>2, <2>6 DEF PagingInv, PassInv, Steps, FetchInv
  <2>8. RowsInv' /\ Floor' = Len(l) - Seen(pass.index + 1)
    BY <1>1, <2>2 DEF RowsInv, Floor
  <2> QED  BY <1>6, <2>2, <2>3, <2>6, <2>7, <2>8 DEF PagingInv, Paging
<1>12. r.id - 1 >= r.id - 1 /\ r.id - 1 \in Int
  BY <1>4
<1> QED  BY <1>1, <1>2, <1>3, <1>5, <1>9, <1>10, <1>11, <1>12

-----------------------------------------------------------------------------
(* Type correctness *)

\* The next-state relation by what the proofs tell apart.
LEMMA NextCases ==
  ASSUME Next
  PROVE  \/ Node \/ runBridgeSyncLoop \/ ConfigStep \/ Crash
         \/ \E ok \in BOOLEAN : ReadStopHeight(ok) \/ FetchPage(ok) \/ UpsertRequest(ok)
BY DEF Next, Pass, ConfigStep

\* Before the first pass nothing is fetched and nothing stored.
LEMMA InitPaging == Init => PagingInv /\ ~Paging
<1> SUFFICES ASSUME Init PROVE PagingInv /\ ~Paging
  OBVIOUS
<1>1. /\ budget \in Budgets /\ node = [k \in Kinds |-> <<>>] /\ version = 0
      /\ stored = [k \in Kinds |-> <<>>] /\ pass = NoPass /\ faults = 0 /\ clean = TRUE
  BY DEF Init
<1>2. budget["config"] \in Nat /\ budget["faults"] \in Nat
  BY <1>1, BridgeAssumption
<1>3. \A k \in Kinds : Requests(k, <<>>)
  BY DEF Requests
<1>4. NodeInv
  BY <1>1, <1>2, <1>3 DEF NodeInv
<1>5. StoredInv
  BY <1>1 DEF StoredInv, StoredIn
<1>6. PassInv
  <2>1. "wrap" \in Kinds /\ node["wrap"] = <<>> /\ LastHeight(<<>>) = 0
    BY <1>1 DEF Kinds, LastHeight
  <2> QED  BY <1>1, <1>2, <2>1 DEF PassInv, NoPass, Steps
<1> QED  BY <1>1, <1>4, <1>5, <1>6 DEF PagingInv, FetchInv, RowsInv, Paging, NoPass

\* PagingInv is inductive: one case per step.
LEMMA PagingStep == PagingInv /\ [Next]_vars => PagingInv'
<1> SUFFICES ASSUME PagingInv, [Next]_vars PROVE PagingInv'
  OBVIOUS
<1>1. ASSUME UNCHANGED <<nodeVars, stored>>, PassInv', ~Paging', pass'.at # "stop" \/ pass'.index = 0
      PROVE  PagingInv'
  <2>1. UNCHANGED <<budget, node, version, stored>>
    BY <1>1 DEF nodeVars
  <2> QED  BY <1>1, <2>1 DEF PagingInv, NodeInv, StoredInv, FetchInv, RowsInv, Paging
<1>2. CASE Node
  BY <1>2, NodeKeepsPaging
<1>3. CASE runBridgeSyncLoop
  <2>1. pass'.index = 0
    BY <1>3 DEF runBridgeSyncLoop, At, NoPass
  <2> QED  BY <1>1, <1>3, <2>1, StartPass DEF PagingInv
<1>4. CASE ConfigStep
  BY <1>1, <1>4, ConfigKeepsRequests DEF PagingInv
<1>5. CASE Crash
  <2>1. pass'.at = "idle"
    BY <1>5, CrashStep DEF PagingInv
  <2> QED  BY <1>1, <1>5, <2>1, CrashStep DEF PagingInv
<1>6. CASE \E ok \in BOOLEAN : ReadStopHeight(ok) \/ FetchPage(ok) \/ UpsertRequest(ok)
  BY <1>6, StopStep, FetchStep, UpsertStep
<1>7. CASE UNCHANGED vars
  BY <1>7 DEF vars, nodeVars, history, PagingInv, NodeInv, StoredInv, PassInv, FetchInv, RowsInv,
              Paging, Reached, Floor
<1> QED  BY <1>2, <1>3, <1>4, <1>5, <1>6, <1>7, NextCases

\* PagingInv has the types in it.
LEMMA PagingTypes == PagingInv => TypeOK
<1> SUFFICES ASSUME PagingInv PROVE TypeOK
  OBVIOUS
<1>1. ASSUME Paging PROVE pass.index \in 0..(Len(node[pass.kind]) \div PageLen)
  <2>1. pass.index \in Nat /\ Seen(pass.index) <= Len(node[pass.kind])
    BY <1>1 DEF PagingInv, FetchInv
  <2>2. Len(node[pass.kind]) \in Nat
    BY ListFacts DEF PagingInv, PassInv, NodeInv
  <2> QED  BY <2>1, <2>2, LastPage
<1> QED  BY <1>1 DEF TypeOK, Paging, PagingInv, PassInv, StoredInv, StoredIn

\* Whatever arrives at the node while updateBridgeWrapRequests or
\* updateBridgeUnwrapRequests is paging, and whatever fails, the page loop never asks
\* for a page beyond the first empty one, its stop height is one the node has, and only
\* requests of the node are stored, under the height and recipient they have.
THEOREM TypeCorrect == Spec => []TypeOK
<1>1. Init => PagingInv
  BY InitPaging
<1> QED  BY <1>1, PagingStep, PagingTypes, PTL DEF Spec

-----------------------------------------------------------------------------
(* Without a failure the lists have no hole *)

\* Ids without a hole below: what NoHoles asks of a table.
Closed(D) == \A x \in Nat \ {0} : \A y \in D : x <= y => x \in D

\* Above f nothing is left out below something stored.
ClosedAbove(D, f) == \A x \in Nat \ {0} : x > f => x \in D \/ \A y \in D : y <= x

\* What the stop height stands for: all is stored up to a request not below it.
Base(D, l, stop) ==
  \E m \in Nat : /\ 1..m \subseteq D
                 /\ m = 0 => stop = 0
                 /\ m > 0 => m \in DOMAIN l /\ stop <= l[m].height

\* A table of which a pass is writing pages is closed above the pass's floor, and
\* below it the stop height vouches; any other table is closed.
ClosedFor(k) ==
  IF Paging /\ pass.kind = k
  THEN ClosedAbove(DOMAIN stored[k], Floor) /\ Base(DOMAIN stored[k], node[k], pass.stop)
  ELSE Closed(DOMAIN stored[k])

\* The invariant behind NoHoles, for the lists that NoHoles speaks of.
HolesInv == faults = 0 => \A k \in Kinds : NoThreeShare(node[k]) => ClosedFor(k)

\* The stop height of a closed table vouches for everything at or below it.
LEMMA StopIsBase ==
  ASSUME NEW kind \in Kinds, NEW l, Requests(kind, l), NEW t, StoredIn(kind, t, l),
         Closed(DOMAIN t)
  PROVE  Base(DOMAIN t, l, SyncStopHeight(kind, t))
<1> DEFINE stop == SyncStopHeight(kind, t)
<1>1. /\ stop \in 0..LastHeight(l) /\ stop <= NewestKnown(t)
      /\ DOMAIN t = {} => stop = 0
      /\ DOMAIN t # {} => \E i \in DOMAIN t : NewestKnown(t) = l[i].height
  BY StopHeight
<1>2. Len(l) \in Nat /\ DOMAIN l = 1..Len(l) /\ DOMAIN t \subseteq DOMAIN l
  BY ListFacts DEF StoredIn
<1> HIDE DEF stop
<1>3. CASE DOMAIN t = {}
  <2>1. 1..0 \subseteq DOMAIN t
    OBVIOUS
  <2> QED  BY <1>1, <1>3, <2>1 DEF Base, stop
<1>4. CASE DOMAIN t # {}
  <2>1. PICK i \in DOMAIN t : NewestKnown(t) = l[i].height
    BY <1>1, <1>4
  <2>2. i \in Nat \ {0} /\ i \in DOMAIN l
    BY <1>2, <2>1
  <2>3. 1..i \subseteq DOMAIN t
    BY <2>2 DEF Closed
  <2>4. stop <= l[i].height
    BY <1>1, <2>1
  <2> QED  BY <2>2, <2>3, <2>4 DEF Base, stop
<1> QED  BY <1>3, <1>4

\* A row written at the floor lowers the floor by at most one.
LEMMA PageCloses ==
  ASSUME NEW D, NEW f \in Int, ClosedAbove(D, f), NEW g \in Int, g >= f - 1
  PROVE  ClosedAbove(D \cup {f}, g)
<1> SUFFICES ASSUME NEW x \in Nat \ {0}, x > g, x \notin D \cup {f},
                    NEW y \in D \cup {f}
             PROVE  y <= x
  BY DEF ClosedAbove
<1>1. x > f
  OBVIOUS
<1>2. \A z \in D : z <= x
  BY <1>1 DEF ClosedAbove
<1> QED  BY <1>1, <1>2

\* Closed above a floor is closed above any higher one.
LEMMA ClosedFrom ==
  ASSUME NEW D, NEW f \in Int, NEW g \in Int, g >= f, ClosedAbove(D, f)
  PROVE  ClosedAbove(D, g)
<1>1. \A x \in Nat \ {0} : x > g => x > f
  OBVIOUS
<1> QED  BY <1>1 DEF ClosedAbove

\* Where the pages stop, what they have stored meets what was there.
LEMMA EndCloses ==
  ASSUME NEW kind, NEW l, Requests(kind, l), NoThreeShare(l), NEW D, D \subseteq DOMAIN l,
         NEW f \in Int, ClosedAbove(D, f), NEW stop \in Nat, Base(D, l, stop),
         \/ f <= 0
         \/ stop > 0 /\ \E h \in DOMAIN l : h > f /\ l[h].height <= stop
  PROVE  Closed(D)
<1>1. /\ Len(l) \in Nat /\ DOMAIN l = 1..Len(l)
      /\ \A i \in DOMAIN l : l[i].height \in Nat \ {0}
  BY ListFacts
<1> SUFFICES ASSUME NEW x \in Nat \ {0}, NEW y \in D, x <= y, x \notin D
             PROVE  FALSE
  BY DEF Closed
<1>2. y \in Nat
  BY <1>1
<1>3. ~(x > f)
  <2>1. x > f => y <= x
    BY DEF ClosedAbove
  <2>2. x # y
    OBVIOUS
  <2> QED  BY <1>2, <2>1, <2>2
<1>4. PICK h \in DOMAIN l : h > f /\ l[h].height <= stop /\ stop > 0
  BY <1>3
<1>5. PICK m \in Nat : /\ 1..m \subseteq D
                       /\ m = 0 => stop = 0
                       /\ m > 0 => m \in DOMAIN l /\ stop <= l[m].height
  BY DEF Base
<1>6. m < x /\ x < h /\ h \in Nat /\ m > 0
  <2>1. m < x
    BY <1>5
  <2>2. x < h /\ h \in Nat
    BY <1>1, <1>3, <1>4
  <2>3. m > 0
    BY <1>4, <1>5
  <2> QED  BY <2>1, <2>2, <2>3
<1>7. m \in DOMAIN l /\ m + 2 \in DOMAIN l /\ m + 2 <= h /\ m <= m + 2
  BY <1>1, <1>4, <1>5, <1>6
<1>8. l[m].height <= l[m + 2].height /\ l[m + 2].height <= l[h].height
  BY <1>4, <1>7 DEF Requests
<1>9. stop <= l[m].height
  BY <1>5, <1>6
<1>10. l[m].height = l[m + 2].height
  BY <1>1, <1>4, <1>7, <1>8, <1>9
<1> QED  BY <1>7, <1>10 DEF NoThreeShare

\* A list that has grown had no more requests of one height before.
LEMMA GrownShares ==
  ASSUME NEW kind, NEW l, NEW m, Requests(kind, l), Requests(kind, m), Grown(kind, l, m),
         NoThreeShare(m)
  PROVE  NoThreeShare(l)
BY DEF NoThreeShare, Grown, Later

\* The stop height's guarantee survives new requests and new rows.
LEMMA BaseGrows ==
  ASSUME NEW kind, NEW l, NEW m, Grown(kind, l, m), NEW D, NEW E, D \subseteq E,
         NEW stop, Base(D, l, stop)
  PROVE  Base(E, m, stop)
<1>1. \A i \in DOMAIN l : i \in DOMAIN m /\ m[i].height = l[i].height
  BY DEF Grown, Later
<1>2. PICK n \in Nat : /\ 1..n \subseteq D
                       /\ n = 0 => stop = 0
                       /\ n > 0 => n \in DOMAIN l /\ stop <= l[n].height
  BY DEF Base
<1>3. 1..n \subseteq E
  BY <1>2
<1> QED  BY <1>1, <1>2, <1>3 DEF Base

\* HolesInv is inductive: node steps raise the floor, rows lower it, and a pass ends
\* only where EndCloses applies.
LEMMA HolesStep == PagingInv /\ HolesInv /\ [Next]_vars => HolesInv'
<1> SUFFICES ASSUME PagingInv, HolesInv, [Next]_vars, faults' = 0,
                    NEW k \in Kinds, NoThreeShare(node'[k])
             PROVE  ClosedFor(k)'
  BY DEF HolesInv
<1>1. faults \in Nat /\ Requests(k, node[k]) /\ StoredIn(k, stored[k], node[k]) /\ pass.kind \in Kinds
  BY DEF PagingInv, PassInv, NodeInv, StoredInv
<1>2. ASSUME node' = node, faults' >= faults PROVE ClosedFor(k)
  BY <1>1, <1>2 DEF HolesInv
<1>3. ASSUME node' = node, faults' >= faults, stored' = stored, ~Paging, ~Paging'
      PROVE  ClosedFor(k)'
  BY <1>2, <1>3 DEF ClosedFor
<1>4. ASSUME Node PROVE ClosedFor(k)'
  <2>1. PagingInv' /\ Grown(k, node[k], node'[k]) /\ UNCHANGED <<stored, pass, faults>>
    BY <1>4, NodeSteps, NodeKeepsPaging DEF PagingInv, history
  <2>2. NoThreeShare(node[k])
    BY <1>1, <2>1, GrownShares DEF PagingInv, NodeInv
  <2>3. ClosedFor(k)
    BY <2>1, <2>2 DEF HolesInv
  <2>4. CASE Paging /\ pass.kind = k
    <3>1. Floor \in Int /\ Floor' \in Int /\ Floor' >= Floor
      <4>1. Floor \in Int /\ Floor' >= Floor
        BY <1>4, <2>4, NodeKeepsPaging
      <4>2. Floor' \in Int
        <5>1. CASE pass.at = "fetch"
          <6>1. Floor' = Len(node'[k]) - Seen(pass.index)
            BY <2>1, <2>4, <5>1 DEF Floor
          <6>2. Len(node'[k]) \in Nat /\ Seen(pass.index) \in Nat
            BY <2>1, <2>4, ListFacts, SeenFacts DEF PagingInv, NodeInv, FetchInv
          <6> QED  BY <6>1, <6>2
        <5>2. CASE pass.at = "rows"
          BY <2>1, <4>1, <5>2 DEF Floor
        <5> QED  BY <2>4, <5>1, <5>2 DEF Paging
      <4> QED  BY <4>1, <4>2
    <3>2. ClosedAbove(DOMAIN stored[k], Floor) /\ Base(DOMAIN stored[k], node[k], pass.stop)
      BY <2>3, <2>4 DEF ClosedFor
    <3>3. ClosedAbove(DOMAIN stored[k], Floor')
      BY <3>1, <3>2, ClosedFrom
    <3>4. Base(DOMAIN stored[k], node'[k], pass.stop)
      BY <2>1, <3>2, BaseGrows
    <3> QED  BY <2>1, <2>4, <3>3, <3>4 DEF ClosedFor, Paging
  <2>5. CASE ~(Paging /\ pass.kind = k)
    BY <2>1, <2>3, <2>5 DEF ClosedFor, Paging
  <2> QED  BY <2>4, <2>5
<1>5. CASE runBridgeSyncLoop
  <2>1. ~Paging
    BY <1>5 DEF runBridgeSyncLoop, Paging
  <2>2. node' = node /\ stored' = stored /\ faults' = faults /\ ~Paging'
    BY <1>5, StartPass DEF PagingInv, nodeVars
  <2> QED  BY <1>1, <1>3, <2>1, <2>2
<1>6. CASE ConfigStep
  BY <1>3, <1>6, ConfigKeepsRequests DEF PagingInv, nodeVars
<1>7. CASE Crash
  BY <1>1, <1>7, CrashStep DEF PagingInv
<1>8. ASSUME NEW ok \in BOOLEAN, ReadStopHeight(ok) PROVE ClosedFor(k)'
  <2>1. /\ UNCHANGED <<nodeVars, stored>> /\ faults' >= faults /\ pass.at = "stop"
        /\ ~ok => ~Paging'
        /\ ok => /\ pass'.at = "fetch" /\ pass'.kind = pass.kind
                 /\ pass'.stop = SyncStopHeight(pass.kind, stored[pass.kind])
                 /\ Floor' = Len(node[pass.kind])
    BY <1>8, StopStep
  <2>2. node' = node /\ stored' = stored /\ ~Paging
    BY <2>1 DEF nodeVars, Paging
  <2>3. ClosedFor(k) /\ Closed(DOMAIN stored[k])
    BY <1>2, <2>1, <2>2 DEF ClosedFor
  <2>4. CASE ok /\ pass.kind = k
    <3>1. Base(DOMAIN stored[k], node[k], SyncStopHeight(k, stored[k]))
      BY <1>1, <2>3, StopIsBase
    <3>2. ClosedAbove(DOMAIN stored[k], Len(node[k]))
      <4>1. DOMAIN stored[k] \subseteq 1..Len(node[k]) /\ Len(node[k]) \in Nat
        BY <1>1, ListFacts DEF StoredIn
      <4>2. \A x \in Nat : \A y \in 1..Len(node[k]) : x > Len(node[k]) => y <= x
        BY <4>1
      <4> QED  BY <4>1, <4>2 DEF ClosedAbove
    <3> QED  BY <2>1, <2>2, <2>4, <3>1, <3>2 DEF ClosedFor, Paging
  <2>5. CASE ~(ok /\ pass.kind = k)
    BY <2>1, <2>2, <2>3, <2>5 DEF ClosedFor
  <2> QED  BY <2>4, <2>5
<1>9. ASSUME Paging, NEW f \in Int, node' = node, ClosedAbove(DOMAIN stored'[k], f),
             Base(DOMAIN stored'[k], node[k], pass.stop), pass.kind = k, ~Paging',
             StoredIn(k, stored'[k], node[k]), f <= 0 \/ Reached(f)
      PROVE  ClosedFor(k)'
  <2>1. pass.stop \in Nat
    BY <1>1, LastHeightFacts DEF PagingInv, PassInv
  <2>2. Closed(DOMAIN stored'[k])
    BY <1>1, <1>9, <2>1, EndCloses DEF StoredIn, Reached
  <2> QED  BY <1>9, <2>2 DEF ClosedFor
<1>10. ASSUME NEW ok \in BOOLEAN, FetchPage(ok) PROVE ClosedFor(k)'
  <2>1. /\ UNCHANGED <<nodeVars, stored>> /\ faults' >= faults /\ pass.at = "fetch"
        /\ \/ /\ pass' = NextPart /\ ~Paging'
              /\ ok => Floor <= 0
              /\ ~ok => faults' > faults
           \/ /\ ok /\ pass'.at = "rows" /\ pass'.kind = pass.kind /\ pass'.stop = pass.stop
              /\ Floor' = Floor
    BY <1>10, FetchStep
  <2>2. node' = node /\ stored' = stored /\ Paging
    BY <2>1 DEF nodeVars, Paging
  <2>3. ClosedFor(k)
    BY <1>2, <2>1, <2>2
  <2>4. ok
    BY <1>1, <2>1
  <2>5. CASE pass.kind # k
    BY <2>1, <2>2, <2>3, <2>5 DEF ClosedFor
  <2>6. CASE pass.kind = k /\ pass'.at = "rows" /\ Floor' = Floor /\ pass'.kind = pass.kind
             /\ pass'.stop = pass.stop
    BY <2>2, <2>3, <2>6 DEF ClosedFor, Paging
  <2>7. CASE pass.kind = k /\ ~Paging' /\ Floor <= 0
    <3>1. Floor \in Int
      <4>1. Floor = Len(node[k]) - Seen(pass.index)
        BY <2>1, <2>7 DEF Floor
      <4>2. Len(node[k]) \in Nat /\ Seen(pass.index) \in Nat
        BY <1>1, <2>2, ListFacts, SeenFacts DEF PagingInv, FetchInv
      <4> QED  BY <4>1, <4>2
    <3> QED  BY <1>1, <1>9, <2>2, <2>3, <2>7, <3>1 DEF ClosedFor
  <2> QED  BY <2>1, <2>4, <2>5, <2>6, <2>7
<1>11. ASSUME NEW ok \in BOOLEAN, UpsertRequest(ok) PROVE ClosedFor(k)'
  <2> DEFINE id == pass.rows[1].id
  <2>1. /\ PagingInv' /\ UNCHANGED nodeVars /\ faults' >= faults /\ pass.at = "rows"
        /\ ~ok => faults' > faults
        /\ ok => stored' = [stored EXCEPT ![pass.kind] = Upsert(pass.kind, @, id, pass.rows[1].row)]
        /\ Floor = id
        /\ \/ pass' = NextPart /\ ~Paging' /\ (Floor = 1 \/ Reached(Floor - 1))
           \/ /\ Paging' /\ pass'.kind = pass.kind /\ pass'.stop = pass.stop
              /\ Floor' >= Floor - 1 /\ Floor' \in Int
    BY <1>11, UpsertStep
  <2>2. node' = node /\ Paging /\ ok
    BY <1>1, <2>1 DEF nodeVars, Paging
  <2>3. ClosedFor(k)
    BY <1>2, <2>1, <2>2
  <2>4. DOMAIN stored = Kinds
    BY DEF PagingInv, StoredInv
  <2>5. CASE pass.kind # k
    <3>1. stored'[k] = stored[k]
      BY <2>1, <2>2, <2>4, <2>5
    <3> QED  BY <2>1, <2>2, <2>3, <2>5, <3>1 DEF ClosedFor, Paging
  <2>6. CASE pass.kind = k
    <3>1. /\ id \in Int /\ id \in DOMAIN node[k] /\ pass.rows[1].row \in RowsOf(k)
          /\ Later(k, pass.rows[1].row, node[k][id])
      BY <2>1, <2>6, TopRow DEF PagingInv, RowsInv
    <3>2. stored'[k] = Upsert(k, stored[k], id, pass.rows[1].row)
      BY <2>1, <2>2, <2>4, <2>6
    <3>3. DOMAIN stored'[k] = DOMAIN stored[k] \cup {id}
      <4> DEFINE w == pass.rows[1].row
      <4>1. w \in RowsOf(k) /\ w.height = node[k][id].height /\ w.to = node[k][id].to
        BY <3>1 DEF Later
      <4>2. stored'[k] = Upsert(k, stored[k], id, w) /\ id \in DOMAIN node[k]
        BY <3>1, <3>2
      <4> HIDE DEF w, id
      <4>3. DOMAIN Upsert(k, stored[k], id, w) = DOMAIN stored[k] \cup {id}
        BY <1>1, <4>1, <4>2, UpsertStores DEF Stored
      <4> QED  BY <4>2, <4>3
    <3>4. StoredIn(k, stored'[k], node[k])
      BY <2>1, <2>2 DEF PagingInv, StoredInv
    <3>5. ClosedAbove(DOMAIN stored[k], id) /\ Base(DOMAIN stored[k], node[k], pass.stop)
      BY <2>1, <2>2, <2>3, <2>6 DEF ClosedFor
    <3>6. Base(DOMAIN stored'[k], node[k], pass.stop)
      BY <3>3, <3>5, GrownRefl, BaseGrows
    <3>7. \A g \in Int : g >= id - 1 => ClosedAbove(DOMAIN stored'[k], g)
      BY <3>1, <3>3, <3>5, PageCloses
    <3>8. CASE Paging' /\ pass'.kind = pass.kind /\ pass'.stop = pass.stop
               /\ Floor' >= Floor - 1 /\ Floor' \in Int
      BY <2>1, <2>2, <2>6, <3>6, <3>7, <3>8 DEF ClosedFor
    <3>9. CASE ~Paging' /\ (Floor = 1 \/ Reached(Floor - 1))
      <4>1. id - 1 \in Int /\ id - 1 >= id - 1 /\ (id - 1 <= 0 \/ Reached(id - 1))
        BY <2>1, <3>1, <3>9
      <4> QED  BY <1>9, <2>2, <2>6, <3>4, <3>6, <3>7, <3>9, <4>1
    <3> QED  BY <2>1, <3>8, <3>9
  <2> QED  BY <2>5, <2>6
<1>12. CASE UNCHANGED vars
  <2>1. UNCHANGED <<node, stored, pass, faults>>
    BY <1>12 DEF vars, nodeVars, history
  <2> QED  BY <1>1, <1>2, <2>1 DEF ClosedFor, Paging, Floor
<1> QED  BY <1>4, <1>5, <1>6, <1>7, <1>8, <1>10, <1>11, <1>12, NextCases

\* The rows that the first pages of a list may show.
OnPages(rows, key, pages) ==
  UNION {Slice(rows, key, ParsePagination([page |-> n, size |-> 0])).may : n \in 1..pages}

\* Every row of a list is on one of its pages.
LEMMA AllPages ==
  ASSUME NEW S, IsFiniteSet(S), NEW rows \in SUBSET S, NEW key, DOMAIN key = rows,
         \A x \in rows : key[x] \in Int
  PROVE  OnPages(rows, key, Cardinality(S) + 1) = rows
<1> DEFINE P(n) == ParsePagination([page |-> n, size |-> 0])
           s == DefaultPageSize
           First(x) == Cardinality({y \in rows : key[y] < key[x]})
           Last(x) == Cardinality({y \in rows : key[y] <= key[x]}) - 1
<1>1. s \in Nat \ {0}
  BY PageSizeAssumption
<1>2. \A n \in Nat \ {0} : P(n).page = n /\ P(n).size = s
  <2> TAKE n \in Nat \ {0}
  <2> DEFINE req == [page |-> n, size |-> 0]
  <2>1. req.page = n /\ n > 0 /\ req.size = 0
    OBVIOUS
  <2> HIDE DEF req
  <2>2. P(n) = ParsePagination(req)
    BY DEF req
  <2>3. ParsePagination(req).page = n
    BY <2>1 DEF ParsePagination
  <2>4. ParsePagination(req).size = s
    <3>1. req.size <= 0 /\ ~(req.size > MaxPageSize)
      BY <2>1, PageSizeAssumption
    <3> QED  BY <3>1 DEF ParsePagination
  <2> QED  BY <2>2, <2>3, <2>4
<1> HIDE DEF P, s
<1>3. \A n \in Nat \ {0} : Slice(rows, key, P(n)).may =
        {x \in rows : First(x) <= (n - 1) * s + s - 1 /\ Last(x) >= (n - 1) * s}
  BY <1>2 DEF Slice, Offset
<1>4. \A T \in SUBSET S : Cardinality(T) \in Nat /\ Cardinality(T) <= Cardinality(S)
  BY FS_Subset, FS_CardinalityType
<1>5. \A x \in rows : /\ First(x) \in Nat /\ First(x) <= Cardinality(S)
                      /\ Last(x) \in Int /\ First(x) <= Last(x)
  <2> TAKE x \in rows
  <2> DEFINE A == {y \in rows : key[y] < key[x]}
             B == {y \in rows : key[y] <= key[x]}
  <2>1. A \in SUBSET S /\ B \in SUBSET S /\ A \subseteq B /\ x \in B /\ x \notin A
    OBVIOUS
  <2> HIDE DEF A, B
  <2>2. IsFiniteSet(B) /\ IsFiniteSet(A)
    BY <2>1, FS_Subset
  <2>3. Cardinality(A) <= Cardinality(B) /\ Cardinality(A) # Cardinality(B)
    <3>1. Cardinality(A) <= Cardinality(B) /\ (Cardinality(A) = Cardinality(B) => A = B)
      BY <2>1, <2>2, FS_Subset
    <3> QED  BY <2>1, <3>1
  <2>4. Cardinality(A) \in Nat /\ Cardinality(B) \in Nat /\ Cardinality(A) <= Cardinality(S)
    BY <1>4, <2>1
  <2>5. Cardinality(A) <= Cardinality(B) - 1
    BY <2>3, <2>4
  <2> QED  BY <2>4, <2>5 DEF A, B
<1> HIDE DEF First, Last
<1>6. Cardinality(S) \in Nat
  BY FS_CardinalityType
<1>7. ASSUME NEW x \in rows
      PROVE  \E n \in 1..(Cardinality(S) + 1) : x \in Slice(rows, key, P(n)).may
  <2>1. First(x) \in Nat /\ First(x) <= Cardinality(S) /\ Last(x) \in Int /\ First(x) <= Last(x)
    BY <1>5
  <2>2. PICK n \in 1..(First(x) + 1) : (n - 1) * s <= First(x) /\ First(x) <= (n - 1) * s + s - 1
    BY <1>1, <2>1, SomePage
  <2>3. n \in 1..(Cardinality(S) + 1) /\ n \in Nat \ {0}
    BY <1>6, <2>1, <2>2
  <2>4. (n - 1) * s \in Int
    BY <1>1, <2>3
  <2>5. Last(x) >= (n - 1) * s
    <3> DEFINE z == (n - 1) * s
    <3>1. z \in Int /\ z <= First(x)
      BY <2>2, <2>4
    <3> HIDE DEF z
    <3>2. Last(x) >= z
      BY <2>1, <3>1
    <3> QED  BY <3>2 DEF z
  <2> QED  BY <1>3, <2>2, <2>3, <2>5
<1>8. \A n \in 1..(Cardinality(S) + 1) : Slice(rows, key, P(n)).may \subseteq rows
  <2>1. \A n \in 1..(Cardinality(S) + 1) : n \in Nat \ {0}
    BY <1>6
  <2> QED  BY <1>3, <2>1
<1> QED  BY <1>7, <1>8 DEF P, OnPages

\* The lists of the API show all that is stored, each request under its recipient.
LEMMA AllReported ==
  ASSUME NodeInv, StoredInv, NEW k \in Kinds
  PROVE  /\ Reported(k) = DOMAIN stored[k]
         /\ \A a : ReportedTo(k, a) = {i \in DOMAIN stored[k] : stored[k][i].to = a}
<1> DEFINE t == stored[k]
           S == DOMAIN t
           key == [i \in S |-> -(t[i].height)]
           P(n) == ParsePagination([page |-> n, size |-> 0])
           N == 1..(Cardinality(S) + 1)
<1>1. IsFiniteSet(S) /\ \A i \in S : t[i].height \in Nat
  <2>1. Requests(k, node[k]) /\ StoredIn(k, t, node[k])
    BY DEF NodeInv, StoredInv
  <2>2. /\ Len(node[k]) \in Nat /\ DOMAIN node[k] = 1..Len(node[k])
        /\ \A i \in DOMAIN node[k] : node[k][i].height \in Nat \ {0}
    BY <2>1, ListFacts
  <2>3. S \subseteq 1..Len(node[k]) /\ \A i \in S : t[i].height \in Nat
    BY <2>1, <2>2 DEF StoredIn
  <2>4. IsFiniteSet(1..Len(node[k]))
    BY <2>2, FS_Interval
  <2> QED  BY <2>3, <2>4, FS_Subset
<1>2. Reported(k) = S
  <2>1. \A n \in N : (IF k = "wrap" THEN BridgeWraps(t, [page |-> n, size |-> 0])
                      ELSE BridgeUnwraps(t, [page |-> n, size |-> 0])).shown.may
                     = Slice(S, key, P(n)).may
    BY DEF BridgeWraps, BridgeUnwraps, ListWraps, ListUnwraps, Counted, NewPage, Desc
  <2>2. Reported(k) = OnPages(S, key, Cardinality(S) + 1)
    BY <2>1 DEF Reported, OnPages
  <2>3. DOMAIN key = S /\ \A x \in S : key[x] \in Int
    BY <1>1
  <2> HIDE DEF key, S
  <2>4. S \in SUBSET S
    OBVIOUS
  <2> QED  BY <1>1, <2>2, <2>3, <2>4, AllPages
<1>3. ASSUME NEW a
      PROVE  ReportedTo(k, a) = {i \in S : t[i].to = a}
  <2> DEFINE R == {i \in S : t[i].to = a}
             keyTo == [i \in R |-> -(t[i].height)]
  <2>1. \A n \in N : (IF k = "wrap" THEN BridgeWrapsByAddress(t, a, [page |-> n, size |-> 0])
                      ELSE BridgeUnwrapsByAddress(t, a, [page |-> n, size |-> 0])).shown.may
                     = Slice(R, keyTo, P(n)).may
    BY DEF BridgeWrapsByAddress, BridgeUnwrapsByAddress, ListWrapsByAddress,
           ListUnwrapsByAddress, Counted, NewPage, Desc
  <2>2. ReportedTo(k, a) = OnPages(R, keyTo, Cardinality(S) + 1)
    BY <2>1 DEF ReportedTo, OnPages
  <2>3. DOMAIN keyTo = R /\ R \in SUBSET S /\ \A x \in R : keyTo[x] \in Int
    BY <1>1
  <2> HIDE DEF keyTo, R, S
  <2>4. ReportedTo(k, a) = R
    BY <1>1, <2>2, <2>3, AllPages
  <2> QED  BY <2>4 DEF R
<1> QED  BY <1>2, <1>3

\* The invariant gives the property.
LEMMA HolesFilled == PagingInv /\ HolesInv => NoHoles
<1> SUFFICES ASSUME PagingInv, HolesInv, NEW k \in Kinds, faults = 0, NoThreeShare(node[k]),
                    ~(pass.kind = k /\ pass.at \in {"fetch", "rows"}),
                    NEW i \in DOMAIN node[k], NEW j \in Reported(k), i <= j
             PROVE  i \in Reported(k) /\ i \in ReportedTo(k, node[k][i].to)
  BY DEF NoHoles
<1>1. /\ Reported(k) = DOMAIN stored[k]
      /\ ReportedTo(k, node[k][i].to) = {x \in DOMAIN stored[k] : stored[k][x].to = node[k][i].to}
  BY AllReported DEF PagingInv
<1>2. Closed(DOMAIN stored[k])
  BY DEF HolesInv, ClosedFor, Paging
<1>3. i \in Nat \ {0}
  BY ListFacts DEF PagingInv, NodeInv
<1>4. i \in DOMAIN stored[k]
  BY <1>1, <1>2, <1>3 DEF Closed
<1>5. stored[k][i].to = node[k][i].to
  BY <1>4 DEF PagingInv, StoredInv, StoredIn
<1> QED  BY <1>1, <1>4, <1>5

\* As long as no call or statement has failed and no process crashed, updateBridgeWrapRequests
\* and updateBridgeUnwrapRequests leave no hole below what GET /bridge/wraps and
\* /bridge/unwraps list, whatever the page length, and however many requests arrive between
\* two pages, unless three of them share a height.
THEOREM ListsWithoutHoles == Spec => []NoHoles
<1>1. Init => HolesInv
  <2> SUFFICES ASSUME Init PROVE HolesInv
    OBVIOUS
  <2>1. ~Paging /\ stored = [k \in Kinds |-> <<>>]
    BY InitPaging DEF Init
  <2>2. \A k \in Kinds : DOMAIN stored[k] = {}
    BY <2>1
  <2> QED  BY <2>1, <2>2 DEF HolesInv, ClosedFor, Closed
<1> QED  BY <1>1, InitPaging, PagingStep, HolesStep, HolesFilled, PTL DEF Spec

-----------------------------------------------------------------------------
(* The requests that a clean part refreshes *)

\* Above f, t is as fresh as the list was at the mark.
FreshAbove(k, from, t, f) ==
  \A x \in DOMAIN from.list : x > f =>
    x \in DOMAIN t /\ (Final(k, from.list[x]) => Final(k, t[x]))

\* What the stop height stands for: nothing above it is known, or open.
MarkInv(k, from, l, stop) ==
  /\ Grown(k, from.list, l)
  /\ from.newest \in Nat /\ stop <= from.newest
  /\ \A i \in from.open : i \in DOMAIN from.list => stop <= from.list[i].height

\* The rows in hand are no older than what the node had when the pass began.
RowsLater(k, from, rows) ==
  \A j \in DOMAIN rows : rows[j].id \in DOMAIN from.list =>
    Later(k, from.list[rows[j].id], rows[j].row)

\* The invariant behind the requests' half of CleanPartRefreshes: everything above the
\* floor of a clean pass is at least as fresh as when it began.
FreshInv ==
  Paging /\ clean =>
    /\ MarkInv(pass.kind, mark, node[pass.kind], pass.stop)
    /\ FreshAbove(pass.kind, mark, stored[pass.kind], Floor)
    /\ pass.at = "rows" => RowsLater(pass.kind, mark, pass.rows)

\* The floor is a number while there are pages.
LEMMA FloorType == PagingInv /\ Paging => Floor \in Int
<1> SUFFICES ASSUME PagingInv, Paging PROVE Floor \in Int
  OBVIOUS
<1>1. CASE pass.at = "fetch"
  <2>1. Floor = Len(node[pass.kind]) - Seen(pass.index)
    BY <1>1 DEF Floor
  <2>2. Len(node[pass.kind]) \in Nat /\ Seen(pass.index) \in Nat
    BY ListFacts, SeenFacts DEF PagingInv, PassInv, NodeInv, FetchInv
  <2> QED  BY <2>1, <2>2
<1>2. CASE pass.at = "rows"
  BY <1>2, TopRow DEF PagingInv, RowsInv, Floor
<1> QED  BY <1>1, <1>2 DEF Paging

\* Where the pages stop, all that was new or open at the mark has been refreshed.
LEMMA EndRefreshes ==
  ASSUME NEW k, NEW from, NEW l, NEW t, NEW f \in Int, NEW stop \in Nat,
         Requests(k, l), MarkInv(k, from, l, stop), FreshAbove(k, from, t, f),
         \/ f <= 0
         \/ stop > 0 /\ \E h \in DOMAIN l : h > f /\ l[h].height <= stop
  PROVE  Refreshed(k, from, t)
<1>1. /\ Len(l) \in Nat /\ DOMAIN l = 1..Len(l)
      /\ \A i \in DOMAIN l : l[i].height \in Nat \ {0}
  BY ListFacts
<1>2. /\ DOMAIN from.list \subseteq DOMAIN l
      /\ \A i \in DOMAIN from.list : from.list[i].height = l[i].height
      /\ \A i \in DOMAIN from.list : \A j \in DOMAIN l \ DOMAIN from.list :
           from.list[i].height < l[j].height
      /\ from.newest \in Nat /\ stop <= from.newest
      /\ \A i \in from.open : i \in DOMAIN from.list => stop <= from.list[i].height
  BY DEF MarkInv, Grown, Later
<1>3. ASSUME NEW i \in DOMAIN from.list,
             \/ from.list[i].height > from.newest
             \/ i \in from.open /\ Alone(from.list, i)
      PROVE  i > f
  <2>1. i \in Nat \ {0} /\ i \in DOMAIN l /\ from.list[i].height = l[i].height /\ l[i].height \in Nat
    BY <1>1, <1>2
  <2>2. SUFFICES ASSUME ~(i > f) PROVE FALSE
    OBVIOUS
  <2>3. PICK h \in DOMAIN l : h > f /\ l[h].height <= stop
    BY <2>1, <2>2
  <2>4. i < h /\ l[i].height <= l[h].height /\ l[h].height \in Nat
    <3>1. i < h
      BY <1>1, <2>1, <2>2, <2>3
    <3>2. i <= h
      BY <1>1, <2>1, <3>1
    <3> QED  BY <1>1, <2>1, <2>3, <3>1, <3>2 DEF Requests
  <2>5. ~(from.list[i].height > from.newest)
    BY <1>2, <2>1, <2>3, <2>4
  <2>6. i \in from.open /\ Alone(from.list, i) /\ stop <= l[i].height
    BY <1>2, <1>3, <2>1, <2>5
  <2>7. l[h].height = l[i].height
    BY <2>1, <2>3, <2>4, <2>6
  <2>8. h \in DOMAIN from.list
    <3>1. h \notin DOMAIN from.list => l[i].height < l[h].height
      BY <1>2, <2>1, <2>3
    <3> QED  BY <2>1, <2>7, <3>1
  <2>9. h # i /\ from.list[h].height = from.list[i].height
    BY <1>2, <2>1, <2>4, <2>7, <2>8
  <2> QED  BY <2>6, <2>8, <2>9 DEF Alone
<1> QED  BY <1>3 DEF Refreshed, FreshAbove

\* A pass that begins has everything below its floor.
LEMMA FreshStart ==
  ASSUME PagingInv, ReadStopHeight(TRUE)
  PROVE  FreshInv'
<1> DEFINE k == pass.kind
           l == node[k]
           t == stored[k]
<1>1. /\ UNCHANGED <<nodeVars, stored>> /\ pass'.at = "fetch" /\ pass'.kind = k
      /\ pass'.stop = SyncStopHeight(k, t) /\ Floor' = Len(l)
  BY StopStep
<1>2. k \in Kinds /\ Requests(k, l) /\ StoredIn(k, t, l)
  BY DEF PagingInv, PassInv, NodeInv, StoredInv
<1>3. mark'.list = l /\ mark'.newest = NewestKnown(t)
      /\ mark'.open = {i \in DOMAIN t : ~Final(k, t[i])}
  BY DEF ReadStopHeight, NoMark
<1>4. LET stop == SyncStopHeight(k, t)
      IN  /\ stop \in 0..LastHeight(l) /\ stop <= NewestKnown(t)
          /\ \A i \in DOMAIN t : ~Final(k, t[i]) => stop <= t[i].height
          /\ DOMAIN t = {} => stop = 0
          /\ DOMAIN t # {} => \E i \in DOMAIN t : NewestKnown(t) = l[i].height
  BY <1>2, StopHeight
<1>5. /\ Len(l) \in Nat /\ DOMAIN l = 1..Len(l)
      /\ \A i \in DOMAIN l : l[i].height \in Nat \ {0}
  BY <1>2, ListFacts
<1>6. NewestKnown(t) \in Nat
  <2>1. DOMAIN t = {} => NewestKnown(t) = 0
    BY DEF NewestKnown
  <2> QED  BY <1>2, <1>4, <1>5, <2>1 DEF StoredIn
<1>7. \A i \in mark'.open : pass'.stop <= mark'.list[i].height
  BY <1>1, <1>2, <1>3, <1>4 DEF StoredIn
<1>8. MarkInv(k, mark', l, pass'.stop)
  BY <1>1, <1>3, <1>4, <1>6, <1>7, GrownRefl DEF MarkInv
<1>9. FreshAbove(k, mark', t, Floor')
  <2>1. \A x \in DOMAIN l : ~(x > Len(l))
    BY <1>5
  <2> QED  BY <1>1, <1>3, <2>1 DEF FreshAbove
<1> QED  BY <1>1, <1>8, <1>9 DEF FreshInv, nodeVars

\* New and finalized requests do not make the rows written so far older than the mark.
LEMMA FreshWhileNode ==
  ASSUME PagingInv, FreshInv, Node
  PROVE  FreshInv'
<1> DEFINE k == pass.kind
<1>1. /\ PagingInv' /\ k \in Kinds /\ Grown(k, node[k], node'[k])
      /\ UNCHANGED <<stored, pass, clean, mark>>
  BY NodeSteps, NodeKeepsPaging DEF PagingInv, PassInv, history
<1> SUFFICES ASSUME Paging, clean PROVE FreshInv'
  BY <1>1 DEF FreshInv, Paging
<1>2. Floor \in Int /\ Floor' \in Int /\ Floor' >= Floor
  <2>1. Paging'
    BY <1>1 DEF Paging
  <2>2. Floor' \in Int
    <3>1. (PagingInv /\ Paging => Floor \in Int)'
      BY FloorType, PTL
    <3> QED  BY <1>1, <2>1, <3>1
  <2> QED  BY <2>2, NodeKeepsPaging
<1>3. MarkInv(k, mark, node'[k], pass.stop)
  BY <1>1, GrownTrans DEF FreshInv, MarkInv
<1>4. FreshAbove(k, mark, stored[k], Floor')
  <2>1. \A x \in DOMAIN mark.list : x > Floor' => x > Floor
    <3>1. \A x \in DOMAIN mark.list : x \in Nat
      <4>1. Requests(k, node[k]) /\ DOMAIN mark.list \subseteq DOMAIN node[k]
        BY <1>1 DEF FreshInv, MarkInv, Grown, PagingInv, NodeInv
      <4>2. DOMAIN node[k] = 1..Len(node[k]) /\ Len(node[k]) \in Nat
        BY <4>1, ListFacts
      <4> QED  BY <4>1, <4>2
    <3> QED  BY <1>2, <3>1
  <2> QED  BY <2>1 DEF FreshInv, FreshAbove
<1> QED  BY <1>1, <1>3, <1>4 DEF FreshInv

\* The first conjunct of CleanPartRefreshes.
PartFresh ==
  pass.at \in {"fetch", "rows"} /\ pass' = NextPart /\ clean'
    => Refreshed(pass.kind, mark, stored'[pass.kind])

\* Fetching a page keeps FreshInv; fetching the empty one ends a clean part.
LEMMA FreshFetch ==
  ASSUME PagingInv, FreshInv, NEW ok \in BOOLEAN, FetchPage(ok)
  PROVE  FreshInv' /\ PartFresh
<1> DEFINE k == pass.kind
           l == node[k]
<1>1. /\ UNCHANGED <<nodeVars, stored>> /\ pass.at = "fetch" /\ clean' = (clean /\ ok)
      /\ \/ pass' = NextPart /\ ~Paging' /\ (ok => Floor <= 0)
         \/ /\ ok /\ pass'.at = "rows" /\ pass'.kind = pass.kind /\ pass'.stop = pass.stop
            /\ Floor' = Floor /\ mark' = mark
            /\ \A j \in DOMAIN pass'.rows : pass'.rows[j].row = node[pass.kind][pass'.rows[j].id]
  BY FetchStep
<1>2. node' = node /\ stored' = stored /\ Paging
  BY <1>1 DEF nodeVars, Paging
<1>3. NextPart.at # "rows"
  BY DEF NextPart, NoPass
<1>4. /\ k \in Kinds /\ Requests(k, l) /\ Floor \in Int /\ pass.stop \in Nat
  BY <1>2, FloorType, LastHeightFacts DEF PagingInv, PassInv, NodeInv
<1> SUFFICES ASSUME clean, ok PROVE FreshInv' /\ PartFresh
  BY <1>1 DEF FreshInv, PartFresh
<1>5. MarkInv(k, mark, l, pass.stop) /\ FreshAbove(k, mark, stored[k], Floor)
  BY <1>2 DEF FreshInv
<1>6. CASE pass' = NextPart /\ ~Paging' /\ Floor <= 0
  <2>1. Refreshed(k, mark, stored[k])
    BY <1>4, <1>5, <1>6, EndRefreshes
  <2> QED  BY <1>2, <1>6, <2>1 DEF PartFresh, FreshInv
<1>7. CASE /\ pass'.at = "rows" /\ pass'.kind = pass.kind /\ pass'.stop = pass.stop
           /\ Floor' = Floor /\ mark' = mark
           /\ \A j \in DOMAIN pass'.rows : pass'.rows[j].row = l[pass'.rows[j].id]
  <2>1. RowsLater(k, mark, pass'.rows)
    BY <1>5, <1>7 DEF RowsLater, MarkInv, Grown
  <2> QED  BY <1>2, <1>3, <1>5, <1>7, <2>1 DEF FreshInv, PartFresh
<1> QED  BY <1>1, <1>6, <1>7

\* Writing a row keeps FreshInv; writing the last one may end a clean part.
LEMMA FreshUpsert ==
  ASSUME PagingInv, FreshInv, NEW ok \in BOOLEAN, UpsertRequest(ok)
  PROVE  FreshInv' /\ PartFresh
<1> DEFINE k == pass.kind
           l == node[k]
           t == stored[k]
           id == pass.rows[1].id
           w == pass.rows[1].row
           u == Upsert(k, t, id, w)
<1>1. /\ UNCHANGED nodeVars /\ pass.at = "rows" /\ clean' = (clean /\ ok)
      /\ ok => stored' = [stored EXCEPT ![k] = Upsert(k, @, id, w)]
      /\ Floor = id
      /\ \/ pass' = NextPart /\ ~Paging' /\ (Floor = 1 \/ Reached(Floor - 1))
         \/ /\ Paging' /\ pass'.kind = k /\ pass'.stop = pass.stop /\ mark' = mark
            /\ Floor' >= Floor - 1 /\ Floor' \in Int
            /\ pass'.at = "rows" => pass'.rows = Tail(pass.rows)
  BY UpsertStep
<1>2. node' = node /\ Paging
  BY <1>1 DEF nodeVars, Paging
<1>3. NextPart.at \notin {"rows", "fetch"}
  BY DEF NextPart, NoPass
<1>4. /\ k \in Kinds /\ Requests(k, l) /\ StoredIn(k, t, l) /\ DOMAIN stored = Kinds
      /\ pass.stop \in Nat /\ PageRows(k, pass.rows, l)
  BY <1>1, LastHeightFacts DEF PagingInv, PassInv, NodeInv, StoredInv, RowsInv
<1>5. /\ id \in Nat /\ id \in DOMAIN l /\ w \in RowsOf(k) /\ w.height = l[id].height
      /\ w.to = l[id].to /\ 1 \in DOMAIN pass.rows
  BY <1>4, TopRow DEF Later
<1>8. /\ DOMAIN u = DOMAIN t \cup {id}
      /\ \A j \in DOMAIN t : j # id => u[j] = t[j]
      /\ Final(k, u[id]) <=> Final(k, w)
  <2>1. Stored(k, t, id, w, l)
    BY <1>4, <1>5, UpsertStores
  <2> QED BY <2>1 DEF Stored
<1> SUFFICES ASSUME clean, ok PROVE FreshInv' /\ PartFresh
  BY <1>1 DEF FreshInv, PartFresh
<1>6. /\ MarkInv(k, mark, l, pass.stop) /\ FreshAbove(k, mark, t, id)
      /\ RowsLater(k, mark, pass.rows)
  BY <1>1, <1>2 DEF FreshInv
<1>7. stored'[k] = u
  BY <1>1, <1>4
<1>9. ASSUME NEW g \in Int, g >= id - 1 PROVE FreshAbove(k, mark, u, g)
  <2> SUFFICES ASSUME NEW x \in DOMAIN mark.list, x > g
               PROVE  x \in DOMAIN u /\ (Final(k, mark.list[x]) => Final(k, u[x]))
    BY DEF FreshAbove
  <2>1. x \in Nat
    <3>1. DOMAIN mark.list \subseteq DOMAIN l
      BY <1>6 DEF MarkInv, Grown
    <3>2. DOMAIN l = 1..Len(l) /\ Len(l) \in Nat
      BY <1>4, ListFacts
    <3> QED  BY <3>1, <3>2
  <2>2. x = id \/ x > id
    BY <1>5, <1>9, <2>1
  <2>3. CASE x = id
    <3>1. Final(k, mark.list[id]) => Final(k, w)
      BY <1>5, <1>6, <2>3 DEF RowsLater, Later
    <3> HIDE DEF u, id, w, t
    <3> QED  BY <1>8, <2>3, <3>1
  <2>4. CASE x > id
    <3>1. x \in DOMAIN t /\ (Final(k, mark.list[x]) => Final(k, t[x]))
      BY <1>6, <2>4 DEF FreshAbove
    <3>2. x # id
      BY <1>5, <2>1, <2>4
    <3> HIDE DEF u, id, w, t
    <3> QED  BY <1>8, <3>1, <3>2
  <2> QED  BY <2>2, <2>3, <2>4
<1> HIDE DEF u
<1>10. id - 1 \in Int /\ id - 1 >= id - 1 /\ (Floor = 1 => id - 1 <= 0)
  BY <1>1, <1>5
<1>11. CASE pass' = NextPart /\ ~Paging' /\ (Floor = 1 \/ Reached(Floor - 1))
  <2>1. FreshAbove(k, mark, u, id - 1)
    BY <1>9, <1>10
  <2>2. id - 1 <= 0 \/ (pass.stop > 0 /\ \E h \in DOMAIN l : h > id - 1 /\ l[h].height <= pass.stop)
    BY <1>1, <1>10, <1>11 DEF Reached
  <2>3. Refreshed(k, mark, u)
    <3> HIDE DEF id, l
    <3> QED  BY <1>4, <1>6, <1>10, <2>1, <2>2, EndRefreshes
  <2> QED  BY <1>7, <1>11, <2>3 DEF FreshInv, PartFresh
<1>12. CASE /\ Paging' /\ pass'.kind = k /\ pass'.stop = pass.stop /\ mark' = mark
            /\ Floor' >= Floor - 1 /\ Floor' \in Int
            /\ pass'.at = "rows" => pass'.rows = Tail(pass.rows)
  <2>1. FreshAbove(k, mark, u, Floor')
    BY <1>1, <1>9, <1>12
  <2>2. ASSUME pass'.at = "rows" PROVE RowsLater(k, mark, pass'.rows)
    <3>1. Len(pass.rows) > 1
      <4>1. PageRows(k, pass'.rows, l)
        <5>1. RowsInv'
          BY UpsertStep DEF PagingInv
        <5> QED  BY <1>2, <1>12, <2>2, <5>1 DEF RowsInv
      <4>2. pass'.rows # <<>>
        BY <4>1 DEF PageRows
      <4>3. Len(pass.rows) = 1 => Tail(pass.rows) = <<>>
        BY <1>4 DEF PageRows
      <4> QED  BY <1>4, <1>12, <2>2, <4>2, <4>3, TopRow
    <3>2. \A j \in DOMAIN pass'.rows : j + 1 \in DOMAIN pass.rows /\ pass'.rows[j] = pass.rows[j + 1]
      BY <1>4, <1>12, <2>2, <3>1, TailRows
    <3> QED  BY <1>6, <3>2 DEF RowsLater
  <2>3. pass' # NextPart
    BY <1>3, <1>12 DEF Paging
  <2> QED  BY <1>2, <1>6, <1>7, <1>12, <2>1, <2>2, <2>3 DEF FreshInv, PartFresh
<1> QED  BY <1>1, <1>11, <1>12

-----------------------------------------------------------------------------
(* The configuration that a clean part shows *)

\* The rows of the guardians, with the time they were last seen as a guardian.
GuardianRows == [nominated : BOOLEAN, accepted : BOOLEAN, stamp : {"now", "older"}]

\* The configuration tables: one row at most where the key is constant.
TablesInv ==
  /\ DOMAIN tables = DOMAIN NoTables
  /\ DOMAIN tables.admin \subseteq {1} /\ DOMAIN tables.orchestrator \subseteq {1}
  /\ DOMAIN tables.security \subseteq {1}
  /\ \A g \in DOMAIN tables.guardians : tables.guardians[g] \in GuardianRows

\* Which tables are up to date at a step of the part.
PastAdmin == ConfigSteps \ {"admin"}
\* The positions after the security, guardian, orchestrator and network steps.
PastSecurity == PastAdmin \ {"security"}
PastGuardians == PastSecurity \ {"guardians"}
PastOrchestrator == PastGuardians \ {"orchestrator"}
PastNetworks == {"challenges", "challenge"}

\* The guardians' rows agree with configuration c.
GuardiansShown(c, t) ==
  /\ {g \in DOMAIN t : t[g].nominated} = c.nominated
  /\ {g \in DOMAIN t : t[g].accepted} = c.voted

\* All but the tokens of todo.
TokensDone(n, nets, tokens, todo) ==
  /\ n.id \in DOMAIN nets /\ nets[n.id] = n.row
  /\ \A token \in DOMAIN n.tokens \ todo :
       /\ <<n.id, token>> \in DOMAIN tokens
       /\ tokens[<<n.id, token>>] = safeBigIntToInt64(n.tokens[token])

\* Network n and all of its tokens are stored as the node has them, nothing else.
NetworkShown(n, nets, tokens) == TokensDone(n, nets, tokens, {})

\* The guardians that the part has stored are those it no longer has to.
GuardiansDone(c, t, todo) ==
  /\ todo \subseteq c.nominated \cup c.voted
  /\ \A g \in DOMAIN t : t[g].stamp = "now" => g \in (c.nominated \cup c.voted) \ todo
  /\ \A g \in (c.nominated \cup c.voted) \ todo :
       /\ g \in DOMAIN t /\ t[g].stamp = "now"
       /\ t[g].nominated = (g \in c.nominated) /\ t[g].accepted = (g \in c.voted)

\* The first b networks are shown.
NetworksUpTo(c, nets, tokens, b) ==
  \A j \in DOMAIN c.networks : j <= b => NetworkShown(c.networks[j], nets, tokens)

\* The number of networks before a page.
NetSeen(index) == index * NetPageLen

\* The networks of the page that are left begin after the first b.
NetworkRows(c, nets, b, index, short) ==
  /\ b \in Nat /\ index \in Nat /\ short \in BOOLEAN
  /\ Len(nets) \in Nat \ {0} /\ b + Len(nets) <= Len(c.networks)
  /\ nets \in Seq({c.networks[j] : j \in DOMAIN c.networks})
  /\ \A j \in 1..Len(nets) : nets[j] = c.networks[b + j]
  /\ IF short THEN b + Len(nets) = Len(c.networks) ELSE b + Len(nets) >= NetSeen(index + 1)

\* The challenges of c, but for those still to do, are stored with their ends.
ChallengesDone(c, t, todo, keep) ==
  /\ keep = DOMAIN c.challenges \ todo
  /\ \A m \in keep : /\ m \in DOMAIN t
                     /\ t[m].end = c.challenges[m] + DelayOf(m, c.soft, c.adm) + 1

\* What a clean pass has shown of configuration c at each of its positions.
ConfigFresh(c) ==
  /\ pass.at \in {"admin", "security"} =>
       \A g \in DOMAIN tables.guardians : tables.guardians[g].stamp # "now"
  /\ pass.at \in PastAdmin => tables.admin = <<c.admin>>
  /\ pass.at \in PastSecurity =>
       /\ tables.security = <<[soft |-> c.soft, adm |-> c.adm]>>
       /\ pass.soft = c.soft /\ pass.adm = c.adm
  /\ pass.at = "guardians" =>
       /\ pass.list = <<c.nominated, c.voted>>
       /\ GuardiansDone(c, tables.guardians, pass.todo)
  /\ pass.at \in {"guardians", "orchestrator"} => pass.index = 0
  /\ pass.at \in PastGuardians => GuardiansShown(c, tables.guardians)
  /\ pass.at \in PastOrchestrator => tables.orchestrator = <<c.orchestrator>>
  /\ pass.at = "networks" =>
       /\ pass.index \in Nat
       /\ NetworksUpTo(c, tables.networks, tables.tokens, NetSeen(pass.index))
  /\ pass.at \in {"network", "tokens"} =>
       \E b \in Nat :
         /\ NetworkRows(c, pass.nets, b, pass.index, pass.short)
         /\ NetworksUpTo(c, tables.networks, tables.tokens, b)
         /\ pass.at = "tokens" =>
              TokensDone(c.networks[b + 1], tables.networks, tables.tokens, pass.todo)
  /\ pass.at \in PastNetworks =>
       NetworksUpTo(c, tables.networks, tables.tokens, Len(c.networks))
  /\ pass.at = "challenge" =>
       /\ pass.list = c.challenges /\ pass.todo \subseteq DOMAIN c.challenges
       /\ ChallengesDone(c, tables.challenges, pass.todo, pass.keep)

\* The configuration is still the one that the part began with.
Current == clean /\ version = mark.version

\* The invariant behind the configuration's half of CleanPartRefreshes.
ConfigInv ==
  /\ TablesInv
  /\ pass.at \in ConfigSteps =>
       /\ mark.version \in Nat /\ mark.version <= version
       /\ Current => ConfigFresh(Config[version])

\* An upsert into a table of one row.
LEMMA PutOnly ==
  ASSUME NEW f, NEW v, DOMAIN f \subseteq {1}
  PROVE  Put(f, 1, v) = <<v>>
<1>1. DOMAIN f \cup {1} = {1}
  OBVIOUS
<1>2. Put(f, 1, v) = [x \in {1} |-> v]
  BY <1>1 DEF Put
<1>3. <<v>> = [x \in {1} |-> v]
  OBVIOUS
<1> QED  BY <1>2, <1>3

\* The configuration tables keep their shape.
LEMMA TablesStep == TablesInv /\ [Next]_vars => TablesInv'
<1> SUFFICES ASSUME TablesInv, [Next]_vars PROVE TablesInv'
  OBVIOUS
<1>1. ASSUME tables' = tables PROVE TablesInv'
  BY <1>1 DEF TablesInv
<1>2. CASE Node \/ runBridgeSyncLoop \/ Crash \/ UNCHANGED vars
  BY <1>1, <1>2 DEF Node, NewRequests, Progress, Reconfigure, runBridgeSyncLoop, Crash, vars
<1>3. ASSUME NEW ok \in BOOLEAN, ReadStopHeight(ok) \/ FetchPage(ok) \/ UpsertRequest(ok)
      PROVE  TablesInv'
  BY <1>1, <1>3 DEF ReadStopHeight, FetchPage, UpsertRequest
<1>4. ASSUME ConfigStep PROVE TablesInv'
  <2>1. ASSUME NEW X, \/ tables' = [tables EXCEPT !.networks = X]
                      \/ tables' = [tables EXCEPT !.tokens = X]
                      \/ tables' = [tables EXCEPT !.challenges = X]
        PROVE  TablesInv'
    BY <2>1 DEF TablesInv, NoTables
  <2>2. ASSUME NEW X, DOMAIN X \subseteq {1}, \/ tables' = [tables EXCEPT !.admin = X]
                                              \/ tables' = [tables EXCEPT !.orchestrator = X]
                                              \/ tables' = [tables EXCEPT !.security = X]
        PROVE  TablesInv'
    BY <2>2 DEF TablesInv, NoTables
  <2>3. ASSUME NEW X, tables' = [tables EXCEPT !.guardians = X], \A g \in DOMAIN X : X[g] \in GuardianRows
        PROVE  TablesInv'
    BY <2>3 DEF TablesInv, NoTables
  <2>4. \A v : /\ DOMAIN Put(tables.admin, 1, v) \subseteq {1}
               /\ DOMAIN Put(tables.orchestrator, 1, v) \subseteq {1}
               /\ DOMAIN Put(tables.security, 1, v) \subseteq {1}
    BY DEF TablesInv, Put
  <2>5. ASSUME NEW ok \in BOOLEAN, ReadClock(ok) PROVE TablesInv'
    <3> DEFINE g == tables.guardians
               X == [x \in DOMAIN g |-> [g[x] EXCEPT !.stamp = "older"]]
    <3>1. \A x \in DOMAIN X : X[x] \in GuardianRows
      BY DEF TablesInv, GuardianRows
    <3>2. tables' = tables \/ tables' = [tables EXCEPT !.guardians = X]
      BY <2>5 DEF ReadClock
    <3> HIDE DEF X
    <3> QED  BY <1>1, <2>3, <3>1, <3>2
  <2>6. ASSUME NEW ok \in BOOLEAN, NEW g \in pass.todo, UpdateGuardian(g, ok) PROVE TablesInv'
    <3> DEFINE n == g \in pass.list[1]
               a == g \in pass.list[2]
               X == UpsertGuardian(tables.guardians, g, n, a)
    <3>1. n \in BOOLEAN /\ a \in BOOLEAN
      OBVIOUS
    <3>2. tables' = tables \/ tables' = [tables EXCEPT !.guardians = X]
      BY <2>6 DEF UpdateGuardian
    <3> HIDE DEF n, a
    <3>3. \A x \in DOMAIN X : X[x] \in GuardianRows
      <4> DEFINE r == [nominated |-> n, accepted |-> a, stamp |-> "now"]
      <4>1. r \in GuardianRows
        BY <3>1 DEF GuardianRows
      <4>2. X = Put(tables.guardians, g, r)
        BY DEF UpsertGuardian
      <4> HIDE DEF r, X
      <4>3. \A x \in DOMAIN X : X[x] = r \/ (x \in DOMAIN tables.guardians /\ X[x] = tables.guardians[x])
        BY <4>2 DEF Put
      <4> QED  BY <4>1, <4>3 DEF TablesInv
    <3> HIDE DEF X
    <3> QED  BY <1>1, <2>3, <3>2, <3>3
  <2>7. ASSUME NEW ok \in BOOLEAN, SweepGuardians(ok) PROVE TablesInv'
    <3> DEFINE X == MarkGuardiansAbsent(tables.guardians)
    <3>1. \A x \in DOMAIN X : X[x] \in GuardianRows
      BY DEF MarkGuardiansAbsent, TablesInv, GuardianRows
    <3>2. tables' = tables \/ tables' = [tables EXCEPT !.guardians = X]
      BY <2>7 DEF SweepGuardians
    <3> HIDE DEF X
    <3> QED  BY <1>1, <2>3, <3>1, <3>2
  <2>8. ASSUME NEW ok \in BOOLEAN, UpdateAdmin(ok) \/ UpdateSecurity(ok) \/ UpdateOrchestrator(ok)
        PROVE  TablesInv'
    BY <1>1, <2>2, <2>4, <2>8 DEF UpdateAdmin, UpdateSecurity, UpdateOrchestrator, UpsertAdmin,
       UpsertSecurityInfo, UpsertOrchestratorInfo
  <2>9. ASSUME NEW ok \in BOOLEAN,
               \/ UpdateNetwork(ok) \/ PruneTimeChallenges(ok)
               \/ \E x \in pass.todo : UpdateNetworkToken(x, ok) \/ UpdateTimeChallenge(x, ok)
        PROVE  TablesInv'
    BY <1>1, <2>1, <2>9 DEF UpdateNetwork, PruneTimeChallenges, UpdateNetworkToken, UpdateTimeChallenge
  <2>10. ASSUME NEW ok \in BOOLEAN, FetchNetworks(ok) \/ GetTimeChallengesInfo(ok) PROVE TablesInv'
    BY <1>1, <2>10 DEF FetchNetworks, GetTimeChallengesInfo
  <2>11. CASE GetSecurityInfoFails
    BY <1>1, <2>11 DEF GetSecurityInfoFails
  <2> QED  BY <1>4, <2>5, <2>6, <2>7, <2>8, <2>9, <2>10, <2>11 DEF ConfigStep
<1> QED  BY <1>2, <1>3, <1>4, NextCases

\* Every row of an earlier pass is older than this one.
LEMMA FreshClock ==
  ASSUME PassInv, TablesInv, NEW c, ReadClock(TRUE)
  PROVE  ConfigFresh(c)'
<1> DEFINE g == tables.guardians
           X == [x \in DOMAIN g |-> [g[x] EXCEPT !.stamp = "older"]]
<1>1. \A x \in DOMAIN X : X[x].stamp = "older"
  BY DEF TablesInv, GuardianRows
<1>2. tables' = [tables EXCEPT !.guardians = X] /\ pass'.at = "admin"
  BY DEF ReadClock, At, NoPass
<1> HIDE DEF X
<1>3. tables'.guardians = X
  BY <1>2 DEF TablesInv, NoTables
<1> QED  BY <1>1, <1>2, <1>3 DEF ConfigFresh, PastAdmin, PastSecurity, PastGuardians,
            PastOrchestrator, PastNetworks

\* After the administrator's row.
LEMMA FreshAdmin ==
  ASSUME PassInv, TablesInv, NEW c, c = Config[version], ConfigFresh(c), UpdateAdmin(TRUE)
  PROVE  ConfigFresh(c)'
<1> DEFINE X == Put(tables.admin, 1, c.admin)
<1>1. X = <<c.admin>>
  BY PutOnly DEF TablesInv
<1>2. pass.at = "admin" /\ tables' = [tables EXCEPT !.admin = X] /\ pass'.at = "security"
  BY DEF UpdateAdmin, UpsertAdmin, At, NoPass
<1> HIDE DEF X
<1>3. tables'.admin = X /\ tables'.guardians = tables.guardians
  BY <1>2 DEF TablesInv, NoTables
<1> QED  BY <1>1, <1>2, <1>3 DEF ConfigFresh, PastAdmin, PastSecurity, PastGuardians,
            PastOrchestrator, PastNetworks

\* After the security row; the guardians to write are those of the same answer.
LEMMA FreshSecurity ==
  ASSUME PassInv, TablesInv, NEW c, c = Config[version], ConfigFresh(c), UpdateSecurity(TRUE)
  PROVE  ConfigFresh(c)'
<1> DEFINE v == [soft |-> c.soft, adm |-> c.adm]
           X == Put(tables.security, 1, v)
           all == c.nominated \cup c.voted
<1>1. X = <<v>>
  BY PutOnly DEF TablesInv
<1>2. pass.at = "security" /\ tables' = [tables EXCEPT !.security = X]
  BY DEF UpdateSecurity, UpsertSecurityInfo
<1>3. pass' = [NoPass EXCEPT !.at = "guardians", !.soft = c.soft, !.adm = c.adm,
                 !.list = <<c.nominated, c.voted>>, !.todo = c.nominated \cup c.voted]
  BY DEF UpdateSecurity
<1>4. /\ pass'.at = "guardians" /\ pass'.soft = c.soft /\ pass'.adm = c.adm /\ pass'.index = 0
      /\ pass'.list = <<c.nominated, c.voted>> /\ pass'.todo = all
  BY <1>3 DEF NoPass
<1> HIDE DEF X
<1>5. /\ tables'.security = X /\ tables'.guardians = tables.guardians
      /\ tables'.admin = tables.admin
  BY <1>2 DEF TablesInv, NoTables
<1>6. /\ \A g \in DOMAIN tables.guardians : tables.guardians[g].stamp # "now"
      /\ tables.admin = <<c.admin>>
  BY <1>2 DEF ConfigFresh, PastAdmin, ConfigSteps
<1>7. GuardiansDone(c, tables.guardians, all)
  BY <1>6 DEF GuardiansDone
<1> HIDE DEF all, v
<1> QED  BY <1>1, <1>4, <1>5, <1>6, <1>7 DEF ConfigFresh, PastAdmin, PastSecurity, PastGuardians,
            PastOrchestrator, PastNetworks, v

\* After one guardian of the list.
LEMMA FreshGuardian ==
  ASSUME PassInv, TablesInv, NEW c, c = Config[version], ConfigFresh(c),
         NEW g \in pass.todo, UpdateGuardian(g, TRUE)
  PROVE  ConfigFresh(c)'
<1> DEFINE t == tables.guardians
           r == [nominated |-> g \in c.nominated, accepted |-> g \in c.voted, stamp |-> "now"]
           X == Put(t, g, r)
           todo == pass.todo \ {g}
<1>1. /\ pass.at = "guardians" /\ pass.list = <<c.nominated, c.voted>>
      /\ GuardiansDone(c, t, pass.todo)
  BY DEF UpdateGuardian, ConfigFresh
<1>2. tables' = [tables EXCEPT !.guardians = X]
  <2>1. pass.list[1] = c.nominated /\ pass.list[2] = c.voted
    BY <1>1
  <2> QED  BY <2>1 DEF UpdateGuardian, UpsertGuardian
<1>3. pass' = [pass EXCEPT !.todo = todo]
  BY DEF UpdateGuardian
<1> HIDE DEF todo
<1>4. /\ pass'.at = "guardians" /\ pass'.soft = pass.soft /\ pass'.adm = pass.adm
      /\ pass'.index = pass.index /\ pass'.list = pass.list /\ pass'.todo = todo
  BY <1>1, <1>3 DEF PassInv, NoPass
<1>5. r.stamp = "now" /\ r.nominated = (g \in c.nominated) /\ r.accepted = (g \in c.voted)
  OBVIOUS
<1> HIDE DEF r, X
<1>6. /\ DOMAIN X = DOMAIN t \cup {g} /\ X[g] = r
      /\ \A x \in DOMAIN t : x # g => X[x] = t[x]
  BY DEF X, Put
<1>7. /\ tables'.guardians = X /\ tables'.admin = tables.admin
      /\ tables'.security = tables.security
  BY <1>2 DEF TablesInv, NoTables
<1>8. GuardiansDone(c, X, todo)
  BY <1>1, <1>5, <1>6 DEF GuardiansDone, todo
<1> QED  BY <1>1, <1>4, <1>7, <1>8 DEF ConfigFresh, PastAdmin, PastSecurity, PastGuardians,
            PastOrchestrator, PastNetworks, ConfigSteps

\* The sweep clears exactly the guardians that the pass did not write.
LEMMA FreshSweep ==
  ASSUME PassInv, TablesInv, NEW c, c = Config[version], ConfigFresh(c), SweepGuardians(TRUE)
  PROVE  ConfigFresh(c)'
<1> DEFINE t == tables.guardians
           X == MarkGuardiansAbsent(t)
<1>1. pass.at = "guardians" /\ pass.todo = {} /\ GuardiansDone(c, t, {})
  BY DEF SweepGuardians, ConfigFresh
<1>2. tables' = [tables EXCEPT !.guardians = X]
  BY DEF SweepGuardians
<1>3. pass' = [pass EXCEPT !.at = "orchestrator", !.list = <<>>]
  BY DEF SweepGuardians
<1>4. /\ pass'.at = "orchestrator" /\ pass'.soft = pass.soft /\ pass'.adm = pass.adm
      /\ pass'.index = pass.index
  BY <1>3 DEF PassInv, NoPass
<1>5. \A g \in DOMAIN t : t[g] \in GuardianRows
  BY DEF TablesInv
<1>6. /\ DOMAIN X = DOMAIN t
      /\ \A g \in DOMAIN t : t[g].stamp = "now" => X[g] = t[g]
      /\ \A g \in DOMAIN t : t[g].stamp # "now" => X[g].nominated = FALSE /\ X[g].accepted = FALSE
  BY <1>5 DEF MarkGuardiansAbsent, GuardianRows
<1> HIDE DEF X
<1>7. /\ tables'.guardians = X /\ tables'.admin = tables.admin
      /\ tables'.security = tables.security
  BY <1>2 DEF TablesInv, NoTables
<1>8. GuardiansShown(c, X)
  <2>1. \A g \in c.nominated \cup c.voted :
          /\ g \in DOMAIN X /\ X[g].nominated = (g \in c.nominated) /\ X[g].accepted = (g \in c.voted)
    BY <1>1, <1>6 DEF GuardiansDone
  <2>2. \A g \in DOMAIN X : g \notin c.nominated \cup c.voted => ~X[g].nominated /\ ~X[g].accepted
    BY <1>1, <1>6 DEF GuardiansDone
  <2> QED  BY <2>1, <2>2 DEF GuardiansShown
<1> QED  BY <1>1, <1>4, <1>7, <1>8 DEF ConfigFresh, PastAdmin, PastSecurity, PastGuardians,
            PastOrchestrator, PastNetworks, ConfigSteps

\* The networks before a page, by its index.
LEMMA NetSeenFacts ==
  ASSUME NEW i \in Nat
  PROVE  /\ NetSeen(0) = 0 /\ NetSeen(i) \in Nat
         /\ NetSeen(i + 1) = NetSeen(i) + NetPageLen
<1> DEFINE p == NetPageLen
<1>1. p \in Nat \ {0}
  BY BridgeAssumption
<1> HIDE DEF p
<1>2. 0 * p = 0 /\ i * p \in Nat /\ (i + 1) * p = i * p + p
  BY <1>1
<1> QED  BY <1>2 DEF NetSeen, p

\* After the orchestrator's row; the networks begin at the first page.
LEMMA FreshOrchestrator ==
  ASSUME PassInv, TablesInv, NEW c, c = Config[version], ConfigFresh(c), UpdateOrchestrator(TRUE),
         DOMAIN c.networks \subseteq Nat \ {0}
  PROVE  ConfigFresh(c)'
<1> DEFINE X == Put(tables.orchestrator, 1, c.orchestrator)
<1>1. X = <<c.orchestrator>>
  BY PutOnly DEF TablesInv
<1>2. pass.at = "orchestrator" /\ tables' = [tables EXCEPT !.orchestrator = X]
  BY DEF UpdateOrchestrator, UpsertOrchestratorInfo
<1>3. pass' = [pass EXCEPT !.at = "networks"]
  BY DEF UpdateOrchestrator
<1>4. /\ pass'.at = "networks" /\ pass'.soft = pass.soft /\ pass'.adm = pass.adm
      /\ pass'.index = pass.index
  BY <1>3 DEF PassInv, NoPass
<1> HIDE DEF X
<1>5. /\ tables'.guardians = tables.guardians /\ tables'.admin = tables.admin
      /\ tables'.security = tables.security /\ tables'.orchestrator = X
  BY <1>2 DEF TablesInv, NoTables
<1>6. NetSeen(0) = 0
  BY NetSeenFacts
<1>7. \A nets, tokens : NetworksUpTo(c, nets, tokens, 0)
  BY DEF NetworksUpTo
<1> QED  BY <1>1, <1>2, <1>4, <1>5, <1>6, <1>7 DEF ConfigFresh, PastAdmin, PastSecurity,
            PastGuardians, PastOrchestrator, PastNetworks, ConfigSteps

\* What the node lists.
Networks(c) ==
  /\ c.networks \in Seq({c.networks[j] : j \in DOMAIN c.networks})
  /\ Len(c.networks) \in Nat /\ DOMAIN c.networks = 1..Len(c.networks)
  /\ \A i, j \in DOMAIN c.networks : c.networks[i].id = c.networks[j].id => i = j

\* The networks of every version of the configuration are as ConfigAssumption says.
LEMMA NodeLists ==
  ASSUME NodeInv, NEW c, c = Config[version]
  PROVE  Networks(c)
<1>1. version \in DOMAIN Config
  BY ConfigAssumption DEF NodeInv
<1>2. /\ c.networks \in Seq({c.networks[j] : j \in DOMAIN c.networks})
      /\ \A i, j \in DOMAIN c.networks : c.networks[i].id = c.networks[j].id => i = j
  BY <1>1, ConfigAssumption
<1>3. Len(c.networks) \in Nat /\ DOMAIN c.networks = 1..Len(c.networks)
  BY <1>2, LenProperties
<1> QED  BY <1>2, <1>3 DEF Networks

\* A page of the node's networks is the stretch of them its index says.
LEMMA NetworkPage ==
  ASSUME NEW c, c = Config[version], Networks(c), NEW index \in Nat
  PROVE  LET page == GetAllNetworks(index)
         IN  /\ page = <<>> => Len(c.networks) <= NetSeen(index)
             /\ page # <<>> =>
                  NetworkRows(c, page, NetSeen(index), index, Len(page) < NetPageLen)
<1> DEFINE all == c.networks
           S == {all[j] : j \in DOMAIN all}
           n == Len(all)
           first == NetSeen(index)
           last == NetSeen(index + 1)
           top == IF last < n THEN last ELSE n
           page == GetAllNetworks(index)
<1>1. all \in Seq(S) /\ n \in Nat /\ DOMAIN all = 1..n
  BY DEF Networks
<1>2. first \in Nat /\ last = first + NetPageLen /\ NetPageLen \in Nat \ {0}
  BY NetSeenFacts, BridgeAssumption
<1>3. page = SubSeq(all, first + 1, top)
  BY DEF GetAllNetworks, NetSeen
<1> HIDE DEF S, n, first, last, page, all
<1>4. top \in Nat /\ top <= n /\ top <= last /\ (top = last \/ top = n)
  BY <1>1, <1>2
<1> HIDE DEF top
<1>5. CASE first >= n
  <2>1. first + 1 > top
    BY <1>1, <1>2, <1>4, <1>5
  <2>2. page = <<>>
    BY <1>1, <1>2, <1>3, <1>4, <2>1
  <2> QED  BY <1>1, <1>2, <1>5, <2>2 DEF page, n, first, all
<1>6. CASE first < n
  <2>1. first + 1 <= top /\ first + 1 \in 1..(n + 1) /\ top \in (first + 1)..n
    BY <1>1, <1>2, <1>4, <1>6
  <2>2. /\ page \in Seq(S) /\ Len(page) = top - first
        /\ \A j \in 1..(top - first) : page[j] = all[first + j]
    <3>1. /\ page \in Seq(S)
          /\ Len(page) = top - (first + 1) + 1
          /\ \A j \in 1..(top - (first + 1) + 1) : page[j] = all[(first + 1) + j - 1]
      <4>1. \A i \in (first + 1)..top : i \in 1..n /\ all[i] \in S
        BY <1>1, <1>2, <1>4
      <4>2. page = [j \in 1..(top - (first + 1) + 1) |-> all[(first + 1) + j - 1]]
        BY <1>1, <1>2, <1>3, <1>4, <2>1
      <4> QED  BY <1>2, <1>4, <2>1, <4>1, <4>2
    <3>2. top - (first + 1) + 1 = top - first /\ \A j \in Nat : (first + 1) + j - 1 = first + j
      BY <1>2, <1>4
    <3> QED  BY <3>1, <3>2
  <2>3. Len(page) \in Nat \ {0} /\ first + Len(page) <= n /\ page # <<>>
    BY <1>1, <1>2, <1>4, <2>1, <2>2
  <2>4. IF Len(page) < NetPageLen THEN first + Len(page) = n ELSE first + Len(page) >= last
    BY <1>1, <1>2, <1>4, <2>1, <2>2
  <2>5. NetworkRows(c, page, first, index, Len(page) < NetPageLen)
    BY <1>2, <2>2, <2>3, <2>4 DEF NetworkRows, S, n, last, all
  <2> QED  BY <2>3, <2>5 DEF page, first
<1> QED  BY <1>1, <1>2, <1>5, <1>6

\* Once all networks are stored, the pass goes on to the challenges.
LEMMA ChallengesNext ==
  ASSUME PassInv, NEW c, ConfigFresh(c), pass.at \in {"networks", "network", "tokens"},
         tables'.admin = tables.admin, tables'.security = tables.security,
         tables'.guardians = tables.guardians, tables'.orchestrator = tables.orchestrator,
         pass' = ToChallenges,
         NetworksUpTo(c, tables'.networks, tables'.tokens, Len(c.networks))
  PROVE  ConfigFresh(c)'
<1>1. pass'.at = "challenges" /\ pass'.soft = pass.soft /\ pass'.adm = pass.adm
  BY DEF ToChallenges, PassInv, NoPass
<1> QED  BY <1>1 DEF ConfigFresh, PastAdmin, PastSecurity,
            PastGuardians, PastOrchestrator, PastNetworks, ConfigSteps

\* After a page of networks was fetched, or an empty one ended them.
LEMMA FreshFetchNetworks ==
  ASSUME PassInv, TablesInv, NEW c, c = Config[version], Networks(c), ConfigFresh(c),
         FetchNetworks(TRUE)
  PROVE  ConfigFresh(c)'
<1> DEFINE p == GetAllNetworks(pass.index)
<1>1. /\ pass.at = "networks" /\ tables' = tables
      /\ pass' = IF p = <<>> THEN ToChallenges
                 ELSE [pass EXCEPT !.at = "network", !.nets = p, !.short = Len(p) < NetPageLen]
  BY DEF FetchNetworks
<1>2. pass.index \in Nat /\ NetworksUpTo(c, tables.networks, tables.tokens, NetSeen(pass.index))
  BY <1>1 DEF ConfigFresh
<1>3. /\ p = <<>> => Len(c.networks) <= NetSeen(pass.index)
      /\ p # <<>> => NetworkRows(c, p, NetSeen(pass.index), pass.index, Len(p) < NetPageLen)
  BY <1>2, NetworkPage
<1>4. NetSeen(pass.index) \in Nat
  BY <1>2, NetSeenFacts
<1> HIDE DEF p
<1>5. CASE p = <<>>
  <2>1. \A j \in DOMAIN c.networks : j <= NetSeen(pass.index)
    BY <1>3, <1>4, <1>5 DEF Networks
  <2>2. NetworksUpTo(c, tables'.networks, tables'.tokens, Len(c.networks))
    BY <1>1, <1>2, <2>1 DEF NetworksUpTo
  <2> QED  BY <1>1, <1>5, <2>2, ChallengesNext
<1>6. CASE p # <<>>
  <2>1. pass' = [pass EXCEPT !.at = "network", !.nets = p, !.short = Len(p) < NetPageLen]
    BY <1>1, <1>6
  <2>2. /\ pass'.at = "network" /\ pass'.nets = p /\ pass'.short = (Len(p) < NetPageLen)
        /\ pass'.index = pass.index /\ pass'.soft = pass.soft /\ pass'.adm = pass.adm
    BY <2>1 DEF PassInv, NoPass
  <2>3. \E b \in Nat :
         /\ NetworkRows(c, pass'.nets, b, pass'.index, pass'.short)
         /\ NetworksUpTo(c, tables'.networks, tables'.tokens, b)
    BY <1>1, <1>2, <1>3, <1>4, <1>6, <2>2
  <2> QED  BY <1>1, <2>2, <2>3 DEF ConfigFresh, PastAdmin, PastSecurity,
              PastGuardians, PastOrchestrator, PastNetworks, ConfigSteps
<1> QED  BY <1>5, <1>6

\* The rest of a page of networks.
LEMMA NetworkTail ==
  ASSUME NEW c, NEW nets, NEW b, NEW index, NEW short, NetworkRows(c, nets, b, index, short),
         Len(nets) > 1
  PROVE  NetworkRows(c, Tail(nets), b + 1, index, short)
<1> DEFINE S == {c.networks[j] : j \in DOMAIN c.networks}
           t == Tail(nets)
           n == Len(nets)
           z == Len(c.networks)
<1>1. /\ b \in Nat /\ index \in Nat /\ short \in BOOLEAN /\ n \in Nat \ {0} /\ b + n <= z
      /\ nets \in Seq(S) /\ \A j \in 1..n : nets[j] = c.networks[b + j]
      /\ IF short THEN b + n = z ELSE b + n >= NetSeen(index + 1)
  BY DEF NetworkRows
<1> HIDE DEF S
<1>2. t \in Seq(S) /\ Len(t) = n - 1 /\ \A j \in 1..Len(t) : t[j] = nets[j + 1]
  <2>1. nets # <<>>
    BY <1>1
  <2> QED  BY <1>1, <2>1, HeadTailProperties
<1> HIDE DEF t, n, z
<1>3. n > 1
  BY DEF n
<1>4. Len(t) \in Nat \ {0} /\ (b + 1) + Len(t) = b + n /\ b + 1 \in Nat
  BY <1>1, <1>2, <1>3
<1>5. \A j \in 1..Len(t) : t[j] = c.networks[(b + 1) + j]
  <2> TAKE j \in 1..Len(t)
  <2>1. j + 1 \in 1..n /\ b + (j + 1) = (b + 1) + j
    BY <1>1, <1>2, <1>3
  <2> QED  BY <1>1, <1>2, <2>1
<1> QED  BY <1>1, <1>2, <1>4, <1>5 DEF NetworkRows, S, t, z

\* After a network of the page, the next one, the next page, or the next part.
LEMMA FreshNetworkDone ==
  ASSUME PassInv, NEW c, Networks(c), ConfigFresh(c), pass.at \in {"network", "tokens"},
         tables'.admin = tables.admin, tables'.security = tables.security,
         tables'.guardians = tables.guardians, tables'.orchestrator = tables.orchestrator,
         NEW b \in Nat, NetworkRows(c, pass.nets, b, pass.index, pass.short),
         pass' = NetworkDone,
         NetworksUpTo(c, tables'.networks, tables'.tokens, b + 1)
  PROVE  ConfigFresh(c)'
<1> DEFINE n == Len(pass.nets)
           z == Len(c.networks)
<1>1. /\ pass.index \in Nat /\ pass.short \in BOOLEAN /\ n \in Nat \ {0} /\ z \in Nat
      /\ IF pass.short THEN b + n = z ELSE b + n >= NetSeen(pass.index + 1)
  BY DEF NetworkRows, Networks
<1>2. CASE n > 1
  <2> DEFINE t == Tail(pass.nets)
  <2>1. NetworkRows(c, t, b + 1, pass.index, pass.short) /\ b + 1 \in Nat
    BY <1>2, NetworkTail
  <2>2. pass' = [pass EXCEPT !.at = "network", !.nets = t, !.todo = {}]
    BY <1>2 DEF NetworkDone
  <2> HIDE DEF t
  <2>3. /\ pass'.at = "network" /\ pass'.nets = t /\ pass'.short = pass.short
        /\ pass'.index = pass.index /\ pass'.soft = pass.soft /\ pass'.adm = pass.adm
    BY <2>2 DEF PassInv, NoPass
  <2>4. \E d \in Nat :
         /\ NetworkRows(c, pass'.nets, d, pass'.index, pass'.short)
         /\ NetworksUpTo(c, tables'.networks, tables'.tokens, d)
    BY <2>1, <2>3
  <2> QED  BY <2>3, <2>4 DEF ConfigFresh, PastAdmin, PastSecurity,
              PastGuardians, PastOrchestrator, PastNetworks, ConfigSteps
<1>3. CASE ~(n > 1) /\ pass.short
  <2>1. pass' = ToChallenges
    BY <1>3 DEF NetworkDone
  <2>2. b + 1 = z
    <3> HIDE DEF n, z
    <3>1. n = 1
      BY <1>1, <1>3
    <3> QED  BY <1>1, <1>3, <3>1
  <2> QED  BY <2>1, <2>2, ChallengesNext
<1>4. CASE ~(n > 1) /\ ~pass.short
  <2>1. pass' = [pass EXCEPT !.at = "networks", !.nets = <<>>, !.index = pass.index + 1, !.todo = {}]
    BY <1>4 DEF NetworkDone
  <2>2. /\ pass'.at = "networks" /\ pass'.index = pass.index + 1
        /\ pass'.soft = pass.soft /\ pass'.adm = pass.adm
    BY <2>1 DEF PassInv, NoPass
  <2>3. NetSeen(pass.index + 1) <= b + 1 /\ NetSeen(pass.index + 1) \in Nat /\ pass.index + 1 \in Nat
    <3>1. pass.index + 1 \in Nat
      BY <1>1
    <3>2. NetSeen(pass.index + 1) \in Nat
      BY <3>1, NetSeenFacts
    <3> HIDE DEF n, z
    <3>3. n = 1
      BY <1>1, <1>4
    <3> QED  BY <1>1, <1>4, <3>1, <3>2, <3>3
  <2>4. \A j \in DOMAIN c.networks : j <= NetSeen(pass.index + 1) => j <= b + 1
    BY <2>3 DEF Networks
  <2>5. NetworksUpTo(c, tables'.networks, tables'.tokens, NetSeen(pass.index + 1))
    BY <2>4 DEF NetworksUpTo
  <2> QED  BY <2>2, <2>3, <2>5 DEF ConfigFresh, PastAdmin, PastSecurity,
              PastGuardians, PastOrchestrator, PastNetworks, ConfigSteps
<1> QED  BY <1>1, <1>2, <1>3, <1>4

\* The first network of the rest of the page is the one after those shown.
LEMMA HeadNetwork ==
  ASSUME NEW c, Networks(c), NEW nets, NEW b, NEW index, NEW short,
         NetworkRows(c, nets, b, index, short)
  PROVE  /\ Head(nets) = c.networks[b + 1] /\ b + 1 \in DOMAIN c.networks
         /\ \A j \in DOMAIN c.networks : j <= b => c.networks[j].id # c.networks[b + 1].id
         /\ \A j \in DOMAIN c.networks : j <= b + 1 => j <= b \/ j = b + 1
<1> DEFINE n == Len(nets)
           z == Len(c.networks)
<1>1. /\ b \in Nat /\ n \in Nat \ {0} /\ b + n <= z /\ z \in Nat /\ DOMAIN c.networks = 1..z
      /\ \A j \in 1..n : nets[j] = c.networks[b + j]
      /\ nets \in Seq({c.networks[j] : j \in DOMAIN c.networks})
  BY DEF NetworkRows, Networks
<1> HIDE DEF z
<1>2. nets # <<>> /\ Head(nets) = nets[1]
  BY <1>1
<1> HIDE DEF n
<1>3. 1 \in 1..n /\ b + 1 \in 1..z
  BY <1>1
<1>4. Head(nets) = c.networks[b + 1]
  BY <1>1, <1>2, <1>3
<1>5. \A j \in 1..z : /\ j <= b => j # b + 1
                      /\ j <= b + 1 => j <= b \/ j = b + 1
  BY <1>1
<1> QED  BY <1>1, <1>3, <1>4, <1>5 DEF Networks

\* After one network's row, and its tokens' when it has none.
LEMMA FreshNetwork ==
  ASSUME PassInv, TablesInv, NEW c, c = Config[version], Networks(c), ConfigFresh(c),
         UpdateNetwork(TRUE)
  PROVE  ConfigFresh(c)'
<1> DEFINE nt == tables.networks
           tt == tables.tokens
           n == Head(pass.nets)
           X == Put(nt, n.id, n.row)
<1>1. /\ pass.at = "network" /\ tables' = [tables EXCEPT !.networks = X]
      /\ pass' = IF DOMAIN n.tokens = {} THEN NetworkDone
                 ELSE [pass EXCEPT !.at = "tokens", !.todo = DOMAIN n.tokens]
  BY DEF UpdateNetwork, UpsertNetwork
<1>2. PICK b \in Nat : /\ NetworkRows(c, pass.nets, b, pass.index, pass.short)
                       /\ NetworksUpTo(c, nt, tt, b)
  BY <1>1 DEF ConfigFresh
<1>3. /\ n = c.networks[b + 1] /\ b + 1 \in DOMAIN c.networks
      /\ \A j \in DOMAIN c.networks : j <= b => c.networks[j].id # n.id
      /\ \A j \in DOMAIN c.networks : j <= b + 1 => j <= b \/ j = b + 1
  BY <1>2, HeadNetwork
<1> HIDE DEF n, X
<1>4. /\ tables'.admin = tables.admin /\ tables'.security = tables.security
      /\ tables'.guardians = tables.guardians /\ tables'.orchestrator = tables.orchestrator
      /\ tables'.networks = X /\ tables'.tokens = tt
  BY <1>1 DEF TablesInv, NoTables
<1>5. n.id \in DOMAIN X /\ X[n.id] = n.row /\ DOMAIN nt \subseteq DOMAIN X
      /\ \A x \in DOMAIN nt : x # n.id => X[x] = nt[x]
  BY DEF X, Put
<1>6. NetworksUpTo(c, X, tt, b)
  <2> SUFFICES ASSUME NEW j \in DOMAIN c.networks, j <= b
               PROVE  TokensDone(c.networks[j], X, tt, {})
    BY DEF NetworksUpTo, NetworkShown
  <2>1. TokensDone(c.networks[j], nt, tt, {}) /\ c.networks[j].id # n.id
    BY <1>2, <1>3 DEF NetworksUpTo, NetworkShown
  <2> QED  BY <1>5, <2>1 DEF TokensDone
<1>7. TokensDone(n, X, tt, DOMAIN n.tokens)
  BY <1>5 DEF TokensDone
<1>8. CASE DOMAIN n.tokens = {}
  <2>1. NetworkShown(n, X, tt)
    BY <1>7, <1>8 DEF NetworkShown
  <2>2. NetworksUpTo(c, X, tt, b + 1)
    BY <1>3, <1>6, <2>1 DEF NetworksUpTo
  <2>3. pass' = NetworkDone
    BY <1>1, <1>8
  <2> QED  BY <1>1, <1>2, <1>4, <2>2, <2>3, FreshNetworkDone
<1>9. CASE DOMAIN n.tokens # {}
  <2> DEFINE all == DOMAIN n.tokens
  <2>1. pass' = [pass EXCEPT !.at = "tokens", !.todo = all]
    BY <1>1, <1>9
  <2> HIDE DEF all
  <2>2. /\ pass'.at = "tokens" /\ pass'.nets = pass.nets /\ pass'.short = pass.short
        /\ pass'.index = pass.index /\ pass'.soft = pass.soft /\ pass'.adm = pass.adm
        /\ pass'.todo = all
    BY <2>1 DEF PassInv, NoPass
  <2>3. \E d \in Nat :
         /\ NetworkRows(c, pass'.nets, d, pass'.index, pass'.short)
         /\ NetworksUpTo(c, tables'.networks, tables'.tokens, d)
         /\ TokensDone(c.networks[d + 1], tables'.networks, tables'.tokens, pass'.todo)
    BY <1>2, <1>3, <1>4, <1>6, <1>7, <2>2 DEF all
  <2> QED  BY <1>1, <1>4, <2>2, <2>3 DEF ConfigFresh, PastAdmin, PastSecurity,
              PastGuardians, PastOrchestrator, PastNetworks, ConfigSteps
<1> QED  BY <1>8, <1>9

\* After one token of a network, and the sweep of the others after the last.
LEMMA FreshToken ==
  ASSUME PassInv, TablesInv, NEW c, c = Config[version], Networks(c), ConfigFresh(c),
         NEW token \in pass.todo, UpdateNetworkToken(token, TRUE)
  PROVE  ConfigFresh(c)'
<1> DEFINE nt == tables.networks
           tt == tables.tokens
           n == Head(pass.nets)
           v == safeBigIntToInt64(n.tokens[token])
           key == <<n.id, token>>
           X == Put(tt, key, v)
           todo == pass.todo \ {token}
<1>1. /\ pass.at = "tokens" /\ tables' = [tables EXCEPT !.tokens = X]
      /\ pass' = IF pass.todo = {token} THEN NetworkDone ELSE [pass EXCEPT !.todo = todo]
  BY DEF UpdateNetworkToken, UpsertNetworkToken
<1>2. PICK b \in Nat : /\ NetworkRows(c, pass.nets, b, pass.index, pass.short)
                       /\ NetworksUpTo(c, nt, tt, b)
                       /\ TokensDone(c.networks[b + 1], nt, tt, pass.todo)
  BY <1>1 DEF ConfigFresh
<1>3. /\ n = c.networks[b + 1] /\ b + 1 \in DOMAIN c.networks
      /\ \A j \in DOMAIN c.networks : j <= b => c.networks[j].id # n.id
      /\ \A j \in DOMAIN c.networks : j <= b + 1 => j <= b \/ j = b + 1
  BY <1>2, HeadNetwork
<1> HIDE DEF n
<1>4. /\ \A id, x : id # n.id => <<id, x>> # key
      /\ \A x : x # token => <<n.id, x>> # key
  OBVIOUS
<1> HIDE DEF key, X, v, todo
<1>5. /\ tables'.admin = tables.admin /\ tables'.security = tables.security
      /\ tables'.guardians = tables.guardians /\ tables'.orchestrator = tables.orchestrator
      /\ tables'.networks = nt /\ tables'.tokens = X
  BY <1>1 DEF TablesInv, NoTables
<1>6. key \in DOMAIN X /\ X[key] = v /\ DOMAIN tt \subseteq DOMAIN X
      /\ \A x \in DOMAIN tt : x # key => X[x] = tt[x]
  BY DEF X, Put
<1>7. NetworksUpTo(c, nt, X, b)
  <2> SUFFICES ASSUME NEW j \in DOMAIN c.networks, j <= b
               PROVE  TokensDone(c.networks[j], nt, X, {})
    BY DEF NetworksUpTo, NetworkShown
  <2>1. TokensDone(c.networks[j], nt, tt, {}) /\ c.networks[j].id # n.id
    BY <1>2, <1>3 DEF NetworksUpTo, NetworkShown
  <2> QED  BY <1>4, <1>6, <2>1 DEF TokensDone
<1>8. TokensDone(n, nt, X, todo)
  <2>1. TokensDone(n, nt, tt, pass.todo)
    BY <1>2, <1>3
  <2>2. ASSUME NEW x \in DOMAIN n.tokens \ todo
        PROVE  <<n.id, x>> \in DOMAIN X /\ X[<<n.id, x>>] = safeBigIntToInt64(n.tokens[x])
    <3>1. CASE x = token
      BY <1>6, <3>1 DEF key, v
    <3>2. CASE x # token
      <4>1. /\ <<n.id, x>> \in DOMAIN tt /\ tt[<<n.id, x>>] = safeBigIntToInt64(n.tokens[x])
        BY <2>1, <2>2, <3>2 DEF TokensDone, todo
      <4>2. <<n.id, x>> # key
        BY <1>4, <3>2
      <4> QED  BY <1>6, <4>1, <4>2
    <3> QED  BY <3>1, <3>2
  <2> QED  BY <2>1, <2>2 DEF TokensDone
<1>9. CASE pass.todo = {token}
  <2>1. todo = {}
    BY <1>9 DEF todo
  <2>2. NetworkShown(n, nt, X)
    BY <1>8, <2>1 DEF NetworkShown
  <2>3. NetworksUpTo(c, nt, X, b + 1)
    BY <1>3, <1>7, <2>2 DEF NetworksUpTo
  <2>4. pass' = NetworkDone
    BY <1>1, <1>9
  <2> QED  BY <1>1, <1>2, <1>5, <2>3, <2>4, FreshNetworkDone
<1>10. CASE pass.todo # {token}
  <2>1. pass' = [pass EXCEPT !.todo = todo]
    BY <1>1, <1>10
  <2>2. /\ pass'.at = "tokens" /\ pass'.nets = pass.nets /\ pass'.short = pass.short
        /\ pass'.index = pass.index /\ pass'.soft = pass.soft /\ pass'.adm = pass.adm
        /\ pass'.todo = todo
    BY <1>1, <2>1 DEF PassInv, NoPass
  <2>3. \E d \in Nat :
         /\ NetworkRows(c, pass'.nets, d, pass'.index, pass'.short)
         /\ NetworksUpTo(c, tables'.networks, tables'.tokens, d)
         /\ TokensDone(c.networks[d + 1], tables'.networks, tables'.tokens, pass'.todo)
    BY <1>2, <1>3, <1>5, <1>7, <1>8, <2>2
  <2> QED  BY <1>1, <1>5, <2>2, <2>3 DEF ConfigFresh, PastAdmin, PastSecurity,
              PastGuardians, PastOrchestrator, PastNetworks, ConfigSteps
<1> QED  BY <1>9, <1>10

\* After the challenges were fetched.
LEMMA FreshChallenges ==
  ASSUME PassInv, TablesInv, NEW c, c = Config[version], ConfigFresh(c), pass.keep = {},
         GetTimeChallengesInfo(TRUE)
  PROVE  ConfigFresh(c)'
<1> DEFINE all == DOMAIN c.challenges
<1>1. /\ pass.at = "challenges" /\ tables' = tables
      /\ pass' = [pass EXCEPT !.at = "challenge", !.list = c.challenges, !.todo = all]
  BY DEF GetTimeChallengesInfo
<1> HIDE DEF all
<1>2. /\ pass'.at = "challenge" /\ pass'.list = c.challenges /\ pass'.todo = all
      /\ pass'.keep = pass.keep /\ pass'.soft = pass.soft /\ pass'.adm = pass.adm
  BY <1>1 DEF PassInv, NoPass
<1>3. ChallengesDone(c, tables.challenges, all, {})
  BY DEF ChallengesDone, all
<1> QED  BY <1>1, <1>2, <1>3 DEF ConfigFresh, PastAdmin, PastSecurity,
            PastGuardians, PastOrchestrator, PastNetworks, ConfigSteps, all

\* After one challenge of the list, and the end of the part after the last.
LEMMA FreshChallenge ==
  ASSUME PassInv, TablesInv, NEW c, c = Config[version], ConfigFresh(c),
         NEW m \in pass.todo, UpdateTimeChallenge(m, TRUE)
  PROVE  ConfigFresh(c)'
<1> DEFINE t == tables.challenges
           d == DelayOf(m, c.soft, c.adm)
           s == c.challenges[m]
           row == [start |-> s, delay |-> d, end |-> s + d + 1]
           X == Put(t, m, row)
           todo == pass.todo \ {m}
           keep == pass.keep \cup {m}
<1>1. /\ pass.at = "challenge" /\ pass.list = c.challenges /\ pass.todo \subseteq DOMAIN c.challenges
      /\ ChallengesDone(c, t, pass.todo, pass.keep) /\ pass.soft = c.soft /\ pass.adm = c.adm
  BY DEF UpdateTimeChallenge, ConfigFresh, PastSecurity, PastAdmin, ConfigSteps
<1>2. /\ tables' = [tables EXCEPT !.challenges = X]
      /\ pass' = [pass EXCEPT !.todo = todo, !.keep = keep]
  BY <1>1 DEF UpdateTimeChallenge, UpsertTimeChallenge
<1>3. row.end = s + d + 1
  OBVIOUS
<1> HIDE DEF todo, keep, X, row
<1>4. /\ pass'.at = "challenge" /\ pass'.list = pass.list /\ pass'.todo = todo
      /\ pass'.keep = keep /\ pass'.soft = pass.soft /\ pass'.adm = pass.adm
  BY <1>1, <1>2 DEF PassInv, NoPass
<1>5. /\ tables'.admin = tables.admin /\ tables'.security = tables.security
      /\ tables'.guardians = tables.guardians /\ tables'.orchestrator = tables.orchestrator
      /\ tables'.networks = tables.networks /\ tables'.tokens = tables.tokens
      /\ tables'.challenges = X
  BY <1>2 DEF TablesInv, NoTables
<1>6. m \in DOMAIN X /\ X[m] = row /\ DOMAIN t \subseteq DOMAIN X
      /\ \A x \in DOMAIN t : x # m => X[x] = t[x]
  BY DEF X, Put
<1>7. ChallengesDone(c, X, todo, keep)
  <2>1. keep = DOMAIN c.challenges \ todo
    BY <1>1 DEF keep, todo, ChallengesDone
  <2>2. \A x \in keep : x \in DOMAIN X /\ X[x].end = c.challenges[x] + DelayOf(x, c.soft, c.adm) + 1
    BY <1>1, <1>3, <1>6 DEF keep, ChallengesDone
  <2> QED  BY <2>1, <2>2 DEF ChallengesDone
<1>8. todo \subseteq DOMAIN c.challenges
  BY <1>1 DEF todo
<1> QED  BY <1>1, <1>4, <1>5, <1>7, <1>8 DEF ConfigFresh, PastAdmin, PastSecurity,
            PastGuardians, PastOrchestrator, PastNetworks, ConfigSteps

\* A clean part ends with the configuration shown.
LEMMA FreshPrune ==
  ASSUME PassInv, TablesInv, NEW c, c = Config[version], Networks(c), ConfigFresh(c),
         PruneTimeChallenges(TRUE)
  PROVE  ConfigShown(c, tables')
<1> DEFINE t == tables.challenges
           X == DeleteTimeChallengesNotIn(t, pass.keep)
<1>1. pass.at = "challenge" /\ pass.todo = {} /\ tables' = [tables EXCEPT !.challenges = X]
  BY DEF PruneTimeChallenges
<1>2. /\ tables.admin = <<c.admin>> /\ tables.orchestrator = <<c.orchestrator>>
      /\ tables.security = <<[soft |-> c.soft, adm |-> c.adm]>>
      /\ GuardiansShown(c, tables.guardians)
      /\ NetworksUpTo(c, tables.networks, tables.tokens, Len(c.networks))
      /\ ChallengesDone(c, t, {}, pass.keep)
  BY <1>1 DEF ConfigFresh, PastAdmin, PastSecurity, PastGuardians, PastOrchestrator,
              PastNetworks, ConfigSteps
<1>3. DOMAIN X = DOMAIN t \cap pass.keep /\ \A m \in DOMAIN X : X[m] = t[m]
  BY DEF DeleteTimeChallengesNotIn
<1> HIDE DEF X
<1>4. /\ tables'.admin = tables.admin /\ tables'.security = tables.security
      /\ tables'.guardians = tables.guardians /\ tables'.orchestrator = tables.orchestrator
      /\ tables'.networks = tables.networks /\ tables'.tokens = tables.tokens
      /\ tables'.challenges = X
  BY <1>1 DEF TablesInv, NoTables
<1>5. /\ DOMAIN X = DOMAIN c.challenges
      /\ \A m \in DOMAIN c.challenges :
           X[m].end = c.challenges[m] + DelayOf(m, c.soft, c.adm) + 1
  BY <1>2, <1>3 DEF ChallengesDone
<1>6. ASSUME NEW j \in DOMAIN c.networks
      PROVE  TokensDone(c.networks[j], tables.networks, tables.tokens, {})
  <2>1. j <= Len(c.networks)
    BY DEF Networks
  <2> QED  BY <1>2, <2>1 DEF NetworksUpTo, NetworkShown
<1> QED  BY <1>2, <1>4, <1>5, <1>6 DEF ConfigShown, GuardiansShown, TokensDone

\* No challenge is kept before the first is stored.
KeepInv == pass.at # "challenge" => pass.keep = {}

\* KeepInv is inductive.
LEMMA KeepStep == PassInv /\ KeepInv /\ [Next]_vars => KeepInv'
<1> SUFFICES ASSUME PassInv, KeepInv, [Next]_vars PROVE KeepInv'
  OBVIOUS
<1>1. ASSUME pass' = pass PROVE KeepInv'
  BY <1>1 DEF KeepInv
<1>2. CASE Node \/ UNCHANGED vars
  BY <1>1, <1>2 DEF Node, NewRequests, Progress, Reconfigure, vars
<1>3. CASE runBridgeSyncLoop \/ Crash
  BY <1>3 DEF runBridgeSyncLoop, At, Crash, NoPass, KeepInv
<1> USE DEF PassInv, NoPass, KeepInv
<1>4. ASSUME NEW ok \in BOOLEAN, ReadStopHeight(ok) PROVE KeepInv'
  BY <1>4 DEF ReadStopHeight, NextPart
<1>5. ASSUME NEW ok \in BOOLEAN, FetchPage(ok) PROVE KeepInv'
  BY <1>5 DEF FetchPage, NextPart
<1>6. ASSUME NEW ok \in BOOLEAN, UpsertRequest(ok) PROVE KeepInv'
  BY <1>6 DEF UpsertRequest, NextPart
<1>7. ASSUME NEW ok \in BOOLEAN, ReadClock(ok) \/ UpdateAdmin(ok) \/ GetSecurityInfoFails PROVE KeepInv'
  BY <1>7 DEF ReadClock, UpdateAdmin, GetSecurityInfoFails, At
<1>8. ASSUME NEW ok \in BOOLEAN, UpdateSecurity(ok) PROVE KeepInv'
  BY <1>8 DEF UpdateSecurity
<1>9. ASSUME NEW ok \in BOOLEAN, NEW g \in pass.todo, UpdateGuardian(g, ok) PROVE KeepInv'
  BY <1>9 DEF UpdateGuardian
<1>10. ASSUME NEW ok \in BOOLEAN, SweepGuardians(ok) \/ UpdateOrchestrator(ok) PROVE KeepInv'
  BY <1>10 DEF SweepGuardians, UpdateOrchestrator
<1>11. ASSUME NEW ok \in BOOLEAN, FetchNetworks(ok) PROVE KeepInv'
  BY <1>11 DEF FetchNetworks, ToChallenges
<1>12. ASSUME NEW ok \in BOOLEAN, UpdateNetwork(ok) PROVE KeepInv'
  BY <1>12 DEF UpdateNetwork, NetworkDone, ToChallenges
<1>13. ASSUME NEW ok \in BOOLEAN, NEW x \in pass.todo, UpdateNetworkToken(x, ok) PROVE KeepInv'
  BY <1>13 DEF UpdateNetworkToken, NetworkDone, ToChallenges
<1>14. ASSUME NEW ok \in BOOLEAN, GetTimeChallengesInfo(ok) \/ PruneTimeChallenges(ok) PROVE KeepInv'
  <2>1. ASSUME NEW l, NEW all, pass' = [pass EXCEPT !.at = "challenge", !.list = l, !.todo = all]
        PROVE  KeepInv'
    BY <2>1
  <2>2. CASE pass' = NoPass
    BY <2>2
  <2>3. \/ pass' = NoPass
        \/ \E l, all : pass' = [pass EXCEPT !.at = "challenge", !.list = l, !.todo = all]
    BY <1>14 DEF GetTimeChallengesInfo, PruneTimeChallenges
  <2> QED  BY <2>1, <2>2, <2>3
<1>15. ASSUME NEW ok \in BOOLEAN, NEW x \in pass.todo, UpdateTimeChallenge(x, ok) PROVE KeepInv'
  BY <1>15 DEF UpdateTimeChallenge
<1> HIDE DEF PassInv, NoPass, KeepInv
<1>16. CASE ConfigStep
  BY <1>7, <1>8, <1>9, <1>10, <1>11, <1>12, <1>13, <1>14, <1>15, <1>16 DEF ConfigStep
<1> QED  BY <1>2, <1>3, <1>4, <1>5, <1>6, <1>16, NextCases

\* The second conjunct of CleanPartRefreshes.
PartShown ==
  pass.at = "challenge" /\ pass'.at = "idle" /\ clean' /\ version = mark.version
    => ConfigShown(Config[version], tables')

\* What the statements of the configuration do to the history.
LEMMA ConfigHistory ==
  ASSUME ConfigStep
  PROVE  \/ ReadClock(TRUE) \/ ReadClock(FALSE)
         \/ pass'.at = "idle" /\ (pass.at # "challenge" \/ PruneTimeChallenges(TRUE) \/ ~clean')
         \/ mark' = mark /\ ~clean'
         \/ /\ mark' = mark /\ (clean' <=> clean)
            /\ \/ UpdateAdmin(TRUE) \/ UpdateSecurity(TRUE)
               \/ \E g \in pass.todo : UpdateGuardian(g, TRUE)
               \/ SweepGuardians(TRUE) \/ UpdateOrchestrator(TRUE)
               \/ FetchNetworks(TRUE) \/ UpdateNetwork(TRUE)
               \/ \E token \in pass.todo : UpdateNetworkToken(token, TRUE)
               \/ GetTimeChallengesInfo(TRUE)
               \/ \E m \in pass.todo : UpdateTimeChallenge(m, TRUE)
<1> USE DEF Outcome
<1>1. ASSUME PruneTimeChallenges(TRUE) \/ PruneTimeChallenges(FALSE)
      PROVE  pass'.at = "idle" /\ (PruneTimeChallenges(TRUE) \/ ~clean')
  <2>1. pass'.at = "idle"
    BY <1>1 DEF PruneTimeChallenges, NoPass
  <2>2. PruneTimeChallenges(FALSE) => ~clean'
    BY DEF PruneTimeChallenges
  <2> QED  BY <1>1, <2>1, <2>2
<1>2. ASSUME GetTimeChallengesInfo(FALSE)
      PROVE  pass'.at = "idle" /\ pass.at # "challenge"
  BY <1>2 DEF GetTimeChallengesInfo, NoPass
<1>3. ASSUME \/ UpdateAdmin(FALSE) \/ UpdateSecurity(FALSE)
             \/ \E g \in pass.todo : UpdateGuardian(g, FALSE)
             \/ SweepGuardians(FALSE) \/ UpdateOrchestrator(FALSE)
             \/ FetchNetworks(FALSE) \/ UpdateNetwork(FALSE)
             \/ \E token \in pass.todo : UpdateNetworkToken(token, FALSE)
             \/ \E m \in pass.todo : UpdateTimeChallenge(m, FALSE)
             \/ GetSecurityInfoFails
      PROVE  mark' = mark /\ ~clean'
  BY <1>3 DEF UpdateAdmin, UpdateSecurity, UpdateGuardian, SweepGuardians, UpdateOrchestrator,
     FetchNetworks, UpdateNetwork, UpdateNetworkToken, UpdateTimeChallenge, GetSecurityInfoFails
<1>4. ASSUME \/ UpdateAdmin(TRUE) \/ UpdateSecurity(TRUE)
             \/ \E g \in pass.todo : UpdateGuardian(g, TRUE)
             \/ SweepGuardians(TRUE) \/ UpdateOrchestrator(TRUE)
             \/ FetchNetworks(TRUE) \/ UpdateNetwork(TRUE)
             \/ \E token \in pass.todo : UpdateNetworkToken(token, TRUE)
             \/ GetTimeChallengesInfo(TRUE)
             \/ \E m \in pass.todo : UpdateTimeChallenge(m, TRUE)
      PROVE  mark' = mark /\ (clean' <=> clean)
  BY <1>4 DEF UpdateAdmin, UpdateSecurity, UpdateGuardian, SweepGuardians, UpdateOrchestrator,
     FetchNetworks, UpdateNetwork, UpdateNetworkToken, UpdateTimeChallenge, GetTimeChallengesInfo
<1> HIDE DEF Outcome
<1> QED  BY <1>1, <1>2, <1>3, <1>4 DEF ConfigStep

\* FreshInv is inductive, and a clean part over wraps or unwraps ends fresh.
LEMMA RequestsRefreshed == PagingInv /\ FreshInv /\ [Next]_vars => FreshInv' /\ PartFresh
<1> SUFFICES ASSUME PagingInv, FreshInv, [Next]_vars PROVE FreshInv' /\ PartFresh
  OBVIOUS
<1>1. NextPart.at \in {"stop", "config"}
  BY DEF NextPart, NoPass
<1>2. ASSUME ~Paging, ~Paging' PROVE FreshInv' /\ PartFresh
  BY <1>2 DEF FreshInv, PartFresh, Paging
<1>3. ASSUME pass' = pass PROVE PartFresh
  BY <1>1, <1>3 DEF PartFresh
<1>4. CASE Node
  <2>1. pass' = pass
    BY <1>4 DEF Node, NewRequests, Progress, Reconfigure
  <2> QED  BY <1>3, <1>4, <2>1, FreshWhileNode
<1>5. CASE runBridgeSyncLoop
  <2>1. ~Paging' /\ pass.at = "idle"
    BY <1>5, StartPass DEF PagingInv
  <2> QED  BY <1>2, <2>1 DEF Paging
<1>6. CASE ConfigStep
  BY <1>2, <1>6, ConfigKeepsRequests DEF PagingInv
<1>7. CASE Crash
  <2>1. ~Paging' /\ pass'.at = "idle"
    BY <1>7, CrashStep DEF PagingInv
  <2> QED  BY <1>1, <2>1 DEF FreshInv, PartFresh
<1>8. ASSUME NEW ok \in BOOLEAN, ReadStopHeight(ok) PROVE FreshInv' /\ PartFresh
  <2>1. pass.at = "stop" /\ (~ok => ~Paging')
    BY <1>8, StopStep
  <2>2. CASE ok
    <3>1. ReadStopHeight(TRUE)
      BY <1>8, <2>2
    <3> QED  BY <2>1, <3>1, FreshStart DEF PartFresh
  <2>3. CASE ~ok
    BY <2>1, <2>3 DEF FreshInv, PartFresh
  <2> QED  BY <2>2, <2>3
<1>9. ASSUME NEW ok \in BOOLEAN, FetchPage(ok) \/ UpsertRequest(ok) PROVE FreshInv' /\ PartFresh
  BY <1>9, FreshFetch, FreshUpsert
<1>10. CASE UNCHANGED vars
  <2>1. UNCHANGED <<node, stored, pass, clean, mark>>
    BY <1>10 DEF vars, nodeVars, history
  <2> QED  BY <1>3, <2>1 DEF FreshInv, Paging, Floor
<1> QED  BY <1>4, <1>5, <1>6, <1>7, <1>8, <1>9, <1>10, NextCases

\* ConfigInv is inductive, and a clean configuration part ends with c on show.
LEMMA ConfigRefreshed ==
  PagingInv /\ KeepInv /\ ConfigInv /\ [Next]_vars => ConfigInv' /\ PartShown
<1> SUFFICES ASSUME PagingInv, KeepInv, ConfigInv, [Next]_vars PROVE ConfigInv' /\ PartShown
  OBVIOUS
<1>1. TablesInv'
  BY TablesStep DEF ConfigInv
<1>2. ASSUME pass'.at \notin ConfigSteps \cup {"idle"} PROVE ConfigInv' /\ PartShown
  BY <1>1, <1>2 DEF ConfigInv, PartShown
<1>3. version \in Nat
  BY BridgeAssumption DEF PagingInv, NodeInv
<1>4. ASSUME UNCHANGED <<pass, tables, clean, mark>>, version' \in Nat, version' >= version
      PROVE  ConfigInv' /\ PartShown
  <2>1. PartShown
    BY <1>4 DEF PartShown
  <2>2. ASSUME pass.at \in ConfigSteps
        PROVE  /\ mark.version \in Nat /\ mark.version <= version'
               /\ Current' => ConfigFresh(Config[version])'
    <3>1. /\ mark.version \in Nat /\ mark.version <= version
          /\ Current => ConfigFresh(Config[version])
      BY <2>2 DEF ConfigInv
    <3>2. mark.version <= version'
      BY <1>3, <1>4, <3>1
    <3>3. ASSUME Current' PROVE ConfigFresh(Config[version])'
      <4>1. version' = version /\ Current
        BY <1>3, <1>4, <3>1, <3>3 DEF Current
      <4> QED  BY <1>4, <3>1, <4>1 DEF ConfigFresh
    <3> QED  BY <3>1, <3>2, <3>3
  <2> QED  BY <1>1, <1>4, <2>1, <2>2 DEF ConfigInv
<1>5. CASE Node
  <2>1. UNCHANGED <<pass, tables, clean, mark>> /\ version' >= version /\ NodeInv'
    BY <1>5, NodeSteps DEF PagingInv, history
  <2>2. version' \in Nat
    BY <2>1, BridgeAssumption DEF NodeInv
  <2> QED  BY <1>4, <2>1, <2>2
<1>6. CASE UNCHANGED vars
  BY <1>3, <1>4, <1>6 DEF vars, nodeVars, history
<1>7. CASE runBridgeSyncLoop
  <2>1. pass'.at = "stop"
    BY <1>7 DEF runBridgeSyncLoop, At, NoPass
  <2> QED  BY <1>2, <2>1 DEF ConfigSteps
<1>8. CASE Crash
  <2>1. pass'.at = "idle" /\ ~clean'
    BY <1>8 DEF Crash, NoPass
  <2> QED  BY <1>1, <2>1 DEF ConfigInv, PartShown, ConfigSteps
<1>9. CASE \E ok \in BOOLEAN : ReadStopHeight(ok) \/ FetchPage(ok) \/ UpsertRequest(ok)
  <2>1. pass' = NextPart \/ Paging'
    BY <1>9, StopStep, FetchStep, UpsertStep DEF Paging
  <2>2. pass'.at \in {"stop", "config", "fetch", "rows"}
    BY <2>1 DEF NextPart, NoPass, Paging
  <2> QED  BY <1>2, <2>2 DEF ConfigSteps
<1>10. CASE ConfigStep
  <2>1. version' = version /\ PassInv /\ NodeInv /\ TablesInv
    BY <1>10, ConfigKeepsRequests DEF PagingInv, ConfigInv, nodeVars
  <2>2. PICK c : c = Config[version]
    OBVIOUS
  <2>3. Networks(c) /\ Config[version'] = c
    BY <2>1, <2>2, NodeLists
  <2>4. ConfigMove
    BY <1>10, ConfigKeepsRequests DEF PagingInv
  <2>5. ASSUME pass.at \in ConfigSteps
        PROVE  /\ mark.version \in Nat /\ mark.version <= version
               /\ Current => ConfigFresh(c)
    BY <2>2, <2>5 DEF ConfigInv
  <2>6. ASSUME mark' = mark, pass.at \in ConfigSteps, Current' => ConfigFresh(c)',
               pass'.at # "idle"
        PROVE  ConfigInv' /\ PartShown
    BY <1>1, <2>1, <2>3, <2>5, <2>6 DEF ConfigInv, PartShown
  <2>7. CASE ReadClock(TRUE) \/ ReadClock(FALSE)
    <3>1. mark'.version = version /\ pass'.at = "admin" /\ (clean' => ReadClock(TRUE))
      BY <2>7 DEF ReadClock, NoMark, At, NoPass, FirstOutcome
    <3>2. ReadClock(TRUE) => ConfigFresh(c)'
      BY <2>1, FreshClock
    <3>3. version <= version
      BY <1>3
    <3>4. PartShown
      BY <3>1 DEF PartShown
    <3> QED  BY <1>1, <1>3, <2>1, <2>3, <3>1, <3>2, <3>3, <3>4 DEF ConfigInv, Current
  <2>8. CASE pass'.at = "idle" /\ (pass.at # "challenge" \/ PruneTimeChallenges(TRUE) \/ ~clean')
    <3>1. pass'.at \notin ConfigSteps
      BY <2>8 DEF ConfigSteps
    <3>2. ASSUME PruneTimeChallenges(TRUE), clean', version = mark.version
          PROVE  ConfigShown(c, tables')
      <4>1. clean /\ pass.at = "challenge"
        BY <3>2 DEF PruneTimeChallenges, Outcome
      <4>2. ConfigFresh(c)
        BY <2>5, <3>2, <4>1 DEF Current, ConfigSteps
      <4> QED  BY <2>1, <2>2, <2>3, <3>2, <4>2, FreshPrune
    <3>3. PartShown
      BY <2>2, <2>8, <3>2 DEF PartShown
    <3> QED  BY <1>1, <3>1, <3>3 DEF ConfigInv
  <2>9. ASSUME pass'.at # "idle", pass.at \in ConfigSteps, mark' = mark, ~clean'
        PROVE  ConfigInv' /\ PartShown
    BY <2>6, <2>9 DEF Current
  <2>10. ASSUME pass'.at # "idle", mark' = mark, clean' <=> clean,
               \/ UpdateAdmin(TRUE) \/ UpdateSecurity(TRUE)
               \/ \E g \in pass.todo : UpdateGuardian(g, TRUE)
               \/ SweepGuardians(TRUE) \/ UpdateOrchestrator(TRUE)
               \/ FetchNetworks(TRUE) \/ UpdateNetwork(TRUE)
               \/ \E token \in pass.todo : UpdateNetworkToken(token, TRUE)
               \/ GetTimeChallengesInfo(TRUE)
               \/ \E m \in pass.todo : UpdateTimeChallenge(m, TRUE)
         PROVE  ConfigInv' /\ PartShown
    <3>1. pass.at \in ConfigSteps
      BY <2>10 DEF UpdateAdmin, UpdateSecurity, UpdateGuardian, SweepGuardians, UpdateOrchestrator,
         FetchNetworks, UpdateNetwork, UpdateNetworkToken, UpdateTimeChallenge,
         GetTimeChallengesInfo, ConfigSteps
    <3>2. ASSUME Current' PROVE ConfigFresh(c)'
      <4>1. ConfigFresh(c)
        BY <2>1, <2>5, <2>10, <3>1, <3>2 DEF Current
      <4>2. DOMAIN c.networks \subseteq Nat \ {0}
        BY <2>3 DEF Networks
      <4>3. GetTimeChallengesInfo(TRUE) => pass.keep = {}
        BY DEF GetTimeChallengesInfo, KeepInv
      <4> QED  BY <2>1, <2>2, <2>3, <2>10, <4>1, <4>2, <4>3, FreshAdmin, FreshSecurity,
                  FreshGuardian, FreshSweep, FreshOrchestrator, FreshFetchNetworks, FreshNetwork,
                  FreshToken, FreshChallenges, FreshChallenge
    <3> QED  BY <2>6, <2>10, <3>1, <3>2
  <2>11. pass.at = "config" => ReadClock(TRUE) \/ ReadClock(FALSE)
    BY <1>10 DEF ConfigStep, ReadClock, UpdateAdmin, UpdateSecurity, UpdateGuardian,
       SweepGuardians, UpdateOrchestrator, FetchNetworks, UpdateNetwork, UpdateNetworkToken,
       GetTimeChallengesInfo, UpdateTimeChallenge, PruneTimeChallenges, GetSecurityInfoFails
  <2>12. pass'.at = "idle" => pass.at # "challenge" \/ PruneTimeChallenges(TRUE) \/ ~clean'
    <3>1. ASSUME NEW ok \in BOOLEAN, NEW m \in pass.todo, UpdateTimeChallenge(m, ok)
          PROVE  pass'.at = "challenge"
      BY <2>1, <3>1 DEF UpdateTimeChallenge, PassInv, NoPass
    <3>2. PruneTimeChallenges(FALSE) => ~clean'
      BY DEF PruneTimeChallenges, Outcome
    <3>3. pass.at = "challenge" =>
            \/ \E ok \in BOOLEAN : \E m \in pass.todo : UpdateTimeChallenge(m, ok)
            \/ PruneTimeChallenges(TRUE) \/ PruneTimeChallenges(FALSE)
      BY <1>10 DEF ConfigStep, ReadClock, UpdateAdmin, UpdateSecurity, UpdateGuardian,
         SweepGuardians, UpdateOrchestrator, FetchNetworks, UpdateNetwork, UpdateNetworkToken,
         GetTimeChallengesInfo, GetSecurityInfoFails
    <3> QED  BY <3>1, <3>2, <3>3
  <2> QED  BY <1>10, <2>4, <2>7, <2>8, <2>9, <2>10, <2>11, <2>12, ConfigHistory DEF ConfigMove
<1> QED  BY <1>5, <1>6, <1>7, <1>8, <1>9, <1>10, NextCases

\* No pass, no promises.
LEMMA InitFresh == Init => FreshInv /\ KeepInv /\ ConfigInv
<1> SUFFICES ASSUME Init PROVE FreshInv /\ KeepInv /\ ConfigInv
  OBVIOUS
<1>1. pass = NoPass /\ tables = NoTables
  BY DEF Init
<1>2. pass.at = "idle" /\ pass.keep = {}
  BY <1>1 DEF NoPass
<1>3. TablesInv
  BY <1>1 DEF TablesInv, NoTables
<1> QED  BY <1>2, <1>3 DEF FreshInv, KeepInv, ConfigInv, Paging, ConfigSteps

\* A run of updateBridgeWrapRequests or updateBridgeUnwrapRequests in which nothing failed has
\* stored every request newer than all that was known when it began, and refreshed those that
\* were open; a run of updateBridgeConfig in which nothing failed and the node's configuration
\* did not change shows exactly that configuration.  For every page length and configuration.
THEOREM CleanPartsRefresh == Spec => CleanPartRefreshes
<1> DEFINE SyncInv == PagingInv /\ FreshInv /\ KeepInv /\ ConfigInv
<1>1. Init => SyncInv
  BY InitPaging, InitFresh
<1>2. SyncInv /\ [Next]_vars => SyncInv'
  <2>1. PagingInv => PassInv
    BY DEF PagingInv
  <2> QED  BY <2>1, PagingStep, RequestsRefreshed, KeepStep, ConfigRefreshed
<1>3. SyncInv /\ [Next]_vars =>
        [/\ pass.at \in {"fetch", "rows"} /\ pass' = NextPart /\ clean'
              => Refreshed(pass.kind, mark, stored'[pass.kind])
         /\ pass.at = "challenge" /\ pass'.at = "idle" /\ clean' /\ version = mark.version
              => ConfigShown(Config[version], tables')]_vars
  BY RequestsRefreshed, ConfigRefreshed DEF PartFresh, PartShown
<1> QED  BY <1>1, <1>2, <1>3, PTL DEF Spec, CleanPartRefreshes

==============================================================================
