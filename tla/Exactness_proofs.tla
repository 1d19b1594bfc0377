-------------------------- MODULE Exactness_proofs --------------------------
(***************************************************************************)
(* Two proofs about what the tables say of the chain.  Momentums processed *)
(* in the order of their heights leave in the tables what the chain says:  *)
(* of every stake, fusion, HTLC, vote and delegation, whatever is          *)
(* processed again meanwhile.  In any order the counters kept beside the   *)
(* rows add up to them.                                                    *)
(*                                                                         *)
(* Both go along the statements of one block, as in Explorer_proofs.  The  *)
(* first follows, table by table, what is true half-way through a          *)
(* momentum that is processed again: what the calls still to be repeated   *)
(* (`Due`) will write is not counted.  The second follows the keys of the  *)
(* rows and the sums over them.                                            *)
(***************************************************************************)
EXTENDS Explorer_proofs

-----------------------------------------------------------------------------
(* Order: what the tables say while a transaction works through its calls *)

\* Some call of P repeats x.
Due(x, P) == \E p \in P : Repeats(x, p)

\* x is the last of xs, but for those that are still to be repeated.
Decides(x, xs, P) ==
  x \in xs /\ \A y \in xs : y.hash = x.hash \/ Earlier(y, x) \/ Due(y, P)

\* The row of the entry that the send k made.
LockRow(r, k) ==
  /\ {"cancelID", "address", "active"} \subseteq DOMAIN r
  /\ r.cancelID = k /\ r.address = world.blocks[k].address

\* The tables after their calls, with the calls P still to come: an entry is open
\* while every call that ends it is still to be repeated.
LocksSay(rows, opened, closed, P) ==
  /\ DOMAIN rows = {SendOf(x).hash : x \in opened}
  /\ \A k \in DOMAIN rows : LockRow(rows[k], k)
  /\ \A c \in opened :
       Since(c, Ends(c, closed)) =>
         IF rows[SendOf(c).hash].active THEN \A x \in Ends(c, closed) : Due(x, P)
         ELSE Ends(c, closed) # {}

\* Not settled, or settled by the last call that is not still to be repeated.
SettledBy(r, ends, P) ==
  \/ r.status = "active" /\ \A x \in ends : Due(x, P)
  \/ \E x : Decides(x, ends, P) /\ r.status = StatusBy(x)
HtlcsSay(rows, opened, settled, P) ==
  /\ DOMAIN rows = {SendOf(x).hash : x \in opened}
  /\ \A c \in opened :
       Since(c, Settling(c, settled)) =>
         SettledBy(rows[SendOf(c).hash], Settling(c, settled), P)

\* The last vote counts.
VoteRows(t) == \A k \in DOMAIN t : "vote" \in DOMAIN t[k]
VotesOn(cast, k) == {x \in cast : VoteKey(x) = k}
VotesSay(rows, cast, P) ==
  /\ VoteRows(rows) /\ DOMAIN rows = {VoteKey(x) : x \in cast}
  /\ \A k \in DOMAIN rows :
       \E x : Decides(x, VotesOn(cast, k), P) /\ rows[k].vote = SendOf(x).call.vote

\* And the last move.
MovedBy(shown, moves, P) ==
  \/ moves = {} /\ shown = {}
  \/ \E x : Decides(x, moves, P) /\ shown = Chosen({x})
DelegationsSay(rows, D, P) == \A a : MovedBy(Shown(rows, a), Moves(D, a), P)

\* The five tables after the calls D, with the calls P to come.
TablesSay(d, D, P) ==
  /\ LocksSay(d.stakes, Calls(D, "stake", {"Stake"}), Calls(D, "stake", {"Cancel"}), P)
  /\ LocksSay(d.fusions, Calls(D, "plasma", {"Fuse"}), Calls(D, "plasma", {"CancelFuse"}), P)
  /\ HtlcsSay(d.htlcs, Calls(D, "htlc", {"Create"}),
              Calls(D, "htlc", {"Unlock", "Reclaim"}), P)
  /\ VotesSay(d.votes, Cast(D), P)
  /\ DelegationsSay(d.delegations, D, P)

-----------------------------------------------------------------------------
(* Order: places on the chain *)

OnChain(x) == \E h \in DOMAIN world.chain : x.hash \in Listed(h)

\* The chain lists a block once.
LEMMA ListedOnce ==
  ASSUME world \in Worlds,
         NEW g \in DOMAIN world.chain, NEW i \in DOMAIN Content(g),
         NEW h \in DOMAIN world.chain, NEW j \in DOMAIN Content(h),
         Content(g)[i] = Content(h)[j]
  PROVE  g = h /\ i = j
<1>1. \A k, l \in DOMAIN world.chain :
        \A m \in DOMAIN world.chain[k].content, n \in DOMAIN world.chain[l].content :
          world.chain[k].content[m] = world.chain[l].content[n] => k = l /\ m = n
  BY WorldsAssumption, Zenon
<1>2. /\ i \in DOMAIN world.chain[g].content /\ j \in DOMAIN world.chain[h].content
      /\ world.chain[g].content[i] = world.chain[h].content[j]
  BY DEF Content
<1> QED  BY <1>1, <1>2

\* A block has one place.
LEMMA PlaceOf ==
  ASSUME world \in Worlds, NEW h \in DOMAIN world.chain, NEW i \in DOMAIN Content(h)
  PROVE  Place(Content(h)[i]) = <<h, i>>
<1> DEFINE S == UNION {{g} \X DOMAIN Content(g) : g \in DOMAIN world.chain}
           R(p) == Content(p[1])[p[2]] = Content(h)[i]
<1>1. <<h, i>> \in S /\ R(<<h, i>>)
  OBVIOUS
<1>2. ASSUME NEW p \in S, R(p) PROVE p = <<h, i>>
  <2>1. PICK g \in DOMAIN world.chain : p \in {g} \X DOMAIN Content(g)
    OBVIOUS
  <2>2. p = <<g, p[2]>> /\ p[1] = g /\ p[2] \in DOMAIN Content(g)
    BY <2>1
  <2>3. Content(g)[p[2]] = Content(h)[i]
    BY <1>2, <2>2
  <2>4. g = h /\ p[2] = i
    BY <2>2, <2>3, ListedOnce
  <2> QED  BY <2>2, <2>4
<1>3. Place(Content(h)[i]) = CHOOSE p \in S : R(p)
  BY DEF Place
<1> HIDE DEF S, R
<1> QED  BY <1>1, <1>2, <1>3

\* The order is that of the places.
LEMMA EarlierIs ==
  ASSUME world \in Worlds, NEW x, NEW y,
         NEW g \in DOMAIN world.chain, NEW i \in DOMAIN Content(g), x.hash = Content(g)[i],
         NEW h \in DOMAIN world.chain, NEW j \in DOMAIN Content(h), y.hash = Content(h)[j]
  PROVE  Earlier(x, y) <=> g < h \/ (g = h /\ i < j)
<1>1. Place(x.hash) = <<g, i>> /\ Place(y.hash) = <<h, j>>
  BY PlaceOf
<1> QED  BY <1>1 DEF Earlier

\* It is strict.
LEMMA EarlierStrict ==
  ASSUME world \in Worlds, NEW x, OnChain(x), NEW y, OnChain(y), Earlier(x, y)
  PROVE  ~Earlier(y, x) /\ x.hash # y.hash
<1>1. PICK g \in DOMAIN world.chain : \E i \in DOMAIN Content(g) : x.hash = Content(g)[i]
  BY DEF OnChain, Listed
<1>2. PICK i \in DOMAIN Content(g) : x.hash = Content(g)[i]
  BY <1>1
<1>3. PICK h \in DOMAIN world.chain : \E j \in DOMAIN Content(h) : y.hash = Content(h)[j]
  BY DEF OnChain, Listed
<1>4. PICK j \in DOMAIN Content(h) : y.hash = Content(h)[j]
  BY <1>3
<1>5. /\ Earlier(x, y) <=> g < h \/ (g = h /\ i < j)
      /\ Earlier(y, x) <=> h < g \/ (h = g /\ j < i)
  BY <1>2, <1>4, EarlierIs
<1>6. g \in Nat /\ h \in Nat /\ i \in Nat /\ j \in Nat
  BY ChainFacts
<1>7. ~Earlier(y, x)
  BY <1>5, <1>6
<1>8. x.hash # y.hash
  <2>1. x.hash = y.hash => g = h /\ i = j
    BY <1>2, <1>4, ListedOnce
  <2> QED  BY <1>5, <1>6, <2>1
<1> QED  BY <1>7, <1>8

\* It is the order of hashes: what repeats a call has its place.
LEMMA EarlierHash ==
  ASSUME NEW x, NEW y, NEW u, NEW v, x.hash = u.hash, y.hash = v.hash
  PROVE  Earlier(x, y) <=> Earlier(u, v)
BY DEF Earlier

\* A contract's block, which carries out a send.
IsCall(x) == x.hash \in DOMAIN world.blocks /\ world.blocks[x.hash].type = "contractReceive"

\* The chain knows the send, and the contract it is for.
LEMMA SendFacts ==
  ASSUME world \in Worlds, NEW x, IsCall(x)
  PROVE  /\ SendOf(x).hash \in DOMAIN world.blocks /\ SendOf(x).hash # ""
         /\ SendOf(x) = world.blocks[SendOf(x).hash]
         /\ SendOf(x).hash = world.blocks[x.hash].from
         /\ SendOf(x).to = world.blocks[x.hash].address
         /\ \A y : IsCall(y) /\ SendOf(y).hash = SendOf(x).hash => y.hash = x.hash
<1> DEFINE b == world.blocks[x.hash]
           s == b.from
<1>1. /\ s # "" /\ s \in DOMAIN world.blocks /\ world.blocks[s].to = b.address
      /\ \A y \in DOMAIN world.blocks : world.blocks[y].from = s => x.hash = y
  BY WorldsAssumption DEF IsCall
<1>2. world.blocks[s].hash = s
  BY <1>1, BlockFacts
<1>3. SendOf(x) = world.blocks[s] /\ SendOf(x).hash = s
  BY <1>2 DEF SendOf
<1>4. ASSUME NEW y, IsCall(y), SendOf(y).hash = s PROVE y.hash = x.hash
  <2>1. /\ world.blocks[y.hash].from # "" /\ world.blocks[y.hash].from \in DOMAIN world.blocks
    BY <1>4, WorldsAssumption DEF IsCall
  <2>2. SendOf(y).hash = world.blocks[y.hash].from
    BY <2>1, BlockFacts DEF SendOf
  <2> QED  BY <1>1, <1>4, <2>2 DEF IsCall
<1> QED  BY <1>1, <1>3, <1>4

\* What is on the chain is a block, and a contract's call among it a call.
LEMMA CallFacts ==
  ASSUME world \in Worlds, NEW xs, \A x \in xs : OnChain(x), NEW contract, NEW methods,
         NEW x \in Calls(xs, contract, methods)
  PROVE  x \in xs /\ OnChain(x) /\ IsCall(x)
<1>1. x \in xs /\ OnChain(x) /\ world.blocks[x.hash].type = "contractReceive"
  BY DEF Calls
<1>2. x.hash \in DOMAIN world.blocks
  BY <1>1, ChainFacts DEF OnChain
<1> QED  BY <1>1, <1>2 DEF IsCall

\* Membership of a call depends on its block alone.
LEMMA CallOne ==
  ASSUME NEW xs, NEW z, NEW contract, NEW methods
  PROVE  /\ z \in Calls({z}, contract, methods) =>
              Calls(xs \cup {z}, contract, methods) = Calls(xs, contract, methods) \cup {z}
         /\ z \notin Calls({z}, contract, methods) =>
              Calls(xs \cup {z}, contract, methods) = Calls(xs, contract, methods)
         /\ \A x \in Calls(xs, contract, methods) :
              x.hash = z.hash => z \in Calls({z}, contract, methods)
BY DEF Calls, SendOf

\* A call that is not z itself is still to be repeated after z.
LEMMA StillDue ==
  ASSUME NEW x, NEW Q, NEW z, Due(x, Q \cup {z})
  PROVE  Due(x, Q) \/ Repeats(x, z)
BY DEF Due

\* A call of another block is not z.
LEMMA OtherDue ==
  ASSUME NEW x, NEW z, ~(x.hash = z.hash), NEW Q, Due(x, Q \cup {z})
  PROVE  Due(x, Q)
BY DEF Due, Repeats

\* z is next: what was done comes before it, or is z, or comes again later.
Turn(D, z, Q) ==
  /\ OnChain(z) /\ \A y \in D : OnChain(y)
  /\ \A y \in D : Earlier(y, z) \/ Repeats(y, z) \/ Due(y, Q)

\* The last of those that were done is z.
LEMMA TurnDecides ==
  ASSUME NEW D, NEW z, NEW Q, Turn(D, z, Q), NEW xs \in SUBSET D
  PROVE  Decides(z, xs \cup {z}, Q)
BY DEF Turn, Decides, Repeats

\* One that is not z decides after z as before.
LEMMA StillDecides ==
  ASSUME NEW x, NEW xs, NEW Q, NEW z, Decides(x, xs, Q \cup {z}),
         \A y \in xs : ~Repeats(y, z)
  PROVE  Decides(x, xs, Q)
BY StillDue DEF Decides

-----------------------------------------------------------------------------
(* Order: stakes and fusions *)

\* What the insertion of the entry of the send s leaves.
InsertsLock(u, rows, s) ==
  /\ DOMAIN u = DOMAIN rows \cup {s.hash}
  /\ \A k \in DOMAIN rows : u[k] = rows[k]
  /\ s.hash \notin DOMAIN rows =>
       /\ {"cancelID", "address", "active"} \subseteq DOMAIN u[s.hash]
       /\ u[s.hash].active /\ u[s.hash].cancelID = s.hash /\ u[s.hash].address = s.address

\* What the cancellation by the send s leaves.
EndsLock(u, rows, s) ==
  /\ DOMAIN u = DOMAIN rows
  /\ \A k \in DOMAIN rows :
       /\ DOMAIN u[k] = DOMAIN rows[k]
       /\ u[k].cancelID = rows[k].cancelID /\ u[k].address = rows[k].address
       /\ IF rows[k].cancelID = s.call.id /\ rows[k].address = s.address
            THEN ~u[k].active ELSE u[k] = rows[k]

\* The calls that end a lock are of the same sends, whichever item opened it.
LEMMA SameEnds ==
  ASSUME NEW c, NEW d, c.hash = d.hash, NEW xs
  PROVE  /\ SendOf(c) = SendOf(d) /\ Ends(c, xs) = Ends(d, xs)
         /\ Settling(c, xs) = Settling(d, xs) /\ (Since(c, xs) <=> Since(d, xs))
<1>1. SendOf(c) = SendOf(d)
  BY DEF SendOf
<1> QED  BY <1>1, EarlierHash DEF Ends, Settling, Since

\* A call that opens a lock.
LEMMA LockInserted ==
  ASSUME world \in Worlds, NEW D, NEW z, NEW Q, Turn(D, z, Q), IsCall(z),
         NEW rows, NEW opened, \A c \in opened : IsCall(c) /\ OnChain(c),
         NEW closed \in SUBSET D, \A x \in closed : ~(x.hash = z.hash),
         LocksSay(rows, opened, closed, Q \cup {z}),
         NEW u, InsertsLock(u, rows, SendOf(z))
  PROVE  LocksSay(u, opened \cup {z}, closed, Q)
<1> DEFINE k0 == SendOf(z).hash
           Says(v, c) == Since(c, Ends(c, closed)) =>
             IF v.active THEN \A x \in Ends(c, closed) : Due(x, Q) ELSE Ends(c, closed) # {}
<1>1. k0 \in DOMAIN world.blocks /\ SendOf(z) = world.blocks[k0]
  BY SendFacts
<1>2. DOMAIN u = {SendOf(x).hash : x \in opened \cup {z}}
  BY DEF InsertsLock, LocksSay
<1>3. \A k \in DOMAIN u : LockRow(u[k], k)
  BY <1>1 DEF InsertsLock, LocksSay, LockRow
<1>4. ASSUME NEW c \in opened PROVE Says(rows[SendOf(c).hash], c)
  <2>1. \A x \in Ends(c, closed) : x \in closed
    BY DEF Ends
  <2>2. \A x \in closed : Due(x, Q \cup {z}) => Due(x, Q)
    BY OtherDue, Zenon
  <2> QED  BY <2>1, <2>2 DEF LocksSay
<1>5. ASSUME NEW c \in opened PROVE Says(u[SendOf(c).hash], c)
  <2>1. SendOf(c).hash \in DOMAIN rows
    BY DEF LocksSay
  <2>2. u[SendOf(c).hash] = rows[SendOf(c).hash]
    BY <2>1 DEF InsertsLock
  <2> QED  BY <1>4, <2>2
<1>6. Says(u[k0], z)
  <2>1. CASE k0 \in DOMAIN rows
    <3>1. PICK c \in opened : SendOf(c).hash = k0
      BY <2>1 DEF LocksSay
    <3>2. c.hash = z.hash
      BY <3>1, SendFacts
    <3>3. Ends(c, closed) = Ends(z, closed)
      BY <3>2, SameEnds
    <3>4. Since(c, Ends(c, closed)) <=> Since(z, Ends(z, closed))
      BY <3>2, <3>3, SameEnds
    <3> QED  BY <1>5, <3>1, <3>3, <3>4
  <2>2. CASE k0 \notin DOMAIN rows
    <3>1. u[k0].active
      BY <2>2 DEF InsertsLock
    <3>2. ASSUME Since(z, Ends(z, closed)), NEW x \in Ends(z, closed) PROVE Due(x, Q)
      <4>1. x \in D /\ x \in closed /\ Earlier(z, x)
        BY <3>2 DEF Ends, Since
      <4>2. ~Earlier(x, z)
        BY <4>1, EarlierStrict DEF Turn
      <4> QED  BY <4>1, <4>2 DEF Turn, Repeats
    <3> QED  BY <3>1, <3>2
  <2> QED  BY <2>1, <2>2
<1>7. \A c \in opened \cup {z} : Says(u[SendOf(c).hash], c)
  BY <1>5, <1>6
<1> QED  BY <1>2, <1>3, <1>7 DEF LocksSay

\* A call that ends a lock.
LEMMA LockEnded ==
  ASSUME world \in Worlds, NEW z, NEW Q, IsCall(z),
         NEW rows, NEW opened, \A c \in opened : IsCall(c), NEW closed,
         LocksSay(rows, opened, closed, Q \cup {z}),
         NEW u, EndsLock(u, rows, SendOf(z))
  PROVE  LocksSay(u, opened, closed \cup {z}, Q)
<1> DEFINE all == closed \cup {z}
<1>1. DOMAIN u = {SendOf(x).hash : x \in opened}
  BY DEF EndsLock, LocksSay
<1>2. \A k \in DOMAIN u : LockRow(u[k], k)
  BY DEF EndsLock, LocksSay, LockRow
<1>3. ASSUME NEW c \in opened, Since(c, Ends(c, all))
      PROVE  IF u[SendOf(c).hash].active THEN \A x \in Ends(c, all) : Due(x, Q)
             ELSE Ends(c, all) # {}
  <2> DEFINE k == SendOf(c).hash
  <2>1. k \in DOMAIN rows /\ rows[k].cancelID = k /\ rows[k].address = SendOf(c).address
    <3>1. SendOf(c) = world.blocks[k]
      BY SendFacts
    <3> QED  BY <3>1 DEF LocksSay, LockRow
  <2>2. CASE SendOf(z).call.id = k /\ SendOf(z).address = SendOf(c).address
    <3>1. z \in Ends(c, all)
      BY <2>2 DEF Ends
    <3>2. ~u[k].active
      BY <2>1, <2>2 DEF EndsLock
    <3> QED  BY <3>1, <3>2
  <2>3. CASE ~(SendOf(z).call.id = k /\ SendOf(z).address = SendOf(c).address)
    <3>1. u[k] = rows[k]
      BY <2>1, <2>3 DEF EndsLock
    <3>2. Ends(c, all) = Ends(c, closed)
      BY <2>3 DEF Ends
    <3>3. IF rows[k].active THEN \A x \in Ends(c, closed) : Due(x, Q \cup {z})
          ELSE Ends(c, closed) # {}
      BY <1>3, <3>2 DEF LocksSay
    <3>4. \A x \in Ends(c, closed) : x.hash # z.hash
      BY <2>3 DEF Ends, SendOf
    <3>5. \A x \in Ends(c, closed) : Due(x, Q \cup {z}) => Due(x, Q)
      BY <3>4, OtherDue, Zenon
    <3> QED  BY <3>1, <3>2, <3>3, <3>5
  <2> QED  BY <2>2, <2>3
<1> QED  BY <1>1, <1>2, <1>3 DEF LocksSay

\* A call of neither kind.
LEMMA LockKept ==
  ASSUME NEW z, NEW Q, NEW rows, NEW opened, NEW closed, \A x \in closed : ~(x.hash = z.hash),
         LocksSay(rows, opened, closed, Q \cup {z})
  PROVE  LocksSay(rows, opened, closed, Q)
<1>1. ASSUME NEW c, NEW x \in Ends(c, closed), Due(x, Q \cup {z}) PROVE Due(x, Q)
  <2>1. ~(x.hash = z.hash)
    BY <1>1 DEF Ends
  <2> QED  BY <1>1, <2>1, OtherDue, Zenon
<1> QED  BY <1>1 DEF LocksSay

\* The table u of locks after the call z of a contract was executed on rows.
LockCalled(u, rows, contract, insert, end, z) ==
  /\ z \in Calls({z}, contract, {insert}) => InsertsLock(u, rows, SendOf(z))
  /\ z \in Calls({z}, contract, {end}) =>
       IF SendOf(z).call.id = "" THEN u = rows ELSE EndsLock(u, rows, SendOf(z))
  /\ z \notin Calls({z}, contract, {insert, end}) => u = rows

\* Stakes and fusions: one more call.
LEMMA LocksTurn ==
  ASSUME world \in Worlds, NEW D, NEW z, NEW Q, Turn(D, z, Q),
         NEW rows, NEW contract, NEW insert, NEW end, insert # end,
         LocksSay(rows, Calls(D, contract, {insert}), Calls(D, contract, {end}), Q \cup {z}),
         NEW u, LockCalled(u, rows, contract, insert, end, z)
  PROVE  LocksSay(u, Calls(D \cup {z}, contract, {insert}), Calls(D \cup {z}, contract, {end}), Q)
<1> DEFINE opened == Calls(D, contract, {insert})
           closed == Calls(D, contract, {end})
           opens == z \in Calls({z}, contract, {insert})
           closes == z \in Calls({z}, contract, {end})
<1>1. /\ \A c \in opened : IsCall(c) /\ OnChain(c)
      /\ closed \in SUBSET D
      /\ opens \/ closes => IsCall(z)
  <2>1. (\A y \in D : OnChain(y)) /\ \A y \in {z} : OnChain(y)
    BY DEF Turn
  <2>2. opened \subseteq D /\ closed \subseteq D
    BY DEF Calls
  <2>3. \A c \in opened : IsCall(c) /\ OnChain(c)
    BY <2>1, CallFacts
  <2>4. opens \/ closes => IsCall(z)
    BY <2>1, CallFacts
  <2> QED  BY <2>2, <2>3, <2>4
<1>2. /\ \A x \in closed : x.hash = z.hash => closes
      /\ closes => Calls(D \cup {z}, contract, {end}) = closed \cup {z}
      /\ ~closes => Calls(D \cup {z}, contract, {end}) = closed
      /\ opens => Calls(D \cup {z}, contract, {insert}) = opened \cup {z}
      /\ ~opens => Calls(D \cup {z}, contract, {insert}) = opened
  <2>1. \A methods :
          /\ z \in Calls({z}, contract, methods) =>
               Calls(D \cup {z}, contract, methods) = Calls(D, contract, methods) \cup {z}
          /\ z \notin Calls({z}, contract, methods) =>
               Calls(D \cup {z}, contract, methods) = Calls(D, contract, methods)
          /\ \A x \in Calls(D, contract, methods) :
               x.hash = z.hash => z \in Calls({z}, contract, methods)
    BY CallOne
  <2> QED  BY <2>1
<1>3. ~(opens /\ closes) /\ (~opens /\ ~closes => z \notin Calls({z}, contract, {insert, end}))
  BY DEF Calls
<1>4. LocksSay(rows, opened, closed, Q \cup {z})
  OBVIOUS
<1> HIDE DEF opened, closed, opens, closes
<1>5. CASE opens
  <2>1. InsertsLock(u, rows, SendOf(z))
    BY <1>5 DEF LockCalled, opens
  <2>2. LocksSay(u, opened \cup {z}, closed, Q)
    BY <1>1, <1>2, <1>3, <1>4, <1>5, <2>1, LockInserted
  <2> QED  BY <1>2, <1>3, <1>5, <2>2
<1>6. CASE closes
  <2>1. EndsLock(u, rows, SendOf(z))
    <3>1. CASE SendOf(z).call.id # ""
      BY <1>6, <3>1 DEF LockCalled, closes
    <3>2. CASE SendOf(z).call.id = ""
      <4>1. u = rows
        BY <1>6, <3>2 DEF LockCalled, closes
      <4>2. ASSUME NEW k \in DOMAIN rows PROVE rows[k].cancelID # ""
        <5>1. PICK c \in opened : k = SendOf(c).hash
          BY <1>4 DEF LocksSay
        <5>2. k # ""
          BY <1>1, <5>1, SendFacts
        <5> QED  BY <1>4, <5>2 DEF LocksSay, LockRow
      <4> QED  BY <3>2, <4>1, <4>2 DEF EndsLock
    <3> QED  BY <3>1, <3>2
  <2>2. LocksSay(u, opened, closed \cup {z}, Q)
    BY <1>1, <1>4, <1>6, <2>1, LockEnded
  <2> QED  BY <1>2, <1>3, <1>6, <2>2
<1>7. CASE ~opens /\ ~closes
  <2>1. u = rows
    BY <1>3, <1>7 DEF LockCalled
  <2>2. LocksSay(rows, opened, closed, Q)
    BY <1>2, <1>4, <1>7, LockKept
  <2> QED  BY <1>2, <1>7, <2>1, <2>2
<1> QED  BY <1>5, <1>6, <1>7

-----------------------------------------------------------------------------
(* Order: HTLCs *)

\* What creating the entry of the send s leaves, and what settling one leaves.
InsertsHtlc(u, rows, s) ==
  /\ DOMAIN u = DOMAIN rows \cup {s.hash}
  /\ \A k \in DOMAIN rows : u[k] = rows[k]
  /\ s.hash \notin DOMAIN rows => u[s.hash].status = "active"
SettlesHtlc(u, rows, z) ==
  /\ DOMAIN u = DOMAIN rows
  /\ \A k \in DOMAIN rows :
       IF k = SendOf(z).call.id THEN u[k].status = StatusBy(z) ELSE u[k] = rows[k]

\* A call of another block changes nothing of what settles an entry.
LEMMA SettledStays ==
  ASSUME NEW row1, NEW ends, NEW Q, NEW z, \A x \in ends : ~(x.hash = z.hash),
         SettledBy(row1, ends, Q \cup {z})
  PROVE  SettledBy(row1, ends, Q)
<1>1. \A x \in ends : Due(x, Q \cup {z}) => Due(x, Q)
  BY OtherDue, Zenon
<1>2. ASSUME NEW x, Decides(x, ends, Q \cup {z}) PROVE Decides(x, ends, Q)
  BY <1>1, <1>2 DEF Decides
<1> QED  BY <1>1, <1>2 DEF SettledBy

\* A call that creates an entry.
LEMMA HtlcInserted ==
  ASSUME world \in Worlds, NEW D, NEW z, NEW Q, Turn(D, z, Q), IsCall(z),
         NEW rows, NEW opened, \A c \in opened : IsCall(c) /\ OnChain(c),
         NEW settled \in SUBSET D, \A x \in settled : ~(x.hash = z.hash),
         HtlcsSay(rows, opened, settled, Q \cup {z}),
         NEW u, InsertsHtlc(u, rows, SendOf(z))
  PROVE  HtlcsSay(u, opened \cup {z}, settled, Q)
<1> DEFINE k0 == SendOf(z).hash
           Says(v, c) == Since(c, Settling(c, settled)) => SettledBy(v, Settling(c, settled), Q)
<1>1. DOMAIN u = {SendOf(x).hash : x \in opened \cup {z}}
  BY DEF InsertsHtlc, HtlcsSay
<1>2. ASSUME NEW c \in opened PROVE Says(u[SendOf(c).hash], c)
  <2>1. SendOf(c).hash \in DOMAIN rows
    BY DEF HtlcsSay
  <2>2. u[SendOf(c).hash] = rows[SendOf(c).hash]
    BY <2>1 DEF InsertsHtlc
  <2>3. \A x \in Settling(c, settled) : ~(x.hash = z.hash)
    BY DEF Settling
  <2>4. Since(c, Settling(c, settled)) =>
          SettledBy(rows[SendOf(c).hash], Settling(c, settled), Q \cup {z})
    BY DEF HtlcsSay
  <2> QED  BY <2>2, <2>3, <2>4, SettledStays
<1>3. Says(u[k0], z)
  <2>1. CASE k0 \in DOMAIN rows
    <3>1. PICK c \in opened : SendOf(c).hash = k0
      BY <2>1 DEF HtlcsSay
    <3>2. c.hash = z.hash
      BY <3>1, SendFacts
    <3>3. Settling(c, settled) = Settling(z, settled)
      BY <3>2, SameEnds
    <3>4. Since(c, Settling(c, settled)) <=> Since(z, Settling(z, settled))
      BY <3>2, <3>3, SameEnds
    <3> QED  BY <1>2, <3>1, <3>3, <3>4
  <2>2. CASE k0 \notin DOMAIN rows
    <3>1. u[k0].status = "active"
      BY <2>2 DEF InsertsHtlc
    <3>2. ASSUME Since(z, Settling(z, settled)), NEW x \in Settling(z, settled)
          PROVE  Due(x, Q)
      <4>1. x \in D /\ x \in settled /\ Earlier(z, x)
        BY <3>2 DEF Settling, Since
      <4>2. ~Earlier(x, z)
        BY <4>1, EarlierStrict DEF Turn
      <4> QED  BY <4>1, <4>2 DEF Turn, Repeats
    <3> QED  BY <3>1, <3>2 DEF SettledBy
  <2> QED  BY <2>1, <2>2
<1>4. \A c \in opened \cup {z} : Says(u[SendOf(c).hash], c)
  BY <1>2, <1>3
<1> QED  BY <1>1, <1>4 DEF HtlcsSay

\* A call that settles one.
LEMMA HtlcSettled ==
  ASSUME world \in Worlds, NEW D, NEW z, NEW Q, Turn(D, z, Q),
         NEW rows, NEW opened, NEW settled \in SUBSET D,
         HtlcsSay(rows, opened, settled, Q \cup {z}),
         NEW u, SettlesHtlc(u, rows, z)
  PROVE  HtlcsSay(u, opened, settled \cup {z}, Q)
<1> DEFINE all == settled \cup {z}
<1>1. DOMAIN u = {SendOf(x).hash : x \in opened}
  BY DEF SettlesHtlc, HtlcsSay
<1>2. ASSUME NEW c \in opened, Since(c, Settling(c, all))
      PROVE  SettledBy(u[SendOf(c).hash], Settling(c, all), Q)
  <2> DEFINE k == SendOf(c).hash
             ends == Settling(c, settled)
  <2>1. k \in DOMAIN rows
    BY DEF HtlcsSay
  <2>2. CASE SendOf(z).call.id = k
    <3>1. Settling(c, all) = ends \cup {z} /\ ends \in SUBSET D
      BY <2>2 DEF Settling
    <3>2. Decides(z, Settling(c, all), Q)
      BY <3>1, TurnDecides
    <3>3. u[k].status = StatusBy(z)
      BY <2>1, <2>2 DEF SettlesHtlc
    <3> QED  BY <3>2, <3>3 DEF SettledBy
  <2>3. CASE SendOf(z).call.id # k
    <3>1. u[k] = rows[k]
      BY <2>1, <2>3 DEF SettlesHtlc
    <3>2. Settling(c, all) = ends
      BY <2>3 DEF Settling
    <3>3. SettledBy(rows[k], ends, Q \cup {z})
      BY <1>2, <3>2 DEF HtlcsSay
    <3>4. \A x \in ends : ~(x.hash = z.hash)
      BY <2>3 DEF Settling, SendOf
    <3> QED  BY <3>1, <3>2, <3>3, <3>4, SettledStays
  <2> QED  BY <2>2, <2>3
<1> QED  BY <1>1, <1>2 DEF HtlcsSay

\* The table u of HTLCs after the call z was executed on rows.
HtlcCalled(u, rows, z) ==
  /\ z \in Calls({z}, "htlc", {"Create"}) => InsertsHtlc(u, rows, SendOf(z))
  /\ z \in Calls({z}, "htlc", {"Unlock", "Reclaim"}) =>
       IF SendOf(z).call.id = "" THEN u = rows ELSE SettlesHtlc(u, rows, z)
  /\ z \notin Calls({z}, "htlc", {"Create", "Unlock", "Reclaim"}) => u = rows

\* HTLCs: one more call.
LEMMA HtlcsTurn ==
  ASSUME world \in Worlds, NEW D, NEW z, NEW Q, Turn(D, z, Q), NEW rows,
         HtlcsSay(rows, Calls(D, "htlc", {"Create"}), Calls(D, "htlc", {"Unlock", "Reclaim"}),
                  Q \cup {z}),
         NEW u, HtlcCalled(u, rows, z)
  PROVE  HtlcsSay(u, Calls(D \cup {z}, "htlc", {"Create"}),
                  Calls(D \cup {z}, "htlc", {"Unlock", "Reclaim"}), Q)
<1> DEFINE opened == Calls(D, "htlc", {"Create"})
           settled == Calls(D, "htlc", {"Unlock", "Reclaim"})
           opens == z \in Calls({z}, "htlc", {"Create"})
           settles == z \in Calls({z}, "htlc", {"Unlock", "Reclaim"})
<1>1. /\ \A c \in opened : IsCall(c) /\ OnChain(c)
      /\ settled \in SUBSET D
      /\ opens => IsCall(z)
  <2>1. (\A y \in D : OnChain(y)) /\ \A y \in {z} : OnChain(y)
    BY DEF Turn
  <2>2. settled \subseteq D
    BY DEF Calls
  <2>3. \A c \in opened : IsCall(c) /\ OnChain(c)
    BY <2>1, CallFacts
  <2>4. opens => IsCall(z)
    BY <2>1, CallFacts
  <2> QED  BY <2>2, <2>3, <2>4
<1>2. /\ \A x \in settled : x.hash = z.hash => settles
      /\ settles => Calls(D \cup {z}, "htlc", {"Unlock", "Reclaim"}) = settled \cup {z}
      /\ ~settles => Calls(D \cup {z}, "htlc", {"Unlock", "Reclaim"}) = settled
      /\ opens => Calls(D \cup {z}, "htlc", {"Create"}) = opened \cup {z}
      /\ ~opens => Calls(D \cup {z}, "htlc", {"Create"}) = opened
  <2>1. \A methods :
          /\ z \in Calls({z}, "htlc", methods) =>
               Calls(D \cup {z}, "htlc", methods) = Calls(D, "htlc", methods) \cup {z}
          /\ z \notin Calls({z}, "htlc", methods) =>
               Calls(D \cup {z}, "htlc", methods) = Calls(D, "htlc", methods)
          /\ \A x \in Calls(D, "htlc", methods) :
               x.hash = z.hash => z \in Calls({z}, "htlc", methods)
    BY CallOne
  <2> QED  BY <2>1
<1>3. /\ ~(opens /\ settles)
      /\ ~opens /\ ~settles => z \notin Calls({z}, "htlc", {"Create", "Unlock", "Reclaim"})
  BY DEF Calls
<1>4. HtlcsSay(rows, opened, settled, Q \cup {z})
  OBVIOUS
<1> HIDE DEF opened, settled, opens, settles
<1>5. CASE opens
  <2>1. InsertsHtlc(u, rows, SendOf(z))
    BY <1>5 DEF HtlcCalled, opens
  <2>2. HtlcsSay(u, opened \cup {z}, settled, Q)
    BY <1>1, <1>2, <1>3, <1>4, <1>5, <2>1, HtlcInserted
  <2> QED  BY <1>2, <1>3, <1>5, <2>2
<1>6. CASE settles
  <2>1. SettlesHtlc(u, rows, z)
    <3>1. CASE SendOf(z).call.id # ""
      BY <1>6, <3>1 DEF HtlcCalled, settles
    <3>2. CASE SendOf(z).call.id = ""
      <4>1. u = rows
        BY <1>6, <3>2 DEF HtlcCalled, settles
      <4>2. ASSUME NEW k \in DOMAIN rows PROVE k # ""
        <5>1. PICK c \in opened : k = SendOf(c).hash
          BY <1>4 DEF HtlcsSay
        <5> QED  BY <1>1, <5>1, SendFacts
      <4> QED  BY <3>2, <4>1, <4>2 DEF SettlesHtlc
    <3> QED  BY <3>1, <3>2
  <2>2. HtlcsSay(u, opened, settled \cup {z}, Q)
    BY <1>1, <1>4, <1>6, <2>1, HtlcSettled
  <2> QED  BY <1>2, <1>3, <1>6, <2>2
<1>7. CASE ~opens /\ ~settles
  <2>1. u = rows
    BY <1>3, <1>7 DEF HtlcCalled
  <2>2. HtlcsSay(rows, opened, settled, Q)
    <3>1. ASSUME NEW c PROVE \A x \in Settling(c, settled) : ~(x.hash = z.hash)
      BY <1>2, <1>7 DEF Settling
    <3> QED  BY <1>4, <3>1, SettledStays DEF HtlcsSay
  <2> QED  BY <1>2, <1>7, <2>1, <2>2
<1> QED  BY <1>5, <1>6, <1>7

-----------------------------------------------------------------------------
(* Order: votes *)

\* The table u of votes after the call z was executed on rows.
VoteCalled(u, rows, z) ==
  /\ z \in Cast({z}) =>
       /\ DOMAIN u = DOMAIN rows \cup {VoteKey(z)}
       /\ \A k \in DOMAIN rows : k # VoteKey(z) => u[k] = rows[k]
       /\ u[VoteKey(z)].vote = SendOf(z).call.vote /\ "vote" \in DOMAIN u[VoteKey(z)]
  /\ z \notin Cast({z}) => u = rows

\* What repeats a vote is a vote of the same voter.
LEMMA CastOne ==
  ASSUME NEW xs, NEW z
  PROVE  /\ z \in Cast({z}) => Cast(xs \cup {z}) = Cast(xs) \cup {z}
         /\ z \notin Cast({z}) => Cast(xs \cup {z}) = Cast(xs)
         /\ \A x \in Cast(xs) : Repeats(x, z) => z \in Cast({z}) /\ VoteKey(x) = VoteKey(z)
         /\ Cast(xs) \subseteq xs
BY DEF Cast, Calls, SendOf, Repeats, VoteKey

\* Votes: one more call.
LEMMA VotesTurn ==
  ASSUME NEW D, NEW z, NEW Q, Turn(D, z, Q), NEW rows, VotesSay(rows, Cast(D), Q \cup {z}),
         NEW u, VoteCalled(u, rows, z)
  PROVE  VotesSay(u, Cast(D \cup {z}), Q)
<1> DEFINE cast == Cast(D)
<1>1. /\ z \in Cast({z}) => Cast(D \cup {z}) = cast \cup {z}
      /\ z \notin Cast({z}) => Cast(D \cup {z}) = cast
      /\ \A x \in cast : Repeats(x, z) => z \in Cast({z}) /\ VoteKey(x) = VoteKey(z)
      /\ cast \subseteq D
  BY CastOne
<1>2. VotesSay(rows, cast, Q \cup {z})
  OBVIOUS
<1> HIDE DEF cast
<1>3. ASSUME NEW k \in DOMAIN rows, z \notin Cast({z}) \/ k # VoteKey(z)
      PROVE  \E x : Decides(x, VotesOn(cast, k), Q) /\ rows[k].vote = SendOf(x).call.vote
  <2>1. PICK x : /\ Decides(x, VotesOn(cast, k), Q \cup {z})
                 /\ rows[k].vote = SendOf(x).call.vote
    BY <1>2, <1>3 DEF VotesSay
  <2>2. \A y \in VotesOn(cast, k) : ~Repeats(y, z)
    BY <1>1, <1>3 DEF VotesOn
  <2>3. Decides(x, VotesOn(cast, k), Q)
    BY <2>1, <2>2, StillDecides
  <2> QED  BY <2>1, <2>3
<1>4. CASE z \in Cast({z})
  <2> DEFINE k0 == VoteKey(z)
  <2>1. /\ DOMAIN u = DOMAIN rows \cup {k0} /\ u[k0].vote = SendOf(z).call.vote
        /\ "vote" \in DOMAIN u[k0]
        /\ \A k \in DOMAIN rows : k # k0 => u[k] = rows[k]
    BY <1>4 DEF VoteCalled
  <2>2. DOMAIN u = {VoteKey(x) : x \in cast \cup {z}}
    BY <1>2, <2>1 DEF VotesSay
  <2>3. Decides(z, VotesOn(cast \cup {z}, k0), Q)
    <3>1. VotesOn(cast \cup {z}, k0) = VotesOn(cast, k0) \cup {z} /\ VotesOn(cast, k0) \in SUBSET D
      BY <1>1 DEF VotesOn
    <3> QED  BY <3>1, TurnDecides
  <2>4. ASSUME NEW k \in DOMAIN rows, k # k0
        PROVE  \E x : Decides(x, VotesOn(cast \cup {z}, k), Q) /\ u[k].vote = SendOf(x).call.vote
    <3>1. VotesOn(cast \cup {z}, k) = VotesOn(cast, k)
      BY <2>4 DEF VotesOn
    <3>2. u[k] = rows[k]
      BY <2>1, <2>4
    <3>3. \E x : Decides(x, VotesOn(cast, k), Q) /\ rows[k].vote = SendOf(x).call.vote
      BY <1>3, <2>4
    <3> QED  BY <3>1, <3>2, <3>3
  <2>5. VotesSay(u, cast \cup {z}, Q)
    BY <1>2, <2>1, <2>2, <2>3, <2>4 DEF VotesSay, VoteRows
  <2> QED  BY <1>1, <1>4, <2>5
<1>5. CASE z \notin Cast({z})
  <2>1. u = rows
    BY <1>5 DEF VoteCalled
  <2>2. VotesSay(rows, cast, Q)
    BY <1>2, <1>3, <1>5 DEF VotesSay
  <2> QED  BY <1>1, <1>5, <2>1, <2>2
<1> QED  BY <1>4, <1>5

-----------------------------------------------------------------------------
(* Order: delegations *)

\* The delegations u after the call z was executed on rows.
DelegationCalled(u, rows, z) ==
  \A a :
    /\ z \in Moves({z}, a) => Shown(u, a) = Chosen({z})
    /\ z \notin Moves({z}, a) => Shown(u, a) = Shown(rows, a)

\* What repeats a move is a move, to the same pillar.
LEMMA MoveOne ==
  ASSUME NEW xs, NEW z, NEW a
  PROVE  /\ z \in Moves({z}, a) => Moves(xs \cup {z}, a) = Moves(xs, a) \cup {z}
         /\ z \notin Moves({z}, a) => Moves(xs \cup {z}, a) = Moves(xs, a)
         /\ \A x \in Moves(xs, a) : Repeats(x, z) => z \in Moves({z}, a)
         /\ Moves(xs, a) \subseteq xs
BY DEF Moves, Calls, SendOf, Repeats

\* Delegations: one more call.
LEMMA DelegationsTurn ==
  ASSUME NEW D, NEW z, NEW Q, Turn(D, z, Q), NEW rows, DelegationsSay(rows, D, Q \cup {z}),
         NEW u, DelegationCalled(u, rows, z)
  PROVE  DelegationsSay(u, D \cup {z}, Q)
<1> SUFFICES ASSUME NEW a PROVE MovedBy(Shown(u, a), Moves(D \cup {z}, a), Q)
  BY DEF DelegationsSay
<1> DEFINE moves == Moves(D, a)
<1>1. /\ z \in Moves({z}, a) => Moves(D \cup {z}, a) = moves \cup {z}
      /\ z \notin Moves({z}, a) => Moves(D \cup {z}, a) = moves
      /\ \A x \in moves : Repeats(x, z) => z \in Moves({z}, a)
      /\ moves \subseteq D
  BY MoveOne
<1>2. MovedBy(Shown(rows, a), moves, Q \cup {z})
  BY DEF DelegationsSay
<1> HIDE DEF moves
<1>3. CASE z \in Moves({z}, a)
  <2>1. Decides(z, moves \cup {z}, Q)
    BY <1>1, TurnDecides
  <2>2. Shown(u, a) = Chosen({z})
    BY <1>3 DEF DelegationCalled
  <2> QED  BY <1>1, <1>3, <2>1, <2>2 DEF MovedBy
<1>4. CASE z \notin Moves({z}, a)
  <2>1. Shown(u, a) = Shown(rows, a)
    BY <1>4 DEF DelegationCalled
  <2>2. \A y \in moves : ~Repeats(y, z)
    BY <1>1, <1>4
  <2>3. \A x : Decides(x, moves, Q \cup {z}) => Decides(x, moves, Q)
    BY <2>2, StillDecides
  <2> QED  BY <1>1, <1>2, <1>4, <2>1, <2>3 DEF MovedBy
<1> QED  BY <1>3, <1>4

-----------------------------------------------------------------------------
(* Which tables a contract's statements write *)

\* Writing none.
LEMMA OnlyNone ==
  ASSUME NEW d, Fine(d), NEW F
  PROVE  Only(d, d, F)
BY DEF Only, Fine

\* One table is replaced.
LEMMA OnlyOne ==
  ASSUME NEW d, Fine(d), NEW v
  PROVE  /\ Only(d, [d EXCEPT !.stakes = v], {"stakes"})
         /\ Only(d, [d EXCEPT !.fusions = v], {"fusions"})
         /\ Only(d, [d EXCEPT !.sentinels = v], {"sentinels"})
         /\ Only(d, [d EXCEPT !.votes = v], {"votes"})
         /\ Only(d, [d EXCEPT !.htlcs = v], {"htlcs"})
         /\ Only(d, [d EXCEPT !.retrievals = v], {"retrievals"})
         /\ Only(d, [d EXCEPT !.mints = v], {"mints"})
         /\ Only(d, [d EXCEPT !.tokens = v], {"tokens"})
         /\ Only(d, [d EXCEPT !.pillars = v], {"pillars"})
BY DEF Only, Fine, Tables, EmptyDB

PillarTables == {"updates", "pillars", "accounts", "delegations"}
TokenTables == {"mints", "burns", "tokens"}

\* The tables the pillar contract writes.
LEMMA PillarOnly ==
  ASSUME NEW d, Fine(d), NEW q, NEW ts
  PROVE  Only(d, indexPillarContract(d, q, ts), PillarTables)
<1>1. ASSUME NEW v, NEW w PROVE /\ Only(d, [d EXCEPT !.updates = v, !.pillars = w], PillarTables)
                                /\ Only(d, [d EXCEPT !.accounts = v, !.delegations = w], PillarTables)
                                /\ Only(d, [d EXCEPT !.pillars = v], PillarTables)
  BY DEF Only, Fine, Tables, EmptyDB, PillarTables
<1>2. Only(d, d, PillarTables)
  BY OnlyNone
<1> QED  BY <1>1, <1>2 DEF indexPillarContract

\* The tables the token contract writes.
LEMMA TokenOnly ==
  ASSUME NEW d, Fine(d), NEW q, NEW ts
  PROVE  Only(d, indexTokenContract(d, q, ts), TokenTables)
<1>1. ASSUME NEW v, NEW w PROVE /\ Only(d, [d EXCEPT !.burns = v, !.tokens = w], TokenTables)
                                /\ Only(d, [d EXCEPT !.mints = v], TokenTables)
                                /\ Only(d, [d EXCEPT !.tokens = v], TokenTables)
  BY DEF Only, Fine, Tables, EmptyDB, TokenTables
<1>2. Only(d, d, TokenTables)
  BY OnlyNone
<1> QED  BY <1>1, <1>2 DEF indexTokenContract

\* Each of the other contracts writes one table.
LEMMA ContractOnly ==
  ASSUME NEW d, Fine(d), NEW q, NEW ts
  PROVE  /\ Only(d, indexStakeContract(d, q, ts), {"stakes"})
         /\ Only(d, indexSentinelContract(d, q), {"sentinels"})
         /\ Only(d, indexPlasmaContract(d, q, ts), {"fusions"})
         /\ Only(d, indexAcceleratorContract(d, q, ts), {"votes"})
         /\ Only(d, indexHtlcContract(d, q, ts), {"htlcs"})
         /\ Only(d, indexSwapContract(d, q, ts), {"retrievals"})
<1>1. Only(d, indexStakeContract(d, q, ts), {"stakes"})
  BY OnlyOne, OnlyNone DEF indexStakeContract
<1>2. Only(d, indexSentinelContract(d, q), {"sentinels"})
  BY OnlyOne, OnlyNone DEF indexSentinelContract
<1>3. Only(d, indexPlasmaContract(d, q, ts), {"fusions"})
  BY OnlyOne, OnlyNone DEF indexPlasmaContract
<1>4. Only(d, indexAcceleratorContract(d, q, ts), {"votes"})
  BY OnlyOne, OnlyNone DEF indexAcceleratorContract
<1>5. Only(d, indexHtlcContract(d, q, ts), {"htlcs"})
  BY OnlyOne, OnlyNone DEF indexHtlcContract
<1>6. Only(d, indexSwapContract(d, q, ts), {"retrievals"})
  BY OnlyOne, OnlyNone DEF indexSwapContract
<1> QED  BY <1>1, <1>2, <1>3, <1>4, <1>5, <1>6

\* The five tables whose order matters.
OrderTables == {"stakes", "fusions", "htlcs", "votes", "delegations"}
SameRows(d, e) ==
  /\ e.stakes = d.stakes /\ e.fusions = d.fusions /\ e.htlcs = d.htlcs
  /\ e.votes = d.votes /\ e.delegations = d.delegations

\* A table that is not among those written is as it was.
LEMMA OnlySame ==
  ASSUME NEW d, NEW e, NEW F, Only(d, e, F)
  PROVE  /\ "stakes" \notin F => e.stakes = d.stakes
         /\ "fusions" \notin F => e.fusions = d.fusions
         /\ "htlcs" \notin F => e.htlcs = d.htlcs
         /\ "votes" \notin F => e.votes = d.votes
         /\ "delegations" \notin F => e.delegations = d.delegations
         /\ "rewards" \notin F => e.rewards = d.rewards
         /\ "cumulative" \notin F => e.cumulative = d.cumulative
         /\ "accounts" \notin F => e.accounts = d.accounts
         /\ "blocks" \notin F => e.blocks = d.blocks
         /\ "tokens" \notin F => e.tokens = d.tokens
BY DEF Only, Tables, EmptyDB

-----------------------------------------------------------------------------
(* Order: what a queued block does to the five tables *)

\* A queued block is built from the block and, decoded, from its pair.
Built(q) ==
  /\ q.block = world.blocks[q.hash]
  /\ q.call = IF q.paired = NoBlock THEN NoCall ELSE tryDecodeTxData(q.paired)

\* A call of a method of the contract's ABI is decoded as it was sent.
LEMMA Decoded ==
  ASSUME NEW s, s.to \in Embedded
  PROVE  LET c == tryDecodeTxData(s) IN
         /\ c = s.call \/ c = NoCall
         /\ s.call.method \in ContractAbi(s.to) => c = s.call
<1>1. tryDecodeFromAbi(s.call, CommonAbi) \in {s.call, NoCall}
  BY DEF tryDecodeFromAbi
<1>2. tryDecodeFromAbi(s.call, ContractAbi(s.to)) \in {s.call, NoCall}
  BY DEF tryDecodeFromAbi
<1>3. s.call.method \in ContractAbi(s.to) => tryDecodeFromAbi(s.call, ContractAbi(s.to)) = s.call
  BY DEF tryDecodeFromAbi
<1> QED  BY <1>1, <1>2, <1>3 DEF tryDecodeTxData

\* The queued block of a contract's call has the call as it was sent.
LEMMA QueuedCall ==
  ASSUME world \in Worlds, height \in DOMAIN world.chain,
         NEW q, Built(q), PairedRight(q),
         world.blocks[q.hash].type = "contractReceive", world.blocks[q.hash].address \in Embedded
  PROVE  LET s == SendOf(ItemOf(q)) IN
         /\ q.paired = s /\ q.paired # NoBlock
         /\ q.call = s.call \/ q.call = NoCall
         /\ s.call.method \in ContractAbi(world.blocks[q.hash].address) => q.call = s.call
<1> DEFINE s == SendOf(ItemOf(q))
<1>1. IsCall(ItemOf(q)) /\ ItemOf(q).hash = q.hash
  BY ChainFacts DEF PairedRight, IsCall, ItemOf
<1>2. /\ s.hash = world.blocks[q.hash].from /\ s = world.blocks[s.hash] /\ s.hash # ""
      /\ s.to = world.blocks[q.hash].address
  BY <1>1, SendFacts
<1>3. q.paired = s
  BY <1>2 DEF PairedRight
<1>4. q.paired # NoBlock
  <2>1. NoBlock.hash = ""
    BY DEF NoBlock
  <2> HIDE DEF s
  <2> QED  BY <1>2, <1>3, <2>1
<1>5. q.call = tryDecodeTxData(s)
  BY <1>3, <1>4 DEF Built
<1> HIDE DEF s
<1>6. /\ q.call = s.call \/ q.call = NoCall
      /\ s.call.method \in ContractAbi(s.to) => q.call = s.call
  BY <1>2, <1>5, Decoded
<1> QED  BY <1>2, <1>3, <1>4, <1>6 DEF s

\* The tables e after the call z was executed on d.
Called(e, d, z) ==
  /\ LockCalled(e.stakes, d.stakes, "stake", "Stake", "Cancel", z)
  /\ LockCalled(e.fusions, d.fusions, "plasma", "Fuse", "CancelFuse", z)
  /\ HtlcCalled(e.htlcs, d.htlcs, z)
  /\ VoteCalled(e.votes, d.votes, z)
  /\ DelegationCalled(e.delegations, d.delegations, z)

\* What is no call of a contract touches none of its tables.
Foreign(z, contract) ==
  ~(world.blocks[z.hash].type = "contractReceive" /\ world.blocks[z.hash].address = contract)

\* It leaves them as they are.
LEMMA ForeignKeeps ==
  ASSUME NEW z, NEW t
  PROVE  /\ Foreign(z, "stake") => LockCalled(t, t, "stake", "Stake", "Cancel", z)
         /\ Foreign(z, "plasma") => LockCalled(t, t, "plasma", "Fuse", "CancelFuse", z)
         /\ Foreign(z, "htlc") => HtlcCalled(t, t, z)
         /\ Foreign(z, "accelerator") => VoteCalled(t, t, z)
         /\ Foreign(z, "pillar") => DelegationCalled(t, t, z)
<1>1. ASSUME NEW contract, Foreign(z, contract), NEW methods
      PROVE  z \notin Calls({z}, contract, methods)
  BY <1>1 DEF Foreign, Calls
<1>2. ASSUME Foreign(z, "accelerator") PROVE z \notin Cast({z})
  BY <1>1, <1>2 DEF Cast
<1>3. ASSUME Foreign(z, "pillar"), NEW a PROVE z \notin Moves({z}, a)
  BY <1>1, <1>3 DEF Moves
<1> QED  BY <1>1, <1>2, <1>3 DEF LockCalled, HtlcCalled, VoteCalled, DelegationCalled

\* Stakes.
LEMMA StakeCalled ==
  ASSUME NEW d, Fine(d), \A k \in DOMAIN d.stakes : LockRow(d.stakes[k], k), NEW q, NEW ts, NEW z, ItemOf(q) = z, NEW s, SendOf(z) = s,
         world.blocks[z.hash].type = "contractReceive", world.blocks[z.hash].address = "stake",
         q.paired = s, q.call = s.call \/ q.call = NoCall,
         s.call.method \in ContractAbi("stake") => q.call = s.call
  PROVE  LockCalled(indexStakeContract(d, q, ts).stakes, d.stakes, "stake", "Stake", "Cancel", z)
<1> DEFINE u == indexStakeContract(d, q, ts).stakes
<1>0. /\ z \in Calls({z}, "stake", {"Stake"}) <=> s.call.method = "Stake"
      /\ z \in Calls({z}, "stake", {"Cancel"}) <=> s.call.method = "Cancel"
      /\ z \in Calls({z}, "stake", {"Stake", "Cancel"}) <=> s.call.method \in {"Stake", "Cancel"}
  BY DEF Calls
<1>1. "stakes" \in DOMAIN d /\ NoCall.method = "" /\ ContractAbi("stake") = {"Stake", "Cancel"}
  BY DEF Fine, Tables, EmptyDB, NoCall, ContractAbi
<1>2. CASE s.call.method = "Stake"
  <2>1. q.call.method = "Stake"
    BY <1>1, <1>2
  <2>2. u = StakeInsert(d.stakes, s.hash, s.address, s.hash, ts)
    BY <1>1, <2>1 DEF indexStakeContract, getStakeCancelID, EncodeFunction, DecodeFunction
  <2> HIDE DEF u
  <2>3. InsertsLock(u, d.stakes, s)
    <3> DEFINE r == [address |-> s.address, cancelID |-> s.hash, started |-> ts, active |-> TRUE]
    <3>1. /\ {"cancelID", "address", "active"} \subseteq DOMAIN r
          /\ r.active /\ r.cancelID = s.hash /\ r.address = s.address
      OBVIOUS
    <3>2. u = InsertOrIgnore(d.stakes, s.hash, r)
      BY <2>2 DEF StakeInsert
    <3> HIDE DEF r
    <3> QED  BY <3>1, <3>2 DEF InsertsLock, InsertOrIgnore, Put
  <2> QED  BY <1>0, <1>2, <2>3 DEF LockCalled, u
<1>3. CASE s.call.method = "Cancel"
  <2>1. q.call.method = "Cancel" /\ q.call.id = s.call.id
    BY <1>1, <1>3
  <2>2. u = IF s.call.id = "" THEN d.stakes ELSE StakeSetInactive(d.stakes, s.call.id, s.address)
    BY <1>1, <2>1 DEF indexStakeContract, getStakeCancelID, EncodeFunction, DecodeFunction
  <2> HIDE DEF u
  <2>3. EndsLock(StakeSetInactive(d.stakes, s.call.id, s.address), d.stakes, s)
    <3> DEFINE v == StakeSetInactive(d.stakes, s.call.id, s.address)
    <3>1. ASSUME NEW k \in DOMAIN d.stakes
          PROVE  /\ DOMAIN v[k] = DOMAIN d.stakes[k]
                 /\ v[k].cancelID = d.stakes[k].cancelID /\ v[k].address = d.stakes[k].address
                 /\ IF d.stakes[k].cancelID = s.call.id /\ d.stakes[k].address = s.address
                      THEN ~v[k].active ELSE v[k] = d.stakes[k]
      <4>1. {"cancelID", "address", "active"} \subseteq DOMAIN d.stakes[k]
        BY DEF LockRow
      <4> QED  BY <4>1 DEF StakeSetInactive
    <3> QED  BY <3>1 DEF EndsLock, StakeSetInactive
  <2> QED  BY <1>0, <1>3, <2>2, <2>3 DEF LockCalled, u
<1>4. CASE s.call.method \notin {"Stake", "Cancel"}
  <2>1. q.call.method \notin {"Stake", "Cancel"}
    BY <1>1, <1>4
  <2>2. u = d.stakes
    BY <2>1 DEF indexStakeContract
  <2> HIDE DEF u
  <2> QED  BY <1>0, <1>4, <2>2 DEF LockCalled, u
<1> QED  BY <1>2, <1>3, <1>4

\* Fusions.
LEMMA FusionCalled ==
  ASSUME NEW d, Fine(d), \A k \in DOMAIN d.fusions : LockRow(d.fusions[k], k), NEW q, NEW ts, NEW z, ItemOf(q) = z, NEW s, SendOf(z) = s,
         world.blocks[z.hash].type = "contractReceive", world.blocks[z.hash].address = "plasma",
         q.paired = s, q.call = s.call \/ q.call = NoCall,
         s.call.method \in ContractAbi("plasma") => q.call = s.call
  PROVE  LockCalled(indexPlasmaContract(d, q, ts).fusions, d.fusions,
                    "plasma", "Fuse", "CancelFuse", z)
<1> DEFINE u == indexPlasmaContract(d, q, ts).fusions
           b == IF q.call.address = "" THEN s.address ELSE q.call.address
<1>0. /\ z \in Calls({z}, "plasma", {"Fuse"}) <=> s.call.method = "Fuse"
      /\ z \in Calls({z}, "plasma", {"CancelFuse"}) <=> s.call.method = "CancelFuse"
      /\ z \in Calls({z}, "plasma", {"Fuse", "CancelFuse"}) <=> s.call.method \in {"Fuse", "CancelFuse"}
  BY DEF Calls
<1>1. /\ "fusions" \in DOMAIN d /\ NoCall.method = ""
      /\ ContractAbi("plasma") = {"Fuse", "CancelFuse"}
  BY DEF Fine, Tables, EmptyDB, NoCall, ContractAbi
<1>2. CASE s.call.method = "Fuse"
  <2>1. q.call.method = "Fuse"
    BY <1>1, <1>2
  <2>2. u = FusionInsert(d.fusions, s.hash, s.address, b, s.hash, ts)
    BY <1>1, <2>1 DEF indexPlasmaContract, getFusionCancelID, EncodeFunction, DecodeFunction
  <2> HIDE DEF u, b
  <2>3. InsertsLock(u, d.fusions, s)
    <3> DEFINE r == [address |-> s.address, beneficiary |-> b, cancelID |-> s.hash, height |-> ts,
                      active |-> TRUE]
    <3>1. /\ {"cancelID", "address", "active"} \subseteq DOMAIN r
          /\ r.active /\ r.cancelID = s.hash /\ r.address = s.address
      OBVIOUS
    <3>2. u = InsertOrIgnore(d.fusions, s.hash, r)
      BY <2>2 DEF FusionInsert
    <3> HIDE DEF r
    <3> QED  BY <3>1, <3>2 DEF InsertsLock, InsertOrIgnore, Put
  <2> QED  BY <1>0, <1>2, <2>3 DEF LockCalled, u
<1>3. CASE s.call.method = "CancelFuse"
  <2>1. q.call.method = "CancelFuse" /\ q.call.id = s.call.id
    BY <1>1, <1>3
  <2>2. u = IF s.call.id = "" THEN d.fusions ELSE FusionSetInactive(d.fusions, s.call.id, s.address)
    BY <1>1, <2>1 DEF indexPlasmaContract, getFusionCancelID, EncodeFunction, DecodeFunction
  <2> HIDE DEF u
  <2>3. EndsLock(FusionSetInactive(d.fusions, s.call.id, s.address), d.fusions, s)
    <3> DEFINE v == FusionSetInactive(d.fusions, s.call.id, s.address)
    <3>1. ASSUME NEW k \in DOMAIN d.fusions
          PROVE  /\ DOMAIN v[k] = DOMAIN d.fusions[k]
                 /\ v[k].cancelID = d.fusions[k].cancelID /\ v[k].address = d.fusions[k].address
                 /\ IF d.fusions[k].cancelID = s.call.id /\ d.fusions[k].address = s.address
                      THEN ~v[k].active ELSE v[k] = d.fusions[k]
      <4>1. {"cancelID", "address", "active"} \subseteq DOMAIN d.fusions[k]
        BY DEF LockRow
      <4> QED  BY <4>1 DEF FusionSetInactive
    <3> QED  BY <3>1 DEF EndsLock, FusionSetInactive
  <2> QED  BY <1>0, <1>3, <2>2, <2>3 DEF LockCalled, u
<1>4. CASE s.call.method \notin {"Fuse", "CancelFuse"}
  <2>1. q.call.method \notin {"Fuse", "CancelFuse"}
    BY <1>1, <1>4
  <2>2. u = d.fusions
    BY <2>1 DEF indexPlasmaContract
  <2> HIDE DEF u
  <2> QED  BY <1>0, <1>4, <2>2 DEF LockCalled, u
<1> QED  BY <1>2, <1>3, <1>4

\* HTLCs.
LEMMA HtlcIsCalled ==
  ASSUME NEW d, Fine(d), NEW q, NEW ts, NEW z, ItemOf(q) = z, NEW s, SendOf(z) = s,
         world.blocks[z.hash].type = "contractReceive", world.blocks[z.hash].address = "htlc",
         q.paired = s, q.call = s.call \/ q.call = NoCall,
         s.call.method \in ContractAbi("htlc") => q.call = s.call
  PROVE  HtlcCalled(indexHtlcContract(d, q, ts).htlcs, d.htlcs, z)
<1> DEFINE u == indexHtlcContract(d, q, ts).htlcs
<1>0. /\ z \in Calls({z}, "htlc", {"Create"}) <=> s.call.method = "Create"
      /\ z \in Calls({z}, "htlc", {"Unlock", "Reclaim"}) <=> s.call.method \in {"Unlock", "Reclaim"}
      /\ z \in Calls({z}, "htlc", {"Create", "Unlock", "Reclaim"}) <=>
           s.call.method \in {"Create", "Unlock", "Reclaim"}
  BY DEF Calls
<1>1. /\ "htlcs" \in DOMAIN d /\ NoCall.method = ""
      /\ ContractAbi("htlc") = {"Create", "Unlock", "Reclaim"}
  BY DEF Fine, Tables, EmptyDB, NoCall, ContractAbi
<1>2. CASE s.call.method = "Create"
  <2> DEFINE r == [status |-> "active", locked |-> s.address, created |-> ts, settled |-> Null]
  <2>1. q.call.method = "Create"
    BY <1>1, <1>2
  <2>2. u = InsertOrIgnore(d.htlcs, s.hash, r) /\ r.status = "active"
    BY <1>1, <2>1 DEF indexHtlcContract, HtlcInsert
  <2> HIDE DEF u, r
  <2>3. InsertsHtlc(u, d.htlcs, s)
    BY <2>2 DEF InsertsHtlc, InsertOrIgnore, Put
  <2> QED  BY <1>0, <1>2, <2>3 DEF HtlcCalled, u
<1>3. CASE s.call.method \in {"Unlock", "Reclaim"}
  <2> DEFINE v == HtlcSettle(d.htlcs, s.call.id, StatusBy(z), ts)
  <2>1. q.call.method = s.call.method /\ q.call.id = s.call.id
    BY <1>1, <1>3
  <2>2. u = IF s.call.id = "" THEN d.htlcs ELSE v
    <3>1. CASE s.call.method = "Unlock"
      <4>1. StatusBy(z) = "unlocked"
        BY <3>1 DEF StatusBy
      <4> QED  BY <1>1, <2>1, <3>1, <4>1 DEF indexHtlcContract
    <3>2. CASE s.call.method = "Reclaim"
      <4>1. StatusBy(z) = "reclaimed"
        BY <3>2 DEF StatusBy
      <4> QED  BY <1>1, <2>1, <3>2, <4>1 DEF indexHtlcContract
    <3> QED  BY <1>3, <3>1, <3>2
  <2> HIDE DEF u
  <2>3. SettlesHtlc(v, d.htlcs, z)
    <3>1. ASSUME NEW k \in DOMAIN d.htlcs
          PROVE  IF k = SendOf(z).call.id THEN v[k].status = StatusBy(z) ELSE v[k] = d.htlcs[k]
      <4>1. "status" \in DOMAIN d.htlcs[k]
        BY DEF Fine, HtlcRows
      <4> QED  BY <4>1 DEF HtlcSettle
    <3> QED  BY <3>1 DEF SettlesHtlc, HtlcSettle
  <2> HIDE DEF v
  <2> QED  BY <1>0, <1>3, <2>2, <2>3 DEF HtlcCalled, u
<1>4. CASE s.call.method \notin {"Create", "Unlock", "Reclaim"}
  <2>1. q.call.method \notin {"Create", "Unlock", "Reclaim"}
    BY <1>1, <1>4
  <2>2. u = d.htlcs
    BY <2>1 DEF indexHtlcContract
  <2> HIDE DEF u
  <2> QED  BY <1>0, <1>4, <2>2 DEF HtlcCalled, u
<1> QED  BY <1>2, <1>3, <1>4

\* Votes: the voter is the one the statement was queued for.
LEMMA VoteIsCalled ==
  ASSUME NEW d, Fine(d), VoteRows(d.votes), NEW q, NEW ts, NEW z, ItemOf(q) = z,
         NEW s, SendOf(z) = s,
         world.blocks[z.hash].type = "contractReceive",
         world.blocks[z.hash].address = "accelerator",
         q.paired = s, q.call = s.call \/ q.call = NoCall,
         s.call.method \in ContractAbi("accelerator") => q.call = s.call
  PROVE  VoteCalled(indexAcceleratorContract(d, q, ts).votes, d.votes, z)
<1> DEFINE u == indexAcceleratorContract(d, q, ts).votes
           key == <<q.voter, q.call.id>>
           new == [project |-> q.votedOn[1], phase |-> q.votedOn[2],
                   vote |-> q.call.vote, height |-> ts]
           r == [Row(d.votes, key, new) EXCEPT !.vote = new.vote, !.height = new.height]
<1>0. z \in Cast({z}) <=> s.call.method \in {"VoteByName", "VoteByProdAddress"} /\ s.call.id # ""
  BY DEF Cast, Calls
<1>1. /\ "votes" \in DOMAIN d /\ NoCall.method = ""
      /\ {"VoteByName", "VoteByProdAddress"} \subseteq ContractAbi("accelerator")
  BY DEF Fine, Tables, EmptyDB, NoCall, ContractAbi
<1>2. CASE z \in Cast({z})
  <2>1. q.call = s.call
    BY <1>0, <1>1, <1>2
  <2>2. u = Put(d.votes, key, r)
    BY <1>0, <1>1, <1>2, <2>1 DEF indexAcceleratorContract, VoteInsert
  <2>3. key = VoteKey(z)
    <3>1. z.voter = q.voter
      BY DEF ItemOf
    <3> QED  BY <2>1, <3>1 DEF VoteKey
  <2>4. r.vote = s.call.vote /\ "vote" \in DOMAIN r
    <3>1. "vote" \in DOMAIN Row(d.votes, key, new)
      <4>1. "vote" \in DOMAIN new
        OBVIOUS
      <4> HIDE DEF new, key
      <4> QED  BY <4>1 DEF Row, VoteRows
    <3>2. new.vote = s.call.vote
      BY <2>1
    <3> HIDE DEF new, key
    <3> QED  BY <3>1, <3>2
  <2> HIDE DEF u, r, key
  <2>5. VoteCalled(u, d.votes, z)
    BY <1>2, <2>2, <2>3, <2>4 DEF VoteCalled, Put
  <2> QED  BY <2>5 DEF u
<1>3. CASE z \notin Cast({z})
  <2>1. ~(q.call.method \in {"VoteByName", "VoteByProdAddress"} /\ q.call.id # "")
    BY <1>0, <1>1, <1>3
  <2>2. u = d.votes
    BY <2>1 DEF indexAcceleratorContract
  <2> HIDE DEF u
  <2>3. VoteCalled(u, d.votes, z)
    BY <1>3, <2>2 DEF VoteCalled
  <2> QED  BY <2>3 DEF u
<1> QED  BY <1>2, <1>3

\* Closing shows nothing for the delegator, opening shows the new interval.
LEMMA ShownClosed ==
  ASSUME NEW s, DelegationRows(s), NEW a, NEW ts, ts # Null
  PROVE  /\ Shown(CloseActive(s, a, ts), a) = {}
         /\ \A b : b # a => Shown(CloseActive(s, a, ts), b) = Shown(s, b)
         /\ DelegationRows(CloseActive(s, a, ts))
<1> DEFINE c == CloseActive(s, a, ts)
<1>1. Closes(c, s, a, ts)
  BY CloseStatement
<1> HIDE DEF c
<1>2. OpenIntervals(c, a) = {}
  BY <1>1 DEF Closes, OpenIntervals
<1>3. ASSUME NEW b, b # a
      PROVE  OpenIntervals(c, b) = OpenIntervals(s, b) /\ \A i \in OpenIntervals(s, b) : c[i] = s[i]
  BY <1>1, <1>3 DEF Closes, OpenIntervals
<1>4. Shown(c, a) = {}
  BY <1>2 DEF Shown
<1>5. ASSUME NEW b, b # a PROVE Shown(c, b) = Shown(s, b)
  BY <1>3, <1>5 DEF Shown
<1> QED  BY <1>1, <1>4, <1>5 DEF c, Closes

\* An interval is opened.
LEMMA ShownOpened ==
  ASSUME NEW s, DelegationRows(s), NEW a, NEW p, NEW ts, Shown(s, a) = {}
  PROVE  /\ Shown(OpenDelegation(s, a, p, ts), a) = {[pillar |-> p, since |-> ts]}
         /\ \A b : b # a => Shown(OpenDelegation(s, a, p, ts), b) = Shown(s, b)
<1> DEFINE new == [delegator |-> a, pillar |-> p, started |-> ts, ended |-> Null]
           R == {s[i] : i \in DOMAIN s} \cup {new}
           o == Append(s, new)
           n == Len(s)
<1>1. n \in Nat /\ DOMAIN s = 1..n
  BY SequenceDomain DEF DelegationRows
<1>2. s \in Seq(R) /\ new \in R
  <2> HIDE DEF new
  <2>1. s \in Seq({s[i] : i \in DOMAIN s})
    BY DEF DelegationRows, IsSequence
  <2> QED  BY <2>1
<1>3. DOMAIN o = 1..(n + 1) /\ o[n + 1] = new /\ \A i \in 1..n : o[i] = s[i]
  <2> HIDE DEF new, R
  <2> QED  BY <1>2
<1>4. new.delegator = a /\ new.pillar = p /\ new.started = ts /\ new.ended = Null
  OBVIOUS
<1>5. OpenDelegation(s, a, p, ts) = o
  BY DEF OpenDelegation
<1> HIDE DEF o, n, new, R
<1>6. DOMAIN o = DOMAIN s \cup {n + 1} /\ n + 1 \notin DOMAIN s
  BY <1>1, <1>3
<1>7. OpenIntervals(s, a) = {}
  BY DEF Shown
<1>8. OpenIntervals(o, a) = {n + 1}
  BY <1>1, <1>3, <1>4, <1>6, <1>7 DEF OpenIntervals
<1>9. Shown(o, a) = {[pillar |-> p, since |-> ts]}
  BY <1>3, <1>4, <1>8 DEF Shown
<1>10. ASSUME NEW b, b # a PROVE Shown(o, b) = Shown(s, b)
  <2>1. OpenIntervals(o, b) = OpenIntervals(s, b) /\ \A i \in OpenIntervals(s, b) : o[i] = s[i]
    BY <1>1, <1>3, <1>4, <1>6, <1>10 DEF OpenIntervals
  <2> QED  BY <2>1 DEF Shown
<1> QED  BY <1>5, <1>9, <1>10

\* Delegations: ts is the height of the block.
LEMMA DelegationIsCalled ==
  ASSUME NEW d, Fine(d), NEW q, NEW ts, ts # Null, NEW z, ItemOf(q) = z, NEW s, SendOf(z) = s,
         Place(z.hash)[1] = ts,
         world.blocks[z.hash].type = "contractReceive", world.blocks[z.hash].address = "pillar",
         q.paired = s, q.call = s.call \/ q.call = NoCall,
         s.call.method \in ContractAbi("pillar") => q.call = s.call
  PROVE  DelegationCalled(indexPillarContract(d, q, ts).delegations, d.delegations, z)
<1> DEFINE u == indexPillarContract(d, q, ts).delegations
           closed == CloseActive(d.delegations, s.address, ts)
<1>0. \A a : z \in Moves({z}, a) <=>
        /\ s.call.method \in {"Delegate", "Undelegate"} /\ s.address = a
        /\ s.call.method = "Delegate" => q.pillarOwner # ""
  <2>1. z.owner = q.pillarOwner
    BY DEF ItemOf
  <2> QED  BY <2>1 DEF Moves, Calls
<1>1. /\ "delegations" \in DOMAIN d /\ "accounts" \in DOMAIN d /\ NoCall.method = ""
      /\ {"Delegate", "Undelegate"} \subseteq ContractAbi("pillar")
  BY DEF Fine, Tables, EmptyDB, NoCall, ContractAbi
<1>2. /\ Shown(closed, s.address) = {} /\ DelegationRows(closed)
      /\ \A b : b # s.address => Shown(closed, b) = Shown(d.delegations, b)
  BY ShownClosed DEF Fine
<1>3. CASE s.call.method = "Delegate" /\ q.pillarOwner # ""
  <2>1. q.call.method = "Delegate"
    BY <1>1, <1>3
  <2>2. u = OpenDelegation(closed, s.address, q.pillarOwner, ts)
    BY <1>1, <1>3, <2>1 DEF indexPillarContract
  <2> HIDE DEF u, closed
  <2>3. /\ Shown(u, s.address) = {[pillar |-> q.pillarOwner, since |-> ts]}
        /\ \A b : b # s.address => Shown(u, b) = Shown(d.delegations, b)
    BY <1>2, <2>2, ShownOpened
  <2>4. Chosen({z}) = {[pillar |-> q.pillarOwner, since |-> ts]}
    <3>1. z.owner = q.pillarOwner
      BY DEF ItemOf
    <3> QED  BY <1>3, <3>1 DEF Chosen
  <2>5. DelegationCalled(u, d.delegations, z)
    BY <1>0, <1>3, <2>3, <2>4 DEF DelegationCalled
  <2> QED  BY <2>5 DEF u
<1>4. CASE s.call.method = "Undelegate"
  <2>1. q.call.method = "Undelegate"
    BY <1>1, <1>4
  <2>2. u = closed
    BY <1>1, <2>1 DEF indexPillarContract
  <2> HIDE DEF u, closed
  <2>3. Chosen({z}) = {}
    BY <1>4 DEF Chosen
  <2>4. DelegationCalled(u, d.delegations, z)
    BY <1>0, <1>2, <1>4, <2>2, <2>3 DEF DelegationCalled
  <2> QED  BY <2>4 DEF u
<1>5. CASE \/ s.call.method \notin {"Delegate", "Undelegate"}
           \/ s.call.method = "Delegate" /\ q.pillarOwner = ""
  <2>1. \/ q.call.method \notin {"Delegate", "Undelegate"}
        \/ q.call.method = "Delegate" /\ q.pillarOwner = ""
    BY <1>1, <1>5
  <2>2. u = d.delegations
    <3>1. ASSUME NEW v, NEW w
          PROVE  /\ [d EXCEPT !.updates = v, !.pillars = w].delegations = d.delegations
                 /\ [d EXCEPT !.pillars = v].delegations = d.delegations
      BY <1>1
    <3> DEFINE c == q.call
               ds == q.block.descendants
               cost == world.blocks[ds[1]]
               ups == PillarUpdateInsert(d.updates, s.address, c.producer, c.withdraw, c.name, ts)
               pil == IF ds # <<>> /\ cost.to = "token"
                        THEN UpdateSpawnInfo(d.pillars, s.address, ts, safeBigIntToInt64(cost.amount))
                        ELSE d.pillars
               e == indexPillarContract(d, q, ts)
    <3>2. CASE c.method \in {"Register", "RegisterLegacy"} /\ c.name # ""
      <4>1. e = [d EXCEPT !.updates = ups, !.pillars = pil]
        BY <3>2 DEF indexPillarContract
      <4> HIDE DEF ups, pil, e
      <4> QED  BY <3>1, <4>1 DEF e
    <3>3. CASE c.method = "Revoke" /\ c.name # ""
      <4>1. e = [d EXCEPT !.pillars = SetAsRevoked(d.pillars, s.address, c.name, ts)]
        BY <3>3 DEF indexPillarContract
      <4> HIDE DEF e
      <4> QED  BY <3>1, <4>1 DEF e
    <3>4. CASE /\ ~(c.method \in {"Register", "RegisterLegacy"} /\ c.name # "")
               /\ ~(c.method = "Revoke" /\ c.name # "")
      <4>1. e = d
        BY <2>1, <3>4 DEF indexPillarContract
      <4> QED  BY <4>1
    <3> QED  BY <3>2, <3>3, <3>4
  <2> HIDE DEF u
  <2>3. DelegationCalled(u, d.delegations, z)
    BY <1>0, <1>5, <2>2 DEF DelegationCalled
  <2> QED  BY <2>3 DEF u
<1> QED  BY <1>3, <1>4, <1>5

\* What the five tables need of their rows.
OrderRows(d) ==
  /\ Fine(d) /\ VoteRows(d.votes)
  /\ \A k \in DOMAIN d.stakes : LockRow(d.stakes[k], k)
  /\ \A k \in DOMAIN d.fusions : LockRow(d.fusions[k], k)

\* Statements that write none of the five, for a block that is no call to them.
LEMMA ForeignCalled ==
  ASSUME NEW d, NEW e, NEW F, Only(d, e, F), F \cap OrderTables = {}, NEW z,
         \A contract \in {"stake", "plasma", "htlc", "accelerator", "pillar"} : Foreign(z, contract)
  PROVE  Called(e, d, z)
<1>1. /\ e.stakes = d.stakes /\ e.fusions = d.fusions /\ e.htlcs = d.htlcs
      /\ e.votes = d.votes /\ e.delegations = d.delegations
  BY OnlySame DEF OrderTables
<1> QED  BY <1>1, ForeignKeeps DEF Called

\* The statements of a contract for its own call.
LEMMA EmbeddedCalled ==
  ASSUME world \in Worlds, height \in DOMAIN world.chain, height # Null,
         NEW d, OrderRows(d), NEW q, Built(q), PairedRight(q),
         world.blocks[q.hash].type = "contractReceive", world.blocks[q.hash].address \in Embedded
  PROVE  Called(indexEmbeddedContracts(d, q, height), d, ItemOf(q))
<1> DEFINE z == ItemOf(q)
           s == SendOf(z)
           a == world.blocks[q.hash].address
           e == indexEmbeddedContracts(d, q, height)
<1>1. /\ q.paired = s /\ (q.call = s.call \/ q.call = NoCall)
      /\ s.call.method \in ContractAbi(a) => q.call = s.call
  BY QueuedCall
<1>2. z.hash = q.hash /\ q.block.address = a /\ Fine(d)
  BY DEF ItemOf, Built, OrderRows
<1>3. Place(z.hash)[1] = height
  <2>1. PICK i \in DOMAIN Content(height) : q.hash = Content(height)[i]
    BY DEF PairedRight, Listed
  <2>2. Place(q.hash) = <<height, i>>
    BY <2>1, PlaceOf
  <2> QED  BY <1>2, <2>2
<1>4. \A contract : contract # a => Foreign(z, contract)
  BY <1>2 DEF Foreign
<1> HIDE DEF z, s
<1>5. CASE a = "stake"
  <2>1. e = indexStakeContract(d, q, height)
    BY <1>2, <1>5 DEF indexEmbeddedContracts
  <2>2. LockCalled(e.stakes, d.stakes, "stake", "Stake", "Cancel", z)
    BY <1>1, <1>2, <1>5, <2>1, StakeCalled DEF z, s, OrderRows
  <2> HIDE DEF e
  <2>3. /\ e.fusions = d.fusions /\ e.htlcs = d.htlcs
        /\ e.votes = d.votes /\ e.delegations = d.delegations
    BY <1>2, <2>1, ContractOnly, OnlySame
  <2>4. Called(e, d, z)
    BY <1>4, <1>5, <2>2, <2>3, ForeignKeeps DEF Called
  <2> QED  BY <2>4 DEF z, e
<1>6. CASE a = "plasma"
  <2>1. e = indexPlasmaContract(d, q, height)
    BY <1>2, <1>6 DEF indexEmbeddedContracts
  <2>2. LockCalled(e.fusions, d.fusions, "plasma", "Fuse", "CancelFuse", z)
    BY <1>1, <1>2, <1>6, <2>1, FusionCalled DEF z, s, OrderRows
  <2> HIDE DEF e
  <2>3. /\ e.stakes = d.stakes /\ e.htlcs = d.htlcs
        /\ e.votes = d.votes /\ e.delegations = d.delegations
    BY <1>2, <2>1, ContractOnly, OnlySame
  <2>4. Called(e, d, z)
    BY <1>4, <1>6, <2>2, <2>3, ForeignKeeps DEF Called
  <2> QED  BY <2>4 DEF z, e
<1>7. CASE a = "htlc"
  <2>1. e = indexHtlcContract(d, q, height)
    BY <1>2, <1>7 DEF indexEmbeddedContracts
  <2>2. HtlcCalled(e.htlcs, d.htlcs, z)
    BY <1>1, <1>2, <1>7, <2>1, HtlcIsCalled DEF z, s
  <2> HIDE DEF e
  <2>3. /\ e.stakes = d.stakes /\ e.fusions = d.fusions
        /\ e.votes = d.votes /\ e.delegations = d.delegations
    BY <1>2, <2>1, ContractOnly, OnlySame
  <2>4. Called(e, d, z)
    BY <1>4, <1>7, <2>2, <2>3, ForeignKeeps DEF Called
  <2> QED  BY <2>4 DEF z, e
<1>8. CASE a = "accelerator"
  <2>1. e = indexAcceleratorContract(d, q, height)
    BY <1>2, <1>8 DEF indexEmbeddedContracts
  <2>2. VoteCalled(e.votes, d.votes, z)
    BY <1>1, <1>2, <1>8, <2>1, VoteIsCalled DEF z, s, OrderRows
  <2> HIDE DEF e
  <2>3. /\ e.stakes = d.stakes /\ e.fusions = d.fusions
        /\ e.htlcs = d.htlcs /\ e.delegations = d.delegations
    BY <1>2, <2>1, ContractOnly, OnlySame
  <2>4. Called(e, d, z)
    BY <1>4, <1>8, <2>2, <2>3, ForeignKeeps DEF Called
  <2> QED  BY <2>4 DEF z, e
<1>9. CASE a = "pillar"
  <2>1. e = indexPillarContract(d, q, height)
    BY <1>2, <1>9 DEF indexEmbeddedContracts
  <2>2. DelegationCalled(e.delegations, d.delegations, z)
    BY <1>1, <1>2, <1>3, <1>9, <2>1, DelegationIsCalled DEF z, s
  <2> HIDE DEF e
  <2>3. /\ e.stakes = d.stakes /\ e.fusions = d.fusions
        /\ e.htlcs = d.htlcs /\ e.votes = d.votes
    BY <1>2, <2>1, PillarOnly, OnlySame DEF PillarTables
  <2>4. Called(e, d, z)
    BY <1>4, <1>9, <2>2, <2>3, ForeignKeeps DEF Called
  <2> QED  BY <2>4 DEF z, e
<1>10. CASE a \notin {"stake", "plasma", "htlc", "accelerator", "pillar"}
  <2>1. \E F : Only(d, e, F) /\ F \cap OrderTables = {}
    <3>1. CASE a = "sentinel"
      BY <1>2, <3>1, ContractOnly DEF indexEmbeddedContracts, OrderTables
    <3>2. CASE a = "token"
      BY <1>2, <3>2, TokenOnly DEF indexEmbeddedContracts, OrderTables, TokenTables
    <3>3. CASE a = "swap"
      BY <1>2, <3>3, ContractOnly DEF indexEmbeddedContracts, OrderTables
    <3>4. CASE a \notin {"sentinel", "token", "swap"}
      <4>1. e = d
        BY <1>2, <1>10, <3>4 DEF indexEmbeddedContracts
      <4>2. Only(d, e, {})
        BY <1>2, <4>1, OnlyNone
      <4> QED  BY <4>2
    <3> QED  BY <3>1, <3>2, <3>3, <3>4
  <2> HIDE DEF e
  <2>2. Called(e, d, z)
    BY <1>4, <1>10, <2>1, ForeignCalled
  <2> QED  BY <2>2 DEF z, e
<1> QED  BY <1>5, <1>6, <1>7, <1>8, <1>9, <1>10

\* A call that was not decoded does nothing.
LEMMA NothingCalled ==
  ASSUME NEW d, NEW q, NEW ts, q.call = NoCall
  PROVE  indexEmbeddedContracts(d, q, ts) = d
<1>1. q.call.method = ""
  <2>1. NoCall.method = ""
    BY DEF NoCall
  <2> QED  BY <2>1
<1>2. indexPillarContract(d, q, ts) = d
  BY <1>1 DEF indexPillarContract
<1>3. indexStakeContract(d, q, ts) = d
  BY <1>1 DEF indexStakeContract
<1>4. indexSentinelContract(d, q) = d
  BY <1>1 DEF indexSentinelContract
<1>5. indexPlasmaContract(d, q, ts) = d
  BY <1>1 DEF indexPlasmaContract
<1>6. indexAcceleratorContract(d, q, ts) = d
  BY <1>1 DEF indexAcceleratorContract
<1>7. indexTokenContract(d, q, ts) = d
  BY <1>1 DEF indexTokenContract
<1>8. indexHtlcContract(d, q, ts) = d
  BY <1>1 DEF indexHtlcContract
<1>9. indexSwapContract(d, q, ts) = d
  BY <1>1 DEF indexSwapContract
<1> QED  BY <1>2, <1>3, <1>4, <1>5, <1>6, <1>7, <1>8, <1>9 DEF indexEmbeddedContracts

\* The contract call of any block.
LEMMA CallCalled ==
  ASSUME world \in Worlds, height \in DOMAIN world.chain, height # Null,
         NEW d, OrderRows(d), NEW q, Built(q), PairedRight(q)
  PROVE  Called(CallWritten(d, q, height), d, ItemOf(q))
<1> DEFINE b == world.blocks[q.hash]
<1>1. q.block = b /\ ItemOf(q).hash = q.hash /\ Fine(d)
  BY DEF Built, ItemOf, OrderRows
<1>2. CASE b.type = "contractReceive" /\ b.address \in Embedded
  <2>1. q.paired # NoBlock
    BY <1>2, QueuedCall
  <2>2. CallWritten(d, q, height) = indexEmbeddedContracts(d, q, height)
    BY <1>1, <1>2, <2>1, NothingCalled DEF CallWritten
  <2> QED  BY <1>2, <2>2, EmbeddedCalled
<1>3. CASE ~(b.type = "contractReceive" /\ b.address \in Embedded)
  <2>1. CallWritten(d, q, height) = d
    BY <1>1, <1>3 DEF CallWritten
  <2>2. \A contract \in Embedded : Foreign(ItemOf(q), contract)
    BY <1>1, <1>3 DEF Foreign
  <2>3. {"stake", "plasma", "htlc", "accelerator", "pillar"} \subseteq Embedded
    BY DEF Embedded
  <2>4. Only(d, d, {}) /\ {} \cap OrderTables = {}
    BY <1>1, OnlyNone
  <2> QED  BY <2>1, <2>2, <2>3, <2>4, ForeignCalled
<1> QED  BY <1>2, <1>3

\* The statements of one block beside the call: its rows, a reward, a token.
LEMMA BesideCall ==
  ASSUME NEW d, Fine(d), NEW q, NEW ts
  PROVE  /\ Only(d, RowsWritten(d, q, ts), {"accounts", "blocks"})
         /\ Only(d, RewardWritten(d, q, ts), {"rewards", "cumulative"})
         /\ Only(d, TokenWritten(d, q), {"tokens"})
<1>1. ASSUME NEW v, NEW w
      PROVE  /\ Only(d, [d EXCEPT !.accounts = v, !.blocks = w], {"accounts", "blocks"})
             /\ Only(d, [d EXCEPT !.rewards = v, !.cumulative = w], {"rewards", "cumulative"})
             /\ Only(d, [d EXCEPT !.tokens = v], {"tokens"})
  BY DEF Only, Fine, Tables, EmptyDB
<1>2. \A F : Only(d, d, F)
  BY OnlyNone
<1>3. Only(d, RowsWritten(d, q, ts), {"accounts", "blocks"})
  BY <1>1 DEF RowsWritten
<1>4. Only(d, RewardWritten(d, q, ts), {"rewards", "cumulative"})
  <2>1. \A type : Only(d, RecordReward(d, q, type, ts), {"rewards", "cumulative"})
    BY <1>1 DEF RecordReward
  <2> QED  BY <1>2, <2>1 DEF RewardWritten, indexLiquidityReward, indexReceivedReward
<1>5. Only(d, TokenWritten(d, q), {"tokens"})
  BY <1>1, <1>2 DEF TokenWritten
<1> QED  BY <1>3, <1>4, <1>5

\* One entry of the batch that is a block.
LEMMA BlockCalled ==
  ASSUME world \in Worlds, height \in DOMAIN world.chain, height # Null,
         NEW d, OrderRows(d), Refers(d), NEW q, q.kind = "block", Item(q), Built(q), PairedRight(q)
  PROVE  Called(Execute(d, q, height), d, ItemOf(q))
<1> DEFINE d1 == RowsWritten(d, q, height)
           d2 == CallWritten(d1, q, height)
           d3 == RewardWritten(d2, q, height)
           d4 == TokenWritten(d3, q)
<1>0. Execute(d, q, height) = d4
  BY DEF Execute, processAccountBlocks
<1>1. Fine(d) /\ Only(d, d1, {"accounts", "blocks"}) /\ Fine(d1)
  <2>1. Fine(d) /\ q.block.to # ""
    BY DEF OrderRows, Item
  <2> QED  BY <2>1, BesideCall, RowsWrittenSteps DEF Steps
<1> HIDE DEF d1
<1>2. SameRows(d, d1)
  BY <1>1, OnlySame DEF SameRows
<1>3. OrderRows(d1)
  BY <1>1, <1>2 DEF OrderRows, SameRows
<1>4. Called(d2, d1, ItemOf(q)) /\ Fine(d2)
  BY <1>1, <1>3, CallCalled, CallWrites, WritesFine
<1> HIDE DEF d2
<1>5. SameRows(d2, d3) /\ Fine(d3)
  <2>1. Only(d2, d3, {"rewards", "cumulative"})
    BY <1>4, BesideCall
  <2>2. Fine(d3)
    BY <1>4, RewardWrittenWrites, WritesFine
  <2> HIDE DEF d3
  <2> QED  BY <2>1, <2>2, OnlySame DEF SameRows
<1> HIDE DEF d3
<1>6. SameRows(d3, d4)
  <2>1. Only(d3, d4, {"tokens"})
    BY <1>5, BesideCall
  <2> HIDE DEF d4
  <2> QED  BY <2>1, OnlySame DEF SameRows
<1> HIDE DEF d4
<1> QED  BY <1>0, <1>2, <1>4, <1>5, <1>6 DEF Called, SameRows

\* One that is not.
LEMMA OtherCalled ==
  ASSUME NEW d, Fine(d), NEW q, q.kind \in {"balance", "momentum"}, NEW ts
  PROVE  Only(d, Execute(d, q, ts), {"balances", "pillars", "momentums"})
<1> DEFINE F == {"balances", "pillars", "momentums"}
<1>1. ASSUME NEW v, NEW w
      PROVE  /\ Only(d, [d EXCEPT !.balances = v], F)
             /\ Only(d, [d EXCEPT !.pillars = v, !.momentums = w], F)
  BY DEF Only, Fine, Tables, EmptyDB
<1> HIDE DEF F
<1>2. CASE q.kind = "balance"
  <2>1. Execute(d, q, ts) = [d EXCEPT !.balances = BalanceUpsert(d.balances, q.address, q.info)]
    BY <1>2 DEF Execute
  <2> QED  BY <1>1, <2>1 DEF F
<1>3. CASE q.kind = "momentum"
  <2> DEFINE v == IncrementMomentumCount(d.pillars, q.owner)
             w == MomentumInsert(d.momentums, ts, q.txs, q.producer, q.owner)
  <2>1. Execute(d, q, ts) = [d EXCEPT !.pillars = v, !.momentums = w]
    BY <1>3 DEF Execute
  <2> HIDE DEF v, w
  <2>2. Only(d, [d EXCEPT !.pillars = v, !.momentums = w], F)
    BY <1>1
  <2> QED  BY <2>1, <2>2 DEF F
<1> QED  BY <1>2, <1>3

\* One more call, in all five tables.
LEMMA TablesTurn ==
  ASSUME world \in Worlds, NEW D, NEW z, NEW Q, Turn(D, z, Q),
         NEW d, TablesSay(d, D, Q \cup {z}), NEW e, Called(e, d, z)
  PROVE  TablesSay(e, D \cup {z}, Q)
<1>1. LocksSay(e.stakes, Calls(D \cup {z}, "stake", {"Stake"}),
               Calls(D \cup {z}, "stake", {"Cancel"}), Q)
  BY LocksTurn DEF TablesSay, Called
<1>2. LocksSay(e.fusions, Calls(D \cup {z}, "plasma", {"Fuse"}),
               Calls(D \cup {z}, "plasma", {"CancelFuse"}), Q)
  BY LocksTurn DEF TablesSay, Called
<1>3. HtlcsSay(e.htlcs, Calls(D \cup {z}, "htlc", {"Create"}),
               Calls(D \cup {z}, "htlc", {"Unlock", "Reclaim"}), Q)
  BY HtlcsTurn DEF TablesSay, Called
<1>4. VotesSay(e.votes, Cast(D \cup {z}), Q)
  BY VotesTurn DEF TablesSay, Called
<1>5. DelegationsSay(e.delegations, D \cup {z}, Q)
  BY DelegationsTurn DEF TablesSay, Called
<1> QED  BY <1>1, <1>2, <1>3, <1>4, <1>5 DEF TablesSay

\* What the tables say gives them their columns.
LEMMA TablesRows ==
  ASSUME NEW d, Fine(d), NEW D, NEW P, TablesSay(d, D, P)
  PROVE  OrderRows(d)
BY DEF OrderRows, TablesSay, LocksSay, VotesSay

\* The beginning of a transaction: everything it has queued is still to come.
LEMMA TablesWait ==
  ASSUME NEW d, NEW D, NEW P, TablesSay(d, D, {})
  PROVE  TablesSay(d, D, P)
<1>1. \A x : ~Due(x, {})
  BY DEF Due
<1>2. \A x, xs : Decides(x, xs, {}) => Decides(x, xs, P)
  BY <1>1 DEF Decides
<1>3. \A rows, opened, closed : LocksSay(rows, opened, closed, {}) => LocksSay(rows, opened, closed, P)
  BY <1>1 DEF LocksSay
<1>4. \A r, ends : SettledBy(r, ends, {}) => SettledBy(r, ends, P)
  BY <1>1, <1>2 DEF SettledBy
<1>5. \A rows, opened, closed : HtlcsSay(rows, opened, closed, {}) => HtlcsSay(rows, opened, closed, P)
  BY <1>4 DEF HtlcsSay
<1>6. \A rows, cast : VotesSay(rows, cast, {}) => VotesSay(rows, cast, P)
  <2> SUFFICES ASSUME NEW rows, NEW cast, VotesSay(rows, cast, {}) PROVE VotesSay(rows, cast, P)
    OBVIOUS
  <2>1. ASSUME NEW k \in DOMAIN rows
        PROVE  \E x : Decides(x, VotesOn(cast, k), P) /\ rows[k].vote = SendOf(x).call.vote
    <3>1. PICK x : Decides(x, VotesOn(cast, k), {}) /\ rows[k].vote = SendOf(x).call.vote
      BY DEF VotesSay
    <3> QED  BY <1>2, <3>1
  <2> QED  BY <2>1 DEF VotesSay
<1>7. \A rows : DelegationsSay(rows, D, {}) => DelegationsSay(rows, D, P)
  <2>1. \A shown, moves : MovedBy(shown, moves, {}) => MovedBy(shown, moves, P)
    BY <1>2 DEF MovedBy
  <2> QED  BY <2>1 DEF DelegationsSay
<1> QED  BY <1>3, <1>5, <1>6, <1>7 DEF TablesSay

-----------------------------------------------------------------------------
(* Order: the invariant *)

\* The blocks among the entries I of a batch.
BlocksOf(s, I) == {ItemOf(s[i]) : i \in {i \in I : s[i].kind = "block"}}

\* What committed momentums and the open transaction so far have indexed, and what the
\* transaction still has to execute.
Done == Items \cup BlocksOf(batch, 1..pos)
Pending == BlocksOf(batch, (pos + 1)..Len(batch))

\* Two blocks of the batch are listed in the order in which they are queued.
ListedBefore(x, y) ==
  \E m, n \in DOMAIN Content(height) :
    m < n /\ x = Content(height)[m] /\ y = Content(height)[n]
QueuedInOrder ==
  \A i, j \in DOMAIN batch :
    i < j /\ batch[i].kind = "block" /\ batch[j].kind = "block" =>
      ListedBefore(batch[i].hash, batch[j].hash)
BatchBuilt == \A i \in DOMAIN batch : batch[i].kind = "block" => Built(batch[i])

\* What is queued was fetched, in its place.
QueuedInPlace(q) == q.kind = "block" /\ \E m \in 1..pos : q.hash = Content(height)[m]

\* A committed momentum has its own blocks, each once.
OwnBlocks(e) ==
  \A x \in e.items : /\ x.hash \in Listed(e.height)
                     /\ \A y \in e.items : x.hash = y.hash => x = y

\* The open transaction, committed, would keep the order.
WouldFollow == \A e \in DOMAIN journal : Follows(journal[e], Entry)

\* The invariant behind InOrderExact: the committed tables say what was indexed, the
\* image of the transaction what was indexed and executed so far.
OrderInv ==
  /\ \A e \in DOMAIN journal : OwnBlocks(journal[e])
  /\ pc # "idle" => BatchBuilt /\ QueuedInOrder
  /\ pc = "queue" => \A i \in DOMAIN batch : QueuedInPlace(batch[i])
  /\ InOrder => TablesSay(db, Items, {})
  /\ pc = "exec" /\ InOrder /\ WouldFollow => TablesSay(stage, Done, Pending)

-----------------------------------------------------------------------------
(* Order: the steps *)

\* What a behaviour never changes of the chain.
LEMMA OrderFixed ==
  ASSUME world' = world
  PROVE  /\ \A h : Content(h)' = Content(h)
         /\ \A h : Listed(h)' = Listed(h)
         /\ \A x : SendOf(x)' = SendOf(x)
         /\ \A hash : Place(hash)' = Place(hash)
         /\ \A x, y : Earlier(x, y)' <=> Earlier(x, y)
         /\ \A q : Built(q)' <=> Built(q)
<1>1. \A h : Content(h)' = Content(h)
  BY DEF Content
<1>2. \A hash : Place(hash)' = Place(hash)
  BY DEF Place, Content
<1>3. \A x, y : Earlier(x, y)' <=> Earlier(x, y)
  BY <1>2 DEF Earlier
<1> QED  BY <1>1, <1>2, <1>3 DEF Listed, SendOf, Built

\* Nor of what the tables should say.
LEMMA SaysFixed ==
  ASSUME world' = world
  PROVE  \A d, D, P : TablesSay(d, D, P)' <=> TablesSay(d, D, P)
<1>1. /\ \A x : SendOf(x)' = SendOf(x)
      /\ \A hash : Place(hash)' = Place(hash)
      /\ \A x, y : Earlier(x, y)' <=> Earlier(x, y)
  BY OrderFixed
<1>2. \A xs, contract, methods : Calls(xs, contract, methods)' = Calls(xs, contract, methods)
  BY <1>1 DEF Calls
<1>3. \A x, P : Due(x, P)' <=> Due(x, P)
  BY DEF Due, Repeats
<1>4. \A x, xs, P : Decides(x, xs, P)' <=> Decides(x, xs, P)
  BY <1>1, <1>3 DEF Decides
<1>5. /\ \A c, xs : Ends(c, xs)' = Ends(c, xs)
      /\ \A c, xs : Settling(c, xs)' = Settling(c, xs)
      /\ \A c, xs : Since(c, xs)' <=> Since(c, xs)
      /\ \A x : StatusBy(x)' = StatusBy(x)
      /\ \A x : VoteKey(x)' = VoteKey(x)
      /\ \A r, k : LockRow(r, k)' <=> LockRow(r, k)
  BY <1>1 DEF Ends, Settling, Since, StatusBy, VoteKey, LockRow
<1>6. \A rows, opened, closed, P :
        LocksSay(rows, opened, closed, P)' <=> LocksSay(rows, opened, closed, P)
  BY <1>1, <1>3, <1>5 DEF LocksSay
<1>7. \A r, ends, P : SettledBy(r, ends, P)' <=> SettledBy(r, ends, P)
  BY <1>3, <1>4, <1>5 DEF SettledBy
<1>8. \A rows, opened, settled, P :
        HtlcsSay(rows, opened, settled, P)' <=> HtlcsSay(rows, opened, settled, P)
  BY <1>1, <1>5, <1>7 DEF HtlcsSay
<1>9. \A xs : Cast(xs)' = Cast(xs)
  BY <1>1, <1>2 DEF Cast
<1>10. \A cast, k : VotesOn(cast, k)' = VotesOn(cast, k)
  BY <1>5 DEF VotesOn
<1>11. \A rows, cast, P : VotesSay(rows, cast, P)' <=> VotesSay(rows, cast, P)
  BY <1>1, <1>4, <1>5, <1>10 DEF VotesSay, VoteRows
<1>12. \A xs, a : Moves(xs, a)' = Moves(xs, a)
  BY <1>1, <1>2 DEF Moves
<1>13. \A xs : Chosen(xs)' = Chosen(xs)
  BY <1>1 DEF Chosen
<1>14. \A shown, moves, P : MovedBy(shown, moves, P)' <=> MovedBy(shown, moves, P)
  BY <1>4, <1>13 DEF MovedBy
<1>15. \A rows, a : Shown(rows, a)' = Shown(rows, a)
  BY DEF Shown, OpenIntervals
<1>16. \A rows, D, P : DelegationsSay(rows, D, P)' <=> DelegationsSay(rows, D, P)
  BY <1>12, <1>14, <1>15 DEF DelegationsSay
<1> QED  BY <1>2, <1>6, <1>8, <1>9, <1>11, <1>16 DEF TablesSay

\* They speak of five tables.
LEMMA SameSays ==
  ASSUME NEW d, NEW e, SameRows(d, e), NEW D, NEW P, TablesSay(d, D, P)
  PROVE  TablesSay(e, D, P)
BY DEF SameRows, TablesSay

\* A step that leaves journal, processing and the five tables alone.
LEMMA OrderFrame ==
  ASSUME OrderInv, UNCHANGED <<world, processing, journal>>, SameRows(db, db')
  PROVE  OrderInv'
<1>1. /\ pc' = pc /\ height' = height /\ pos' = pos /\ batch' = batch /\ stage' = stage
      /\ world' = world /\ journal' = journal
  BY DEF processing
<1>2. /\ \A h : Content(h)' = Content(h)
      /\ \A h : Listed(h)' = Listed(h)
      /\ \A q : Built(q)' <=> Built(q)
  BY OrderFixed
<1>3. /\ Items' = Items /\ Done' = Done /\ Pending' = Pending /\ Entry' = Entry
  BY <1>1 DEF Items, Done, Pending, BlocksOf, ItemOf, Entry, BalancesRead
<1>4. (InOrder' <=> InOrder) /\ (WouldFollow' <=> WouldFollow)
  BY <1>1, <1>3 DEF InOrder, WouldFollow, Follows, Repeats
<1>5. (InOrder => TablesSay(db, Items, {}))'
  BY <1>1, <1>3, <1>4, SaysFixed, SameSays DEF OrderInv
<1>6. (pc = "exec" /\ InOrder /\ WouldFollow => TablesSay(stage, Done, Pending))'
  BY <1>1, <1>3, <1>4, SaysFixed DEF OrderInv
<1>7. (\A e \in DOMAIN journal : OwnBlocks(journal[e]))'
  BY <1>1, <1>2 DEF OrderInv, OwnBlocks
<1>8. (pc # "idle" => BatchBuilt /\ QueuedInOrder)'
  BY <1>1, <1>2 DEF OrderInv, BatchBuilt, QueuedInOrder, ListedBefore
<1>9. (pc = "queue" => \A i \in DOMAIN batch : QueuedInPlace(batch[i]))'
  BY <1>1, <1>2 DEF OrderInv, QueuedInPlace
<1> QED  BY <1>5, <1>6, <1>7, <1>8, <1>9 DEF OrderInv

\* Before the transaction begins, or after it was dropped.
LEMMA OrderQueue ==
  ASSUME OrderInv, UNCHANGED <<world, db, journal>>, pc' # "exec",
         pc' # "idle" => BatchBuilt' /\ QueuedInOrder',
         pc' = "queue" => (\A i \in DOMAIN batch : QueuedInPlace(batch[i]))'
  PROVE  OrderInv'
<1>1. \A h : Listed(h)' = Listed(h)
  BY OrderFixed
<1>2. Items' = Items
  BY DEF Items
<1>3. InOrder' <=> InOrder
  BY DEF InOrder, Follows, Repeats
<1>4. (InOrder => TablesSay(db, Items, {}))'
  BY <1>2, <1>3, SaysFixed DEF OrderInv
<1>5. (\A e \in DOMAIN journal : OwnBlocks(journal[e]))'
  BY <1>1 DEF OrderInv, OwnBlocks
<1> QED  BY <1>4, <1>5 DEF OrderInv

\* One more entry at the end.
LEMMA Appended ==
  ASSUME NEW s, IsSequence(s), NEW x, NEW t, t = Append(s, x)
  PROVE  /\ IsSequence(t) /\ DOMAIN t = DOMAIN s \cup {Len(s) + 1}
         /\ t[Len(s) + 1] = x /\ \A i \in DOMAIN s : t[i] = s[i]
<1> DEFINE S == {s[i] : i \in DOMAIN s} \cup {x}
<1>1. s \in Seq(S) /\ x \in S /\ Len(s) \in Nat /\ DOMAIN s = 1..Len(s)
  BY SequenceDomain DEF IsSequence
<1> HIDE DEF S
<1>2. /\ t \in Seq(S) /\ Len(t) = Len(s) + 1
      /\ t[Len(s) + 1] = x /\ \A i \in 1..Len(s) : t[i] = s[i]
  BY <1>1, AppendProperties
<1>3. IsSequence(t) /\ DOMAIN t = 1..(Len(s) + 1)
  BY <1>1, <1>2, OverSet, SequenceDomain
<1> QED  BY <1>1, <1>2, <1>3

\* The steps up to the queue.
LEMMA QueueOrder ==
  ASSUME ExplorerInv, OrderInv,
         \/ \E m \in 1..tip : ProcessMomentum(m)
         \/ \E lookup \in BOOLEAN : \E n \in Frontiers \cap height..tip : FetchBlock(lookup, n)
         \/ SkipBlock
  PROVE  OrderInv'
<1>1. UNCHANGED <<world, db, journal>> /\ pc' = "queue"
  BY DEF ProcessMomentum, FetchBlock, SkipBlock
<1>2. /\ \A h : Content(h)' = Content(h)
      /\ \A q : Built(q)' <=> Built(q)
  BY <1>1, OrderFixed
<1>3. ASSUME NEW m, ProcessMomentum(m) PROVE OrderInv'
  <2>1. batch' = <<>>
    BY <1>3 DEF ProcessMomentum
  <2>2. DOMAIN batch' = {}
    BY <2>1
  <2>3. BatchBuilt' /\ QueuedInOrder' /\ (\A i \in DOMAIN batch : QueuedInPlace(batch[i]))'
    BY <2>2 DEF BatchBuilt, QueuedInOrder
  <2> QED  BY <1>1, <2>3, OrderQueue
<1>4. ASSUME SkipBlock PROVE OrderInv'
  <2>1. /\ pc = "queue" /\ batch' = batch /\ height' = height /\ pos' = pos + 1
        /\ pos \in 0..Len(Content(height)) /\ height \in 1..tip
        /\ world \in Worlds /\ tip \in 1..Len(world.chain)
    BY <1>4 DEF SkipBlock, ExplorerInv, ProcessInv
  <2>2. pos \in Nat
    BY <2>1, ChainFacts
  <2>3. BatchBuilt' /\ QueuedInOrder'
    BY <1>2, <2>1 DEF OrderInv, BatchBuilt, QueuedInOrder, ListedBefore
  <2>4. \A m \in 1..pos : m \in 1..pos'
    BY <2>1, <2>2
  <2>5. (\A i \in DOMAIN batch : QueuedInPlace(batch[i]))'
    BY <1>2, <2>1, <2>4 DEF OrderInv, QueuedInPlace
  <2> QED  BY <1>1, <2>3, <2>5, OrderQueue
<1>5. ASSUME NEW lookup, NEW f, FetchBlock(lookup, f) PROVE OrderInv'
  <2> DEFINE n == Len(batch)
             hash == Content(height)[pos + 1]
             q == Queued(hash, lookup, f)
  <2>1. /\ pc = "queue" /\ batch' = Append(batch, q) /\ height' = height /\ pos' = pos + 1
        /\ pos < Len(Content(height)) /\ pos \in 0..Len(Content(height)) /\ height \in 1..tip
        /\ world \in Worlds /\ tip \in 1..Len(world.chain) /\ IsSequence(batch)
    BY <1>5 DEF FetchBlock, ExplorerInv, ProcessInv
  <2>2. /\ pos \in Nat /\ pos + 1 \in DOMAIN Content(height)
        /\ DOMAIN Content(height) = 1..Len(Content(height)) /\ Len(Content(height)) \in Nat
    BY <2>1, ChainFacts
  <2>3. q.kind = "block" /\ q.hash = hash /\ Built(q)
    <3> DEFINE got == GetAccountBlockByHash(hash, f)
    <3>1. got.block = world.blocks[hash]
      BY DEF GetAccountBlockByHash
    <3> HIDE DEF got
    <3>2. /\ q.kind = "block" /\ q.hash = hash /\ q.block = got.block /\ q.paired = got.paired
          /\ q.call = IF got.paired = NoBlock THEN NoCall ELSE tryDecodeTxData(got.paired)
      BY DEF Queued, got
    <3> HIDE DEF q
    <3> QED  BY <3>1, <3>2 DEF Built
  <2> HIDE DEF q
  <2>4. /\ DOMAIN batch' = DOMAIN batch \cup {n + 1} /\ batch'[n + 1] = q
        /\ \A i \in DOMAIN batch : batch'[i] = batch[i]
    BY <2>1, Appended
  <2>5. n \in Nat /\ DOMAIN batch = 1..n
    BY <2>1, SequenceDomain
  <2> HIDE DEF n
  <2>6. \A i \in DOMAIN batch' : i \in DOMAIN batch \/ i = n + 1
    BY <2>4
  <2>7. BatchBuilt'
    BY <1>2, <2>1, <2>3, <2>4, <2>6 DEF OrderInv, BatchBuilt
  <2>8. (\A i \in DOMAIN batch : QueuedInPlace(batch[i]))'
    <3>1. \A i \in DOMAIN batch : \E m \in 1..(pos + 1) : batch[i].hash = Content(height)[m]
      BY <2>1, <2>2 DEF OrderInv, QueuedInPlace
    <3>2. \E m \in 1..(pos + 1) : q.hash = Content(height)[m]
      BY <2>2, <2>3
    <3>3. \A i \in DOMAIN batch : batch[i].kind = "block"
      BY <2>1 DEF OrderInv, QueuedInPlace
    <3> QED  BY <1>2, <2>1, <2>3, <2>4, <3>1, <3>2, <3>3 DEF QueuedInPlace
  <2>9. QueuedInOrder'
    <3>1. ASSUME NEW i \in DOMAIN batch', NEW j \in DOMAIN batch', i < j,
                 batch'[i].kind = "block", batch'[j].kind = "block"
          PROVE  ListedBefore(batch'[i].hash, batch'[j].hash)
      <4>1. CASE j = n + 1
        <5>1. i \in DOMAIN batch /\ batch'[i] = batch[i] /\ batch'[j] = q
          BY <2>4, <2>5, <3>1, <4>1
        <5>2. PICK m \in 1..pos : batch[i].hash = Content(height)[m]
          BY <2>1, <5>1 DEF OrderInv, QueuedInPlace
        <5>3. m \in DOMAIN Content(height) /\ m < pos + 1
          BY <2>2
        <5> QED  BY <2>2, <2>3, <5>1, <5>2, <5>3 DEF ListedBefore
      <4>2. CASE j \in DOMAIN batch
        <5>1. i \in DOMAIN batch
          BY <2>4, <2>5, <3>1, <4>2
        <5>2. batch'[i] = batch[i] /\ batch'[j] = batch[j]
          BY <2>4, <4>2, <5>1
        <5> QED  BY <2>1, <3>1, <4>2, <5>1, <5>2 DEF OrderInv, QueuedInOrder
      <4> QED  BY <2>6, <4>1, <4>2
    <3>2. \A x, y : ListedBefore(x, y)' <=> ListedBefore(x, y)
      BY <1>2, <2>1 DEF ListedBefore
    <3> QED  BY <3>1, <3>2 DEF QueuedInOrder
  <2> QED  BY <1>1, <2>7, <2>8, <2>9, OrderQueue
<1> QED  BY <1>3, <1>4, <1>5

\* What is queued after the blocks.
LEMMA QueuedAfter ==
  ASSUME NEW s, IsSequence(s), NEW t, IsSequence(t), \A k \in DOMAIN t : t[k].kind # "block"
  PROVE  /\ IsSequence(s \o t) /\ DOMAIN s \subseteq DOMAIN (s \o t)
         /\ \A i \in DOMAIN s : (s \o t)[i] = s[i]
         /\ \A i \in DOMAIN (s \o t) : i \in DOMAIN s \/ (s \o t)[i].kind # "block"
<1> DEFINE S == {s[i] : i \in DOMAIN s} \cup {t[i] : i \in DOMAIN t}
           c == s \o t
<1>1. /\ Len(s) \in Nat /\ DOMAIN s = 1..Len(s)
      /\ Len(t) \in Nat /\ DOMAIN t = 1..Len(t)
  BY SequenceDomain
<1>2. s \in Seq(S) /\ t \in Seq(S)
  BY DEF IsSequence
<1> HIDE DEF S
<1>3. /\ c \in Seq(S) /\ Len(c) = Len(s) + Len(t)
      /\ \A i \in 1 .. Len(s) + Len(t) : c[i] = IF i <= Len(s) THEN s[i] ELSE t[i - Len(s)]
  BY <1>2, ConcatProperties
<1> HIDE DEF c
<1>4. IsSequence(c) /\ DOMAIN c = 1 .. Len(s) + Len(t)
  BY <1>1, <1>3, OverSet, SequenceDomain
<1>5. \A i \in DOMAIN s : i \in DOMAIN c /\ c[i] = s[i]
  BY <1>1, <1>3, <1>4
<1>6. ASSUME NEW i \in DOMAIN c, i \notin DOMAIN s PROVE c[i].kind # "block"
  <2>1. i - Len(s) \in DOMAIN t /\ c[i] = t[i - Len(s)]
    BY <1>1, <1>3, <1>4, <1>6
  <2> QED  BY <2>1
<1> QED  BY <1>4, <1>5, <1>6 DEF c

\* The transaction begins with the committed tables and all its blocks to come.
LEMMA QueueMomentumOrder ==
  ASSUME ExplorerInv, OrderInv, QueueMomentum
  PROVE  OrderInv'
<1>0. PICK at \in [Asked(height) -> Frontiers \cup {0}] :
        batch' = batch \o updateBalances(height, at) \o <<MomentumItem(height)>>
  BY DEF QueueMomentum
<1> DEFINE u == updateBalances(height, at)
           one == <<MomentumItem(height)>>
           two == batch \o u
<1>1. /\ pc = "queue" /\ pc' = "exec" /\ pos' = 0 /\ stage' = db /\ batch' = two \o one
      /\ world' = world /\ db' = db /\ height' = height /\ journal' = journal
  BY <1>0 DEF QueueMomentum
<1>2. /\ world \in Worlds /\ tip \in 1..Len(world.chain) /\ height \in 1..tip
      /\ IsSequence(batch)
  BY <1>1 DEF ExplorerInv, ProcessInv
<1>3. IsSequence(u) /\ \A k \in DOMAIN u : u[k].kind # "block"
  BY <1>2, ChainFacts, BalanceItemsQueued
<1>4. IsSequence(one) /\ \A k \in DOMAIN one : one[k].kind # "block"
  BY DEF MomentumItem, IsSequence
<1> HIDE DEF u, one
<1>5. /\ IsSequence(two) /\ DOMAIN batch \subseteq DOMAIN two
      /\ \A i \in DOMAIN batch : two[i] = batch[i]
      /\ \A i \in DOMAIN two : i \in DOMAIN batch \/ two[i].kind # "block"
  BY <1>2, <1>3, QueuedAfter
<1> HIDE DEF two
<1>6. /\ DOMAIN two \subseteq DOMAIN batch'
      /\ \A i \in DOMAIN two : batch'[i] = two[i]
      /\ \A i \in DOMAIN batch' : i \in DOMAIN two \/ batch'[i].kind # "block"
  BY <1>1, <1>4, <1>5, QueuedAfter
<1>7. \A i \in DOMAIN batch' : batch'[i].kind = "block" =>
        i \in DOMAIN batch /\ batch'[i] = batch[i]
  BY <1>5, <1>6
<1>8. /\ \A h : Content(h)' = Content(h)
      /\ \A h : Listed(h)' = Listed(h)
      /\ \A q : Built(q)' <=> Built(q)
  BY <1>1, OrderFixed
<1>9. BatchBuilt'
  BY <1>1, <1>7, <1>8 DEF OrderInv, BatchBuilt
<1>10. QueuedInOrder'
  <2>1. \A x, y : ListedBefore(x, y)' <=> ListedBefore(x, y)
    BY <1>1, <1>8 DEF ListedBefore
  <2>2. \A i, j \in DOMAIN batch' :
          i < j /\ batch'[i].kind = "block" /\ batch'[j].kind = "block" =>
            ListedBefore(batch'[i].hash, batch'[j].hash)
    BY <1>1, <1>7 DEF OrderInv, QueuedInOrder
  <2> QED  BY <2>1, <2>2 DEF QueuedInOrder
<1>11. Items' = Items /\ Done' = Items
  BY <1>1 DEF Items, Done, BlocksOf
<1>12. InOrder' <=> InOrder
  BY <1>1 DEF InOrder, Follows, Repeats
<1>13. (InOrder => TablesSay(db, Items, {}))'
  BY <1>1, <1>11, <1>12, SaysFixed DEF OrderInv
<1>14. (pc = "exec" /\ InOrder /\ WouldFollow => TablesSay(stage, Done, Pending))'
  BY <1>1, <1>11, <1>12, SaysFixed, TablesWait DEF OrderInv
<1>15. (\A e \in DOMAIN journal : OwnBlocks(journal[e]))'
  BY <1>1, <1>8 DEF OrderInv, OwnBlocks
<1> QED  BY <1>1, <1>9, <1>10, <1>13, <1>14, <1>15 DEF OrderInv

\* An entry that is not the last keeps its place before the next block.
LEMMA QueuedEarlier ==
  ASSUME world \in Worlds, height \in DOMAIN world.chain, NEW x, NEW y,
         ListedBefore(x.hash, y.hash)
  PROVE  Earlier(x, y)
<1>1. PICK m, n \in DOMAIN Content(height) :
        m < n /\ x.hash = Content(height)[m] /\ y.hash = Content(height)[n]
  BY DEF ListedBefore
<1> QED  BY <1>1, EarlierIs

\* It is the next block's turn: what was indexed before is of a lower momentum, or of
\* this one and indexed again by the batch.
LEMMA NextTurn ==
  ASSUME ExplorerInv, BalancesInv, OrderInv, WouldFollow, pc = "exec", pos < Len(batch),
         batch[pos + 1].kind = "block"
  PROVE  Turn(Done, ItemOf(batch[pos + 1]), BlocksOf(batch, (pos + 2)..Len(batch)))
<1> DEFINE q == batch[pos + 1]
           z == ItemOf(q)
           Q == BlocksOf(batch, (pos + 2)..Len(batch))
<1>1. /\ world \in Worlds /\ tip \in 1..Len(world.chain) /\ height \in 1..tip
      /\ IsSequence(batch) /\ pos \in 0..Len(batch)
      /\ \A i \in DOMAIN batch : batch[i].kind = "block" => PairedRight(batch[i])
  BY DEF ExplorerInv, ProcessInv, PairsInv
<1>2. /\ Len(batch) \in Nat /\ DOMAIN batch = 1..Len(batch) /\ pos + 1 \in DOMAIN batch
  BY <1>1, SequenceDomain
<1>3. DOMAIN world.chain = 1..Len(world.chain) /\ 1..tip \subseteq DOMAIN world.chain
  BY <1>1, ChainFacts
<1>4. height \in DOMAIN world.chain
  BY <1>1, <1>3
<1>5. \A i \in DOMAIN batch : batch[i].kind = "block" =>
        ItemOf(batch[i]).hash = batch[i].hash /\ batch[i].hash \in Listed(height)
  BY <1>1 DEF ItemOf, PairedRight
<1>6. z.hash = q.hash /\ q.hash \in Listed(height) /\ OnChain(z)
  BY <1>2, <1>4, <1>5 DEF OnChain
<1>7. ASSUME NEW i \in DOMAIN batch, i < pos + 1, batch[i].kind = "block"
      PROVE  ListedBefore(batch[i].hash, q.hash)
  BY <1>2, <1>7 DEF OrderInv, QueuedInOrder
<1> HIDE DEF q, z, Q
<1>8. ASSUME NEW y \in BlocksOf(batch, 1..pos) PROVE OnChain(y) /\ Earlier(y, z)
  <2>1. PICK i \in 1..pos : batch[i].kind = "block" /\ y = ItemOf(batch[i])
    BY DEF BlocksOf
  <2>2. i \in DOMAIN batch /\ i < pos + 1
    BY <1>1, <1>2
  <2>3. y.hash = batch[i].hash /\ y.hash \in Listed(height)
    BY <1>5, <2>1, <2>2
  <2>4. ListedBefore(y.hash, z.hash)
    BY <1>6, <1>7, <2>1, <2>2, <2>3
  <2> QED  BY <1>1, <1>4, <2>3, <2>4, QueuedEarlier DEF OnChain
<1>9. ASSUME NEW y \in Items PROVE OnChain(y) /\ (Earlier(y, z) \/ Repeats(y, z) \/ Due(y, Q))
  <2>1. PICK e \in DOMAIN journal : y \in journal[e].items
    BY DEF Items
  <2>2. journal[e].height \in 1..tip /\ y.hash \in Listed(journal[e].height)
    BY <2>1 DEF BalancesInv, OrderInv, OwnBlocks
  <2>3. OnChain(y)
    BY <1>3, <2>2 DEF OnChain
  <2>4. CASE journal[e].height < height
    <3>1. PICK i \in DOMAIN Content(journal[e].height) : y.hash = Content(journal[e].height)[i]
      BY <2>2 DEF Listed
    <3>2. PICK j \in DOMAIN Content(height) : z.hash = Content(height)[j]
      BY <1>6 DEF Listed
    <3>3. Earlier(y, z)
      BY <1>1, <1>3, <1>4, <2>2, <2>4, <3>1, <3>2, EarlierIs
    <3> QED  BY <2>3, <3>3
  <2>5. CASE ~(journal[e].height < height)
    <3>1. /\ Entry.height = height
          /\ Entry.items = {ItemOf(batch[i]) : i \in {i \in DOMAIN batch : batch[i].kind = "block"}}
      BY DEF Entry
    <3>2. Follows(journal[e], Entry)
      BY DEF WouldFollow
    <3>3. \E x \in Entry.items : Repeats(y, x)
      BY <2>1, <2>5, <3>1, <3>2 DEF Follows
    <3>4. PICK i \in DOMAIN batch : batch[i].kind = "block" /\ Repeats(y, ItemOf(batch[i]))
      BY <3>1, <3>3
    <3>5. CASE i < pos + 1
      <4>1. y.hash = batch[i].hash
        BY <1>5, <3>4 DEF Repeats
      <4>2. ListedBefore(y.hash, z.hash)
        BY <1>6, <1>7, <3>4, <3>5, <4>1
      <4> QED  BY <1>1, <1>4, <2>3, <4>2, QueuedEarlier
    <3>6. CASE i = pos + 1
      BY <2>3, <3>4, <3>6 DEF z, q
    <3>7. CASE i > pos + 1
      <4>1. i \in (pos + 2)..Len(batch)
        BY <1>1, <1>2, <3>7
      <4>2. ItemOf(batch[i]) \in Q
        BY <3>4, <4>1 DEF Q, BlocksOf
      <4>3. Due(y, Q)
        BY <3>4, <4>2 DEF Due
      <4> QED  BY <2>3, <4>3
    <3> QED  BY <1>1, <1>2, <3>5, <3>6, <3>7
  <2> QED  BY <2>4, <2>5
<1>10. Turn(Done, z, Q)
  BY <1>6, <1>8, <1>9 DEF Turn, Done
<1> QED  BY <1>10 DEF z, q, Q

\* One entry of the batch is executed.
LEMMA ExecItemOrder ==
  ASSUME ExplorerInv, BalancesInv, OrderInv, ExecItem
  PROVE  OrderInv'
<1> DEFINE q == batch[pos + 1]
           e == Execute(stage, q, height)
           z == ItemOf(q)
           Q == BlocksOf(batch, (pos + 2)..Len(batch))
<1>1. /\ pc = "exec" /\ pos < Len(batch) /\ stage' = e /\ pos' = pos + 1
      /\ UNCHANGED <<world, db, pc, height, batch, journal>>
  BY DEF ExecItem
<1>2. /\ world \in Worlds /\ tip \in 1..Len(world.chain) /\ height \in 1..tip
      /\ IsSequence(batch) /\ pos \in 0..Len(batch)
      /\ \A k \in DOMAIN batch : Item(batch[k])
      /\ \A i \in DOMAIN batch : batch[i].kind = "block" => PairedRight(batch[i])
  BY <1>1 DEF ExplorerInv, ProcessInv, PairsInv
<1>3. Len(batch) \in Nat /\ DOMAIN batch = 1..Len(batch) /\ pos + 1 \in DOMAIN batch
  BY <1>1, <1>2, SequenceDomain
<1>4. /\ Item(q) /\ height # Null /\ height \in DOMAIN world.chain
      /\ Fine(stage) /\ Refers(stage)
  BY <1>1, <1>2, <1>3, ChainFacts DEF Null, ExplorerInv, TablesInv
<1>5. /\ \A h : Content(h)' = Content(h)
      /\ \A h : Listed(h)' = Listed(h)
      /\ \A x : Built(x)' <=> Built(x)
  BY <1>1, OrderFixed
<1>6. /\ Items' = Items /\ Entry' = Entry
      /\ Done' = Items \cup BlocksOf(batch, 1..(pos + 1))
      /\ Pending' = BlocksOf(batch, (pos + 1 + 1)..Len(batch))
  BY <1>1 DEF Items, Done, Pending, BlocksOf, ItemOf, Entry, BalancesRead
<1>7. (InOrder' <=> InOrder) /\ (WouldFollow' <=> WouldFollow)
  BY <1>1, <1>6 DEF InOrder, WouldFollow, Follows, Repeats
<1>8. /\ \A i \in 1..(pos + 1) : i \in 1..pos \/ i = pos + 1
      /\ \A i \in (pos + 1)..Len(batch) : i \in (pos + 2)..Len(batch) \/ i = pos + 1
      /\ 1..pos \subseteq 1..(pos + 1) /\ pos + 1 \in 1..(pos + 1)
      /\ (pos + 2)..Len(batch) \subseteq (pos + 1)..Len(batch) /\ pos + 1 \in (pos + 1)..Len(batch)
      /\ pos + 1 + 1 = pos + 2
  BY <1>2, <1>3
<1>9. ASSUME InOrder, WouldFollow PROVE TablesSay(e, Done', Pending')
  <2>1. TablesSay(stage, Done, Pending)
    BY <1>1, <1>9 DEF OrderInv
  <2>2. CASE q.kind = "block"
    <3>1. Done' = Done \cup {z} /\ Pending = Q \cup {z} /\ Pending' = Q
      BY <1>6, <1>8, <2>2 DEF Done, Pending, BlocksOf
    <3>2. Turn(Done, z, Q)
      BY <1>1, <1>9, <2>2, NextTurn
    <3>3. OrderRows(stage)
      BY <1>4, <2>1, TablesRows
    <3>4. Built(q) /\ PairedRight(q)
      BY <1>1, <1>2, <1>3, <2>2 DEF OrderInv, BatchBuilt
    <3>5. Called(e, stage, z)
      BY <1>2, <1>4, <2>2, <3>3, <3>4, BlockCalled
    <3> HIDE DEF e, z, Q, q
    <3>6. TablesSay(stage, Done, Q \cup {z})
      BY <2>1, <3>1
    <3>7. TablesSay(e, Done \cup {z}, Q)
      BY <1>2, <3>2, <3>5, <3>6, TablesTurn
    <3> QED  BY <3>1, <3>7
  <2>3. CASE q.kind # "block"
    <3> DEFINE Blocks(I) == {i \in I : batch[i].kind = "block"}
    <3>0. /\ Blocks(1..(pos + 1)) = Blocks(1..pos)
          /\ Blocks((pos + 2)..Len(batch)) = Blocks((pos + 1)..Len(batch))
      BY <1>8, <2>3
    <3>1. Done' = Done /\ Pending' = Pending
      BY <1>6, <1>8, <3>0 DEF Done, Pending, BlocksOf
    <3>2. Only(stage, e, {"balances", "pillars", "momentums"})
      <4>1. q.kind \in {"balance", "momentum"}
        BY <1>4, <2>3 DEF Item
      <4> HIDE DEF q
      <4> QED  BY <1>4, <4>1, OtherCalled
    <3> HIDE DEF e, q
    <3>3. SameRows(stage, e)
      BY <3>2, OnlySame DEF SameRows
    <3> QED  BY <2>1, <3>1, <3>3, SameSays
  <2> QED  BY <2>2, <2>3
<1> HIDE DEF e
<1>10. (pc = "exec" /\ InOrder /\ WouldFollow => TablesSay(stage, Done, Pending))'
  BY <1>1, <1>7, <1>9, SaysFixed
<1>11. (InOrder => TablesSay(db, Items, {}))'
  BY <1>1, <1>6, <1>7, SaysFixed DEF OrderInv
<1>12. (\A i \in DOMAIN journal : OwnBlocks(journal[i]))'
  BY <1>1, <1>5 DEF OrderInv, OwnBlocks
<1>13. BatchBuilt' /\ QueuedInOrder'
  BY <1>1, <1>5 DEF OrderInv, BatchBuilt, QueuedInOrder, ListedBefore
<1> QED  BY <1>1, <1>10, <1>11, <1>12, <1>13 DEF OrderInv

\* A batch has a block once.
LEMMA EntryOwn ==
  ASSUME ExplorerInv, OrderInv, pc = "exec"
  PROVE  OwnBlocks(Entry)
<1>1. /\ world \in Worlds /\ tip \in 1..Len(world.chain) /\ height \in 1..tip
      /\ IsSequence(batch)
      /\ \A i \in DOMAIN batch : batch[i].kind = "block" => PairedRight(batch[i])
  BY DEF ExplorerInv, ProcessInv, PairsInv
<1>2. Len(batch) \in Nat /\ DOMAIN batch = 1..Len(batch) /\ height \in DOMAIN world.chain
  BY <1>1, SequenceDomain, ChainFacts
<1>3. /\ Entry.height = height
      /\ Entry.items = {ItemOf(batch[i]) : i \in {i \in DOMAIN batch : batch[i].kind = "block"}}
  BY DEF Entry
<1>4. \A i : ItemOf(batch[i]).hash = batch[i].hash
  BY DEF ItemOf
<1>5. ASSUME NEW i \in DOMAIN batch, batch[i].kind = "block",
             NEW j \in DOMAIN batch, batch[j].kind = "block", i < j
      PROVE  batch[i].hash # batch[j].hash
  <2>1. ListedBefore(batch[i].hash, batch[j].hash)
    BY <1>5 DEF OrderInv, QueuedInOrder
  <2>2. PICK m, n \in DOMAIN Content(height) :
          m < n /\ batch[i].hash = Content(height)[m] /\ batch[j].hash = Content(height)[n]
    BY <2>1 DEF ListedBefore
  <2>3. m \in Nat /\ n \in Nat
    BY <1>1, ChainFacts
  <2> QED  BY <1>1, <1>2, <2>2, <2>3, ListedOnce
<1>6. ASSUME NEW x \in Entry.items, NEW y \in Entry.items, x.hash = y.hash PROVE x = y
  <2>1. PICK i \in DOMAIN batch : batch[i].kind = "block" /\ x = ItemOf(batch[i])
    BY <1>3
  <2>2. PICK j \in DOMAIN batch : batch[j].kind = "block" /\ y = ItemOf(batch[j])
    BY <1>3
  <2>3. i = j
    BY <1>2, <1>4, <1>5, <1>6, <2>1, <2>2
  <2> QED  BY <2>1, <2>2, <2>3
<1>7. ASSUME NEW x \in Entry.items PROVE x.hash \in Listed(height)
  <2>1. PICK i \in DOMAIN batch : batch[i].kind = "block" /\ x = ItemOf(batch[i])
    BY <1>3
  <2> QED  BY <1>1, <1>4, <2>1 DEF PairedRight
<1> QED  BY <1>3, <1>6, <1>7 DEF OwnBlocks

\* The transaction's image becomes the committed tables.
LEMMA CommitOrder ==
  ASSUME ExplorerInv, BalancesInv, OrderInv, Commit
  PROVE  OrderInv'
<1> DEFINE new == Entry
           n == Len(journal)
<1>1. /\ pc = "exec" /\ pos = Len(batch) /\ db' = stage /\ pc' = "idle"
      /\ world' = world /\ journal' = Append(journal, new)
  BY DEF Commit, Idle
<1>2. IsSequence(batch) /\ DOMAIN batch = 1..pos /\ pos \in Nat
  BY <1>1, SequenceDomain DEF ExplorerInv, ProcessInv
<1>3. OwnBlocks(new)
  BY <1>1, EntryOwn
<1>4. BlocksOf(batch, 1..pos) = new.items
  BY <1>2 DEF Entry, BlocksOf
<1>5. Pending = {}
  <2>1. (pos + 1)..Len(batch) = {}
    BY <1>1, <1>2
  <2> QED  BY <2>1 DEF Pending, BlocksOf
<1> HIDE DEF new
<1>6. /\ DOMAIN journal' = DOMAIN journal \cup {n + 1} /\ journal'[n + 1] = new
      /\ \A i \in DOMAIN journal : journal'[i] = journal[i]
      /\ n \in Nat /\ DOMAIN journal = 1..n
  BY <1>1, Appended, SequenceDomain DEF BalancesInv
<1> HIDE DEF n
<1>7. Items' = Done
  <2>1. Items' = Items \cup new.items
    BY <1>6 DEF Items
  <2> QED  BY <1>4, <2>1 DEF Done
<1>8. InOrder' => InOrder /\ WouldFollow
  <2> SUFFICES ASSUME InOrder' PROVE InOrder /\ WouldFollow
    OBVIOUS
  <2>1. \A i, j \in DOMAIN journal' : i < j => Follows(journal'[i], journal'[j])
    BY DEF InOrder, Follows, Repeats
  <2>2. \A i \in DOMAIN journal : i < n + 1 /\ i \in DOMAIN journal' /\ n + 1 \in DOMAIN journal'
    BY <1>6
  <2>3. \A i \in DOMAIN journal : Follows(journal[i], new)
    BY <1>6, <2>1, <2>2
  <2>4. InOrder
    BY <1>6, <2>1, <2>2 DEF InOrder
  <2> QED  BY <2>3, <2>4 DEF WouldFollow, new
<1>9. (InOrder => TablesSay(db, Items, {}))'
  BY <1>1, <1>5, <1>7, <1>8, SaysFixed DEF OrderInv
<1>10. (\A e \in DOMAIN journal : OwnBlocks(journal[e]))'
  <2>1. \A e \in DOMAIN journal' : OwnBlocks(journal'[e])
    BY <1>3, <1>6 DEF OrderInv
  <2>2. \A h : Listed(h)' = Listed(h)
    BY <1>1, OrderFixed
  <2> QED  BY <2>1, <2>2 DEF OwnBlocks
<1> QED  BY <1>1, <1>9, <1>10 DEF OrderInv

\* What the writers beside the transaction write.
BesideTables == {"pillars", "sentinels", "projects", "phases", "assets", "tokens", "stats"}
Aside == UNCHANGED <<world, tip, processing, journal>> /\ Only(db, db', BesideTables)

\* A row of a list goes to one of them.
LEMMA StoreRowOnly ==
  ASSUME NEW d, Fine(d), NEW what \in DOMAIN After, NEW r, NEW k
  PROVE  Only(d, StoreRow(d, what, r, k), BesideTables)
<1>1. ASSUME NEW v
      PROVE  /\ Only(d, [d EXCEPT !.pillars = v], BesideTables)
             /\ Only(d, [d EXCEPT !.sentinels = v], BesideTables)
             /\ Only(d, [d EXCEPT !.projects = v], BesideTables)
             /\ Only(d, [d EXCEPT !.phases = v], BesideTables)
             /\ Only(d, [d EXCEPT !.assets = v], BesideTables)
  BY DEF Only, Fine, Tables, EmptyDB, BesideTables
<1>2. what \in {"pillars", "sentinels", "projects", "assets"}
  BY DEF After
<1> QED  BY <1>1, <1>2 DEF StoreRow

\* The refresh and the jobs.
LEMMA BesideAside ==
  ASSUME ExplorerInv,
         \/ \E all \in BOOLEAN : StartRefresh(all)
         \/ \E n \in Frontiers : FetchList(n)
         \/ FetchFails \/ PublishPillars \/ PageDone
         \/ \E ok \in BOOLEAN : WriteRow(ok)
         \/ \E o \in GetPillars : runVotingActivity(o)
         \/ \E o \in GetPillars : \E counted \in BOOLEAN : snapshotPillarStats(o, counted)
         \/ \E t \in DOMAIN db.tokens : runTokenHolderCounts(t) \/ snapshotTokenStats(t)
         \/ snapshotNetworkStats
  PROVE  Aside
<1>1. Fine(db)
  BY DEF ExplorerInv, TablesInv
<1>2. Only(db, db, BesideTables)
  BY <1>1, OnlyNone
<1>3. ASSUME \/ \E all \in BOOLEAN : StartRefresh(all)
             \/ (\E n \in Frontiers : FetchList(n)) \/ FetchFails \/ PublishPillars \/ PageDone
      PROVE  Aside
  <2>1. UNCHANGED <<world, tip, processing, journal>> /\ db' = db
    BY <1>3 DEF StartRefresh, FetchList, FetchFails, PublishPillars, PageDone, ledgerVars
  <2> QED  BY <1>2, <2>1 DEF Aside
<1>4. ASSUME NEW ok \in BOOLEAN, WriteRow(ok) PROVE Aside
  <2>1. /\ UNCHANGED <<world, tip, processing, journal>> /\ fetched
        /\ db' = db \/ db' = StoreRow(db, refresh, list[row + 1], sub)
    BY <1>4 DEF WriteRow
  <2>2. refresh \in DOMAIN After
    BY <2>1 DEF ExplorerInv, RefreshInv
  <2>3. Only(db, StoreRow(db, refresh, list[row + 1], sub), BesideTables)
    BY <1>1, <2>2, StoreRowOnly
  <2> QED  BY <1>2, <2>1, <2>3 DEF Aside
<1>5. ASSUME NEW u, \/ Cron([db EXCEPT !.tokens = u]) \/ Cron([db EXCEPT !.stats = u])
                    \/ Cron([db EXCEPT !.pillars = u])
      PROVE  Aside
  <2>1. /\ Only(db, [db EXCEPT !.tokens = u], BesideTables)
        /\ Only(db, [db EXCEPT !.stats = u], BesideTables)
        /\ Only(db, [db EXCEPT !.pillars = u], BesideTables)
    BY <1>1 DEF Only, Fine, Tables, EmptyDB, BesideTables
  <2> QED  BY <1>5, <2>1 DEF Cron, Aside
<1>6. ASSUME NEW o, runVotingActivity(o) PROVE Aside
  BY <1>5, <1>6 DEF runVotingActivity
<1>7. ASSUME NEW o, NEW counted, snapshotPillarStats(o, counted) PROVE Aside
  BY <1>5, <1>7 DEF snapshotPillarStats
<1>8. ASSUME NEW t, runTokenHolderCounts(t) PROVE Aside
  BY <1>5, <1>8 DEF runTokenHolderCounts
<1>9. ASSUME NEW t, snapshotTokenStats(t) PROVE Aside
  BY <1>5, <1>9 DEF snapshotTokenStats
<1>10. ASSUME snapshotNetworkStats PROVE Aside
  BY <1>5, <1>10 DEF snapshotNetworkStats
<1> QED  BY <1>3, <1>4, <1>6, <1>7, <1>8, <1>9, <1>10

\* Every step keeps OrderInv.
LEMMA OrderStep == ExplorerInv /\ BalancesInv /\ OrderInv /\ [Next]_vars => OrderInv'
<1> SUFFICES ASSUME ExplorerInv, BalancesInv, OrderInv, [Next]_vars PROVE OrderInv'
  OBVIOUS
<1>0. /\ SameRows(db, db)
      /\ Aside => UNCHANGED <<world, processing, journal>> /\ SameRows(db, db')
  BY OnlySame DEF SameRows, Aside, BesideTables
<1>1. ASSUME LedgerNext PROVE OrderInv'
  <2>1. ASSUME QueueMomentum PROVE OrderInv'
    BY <2>1, QueueMomentumOrder
  <2>2. CASE Rollback
    <3>1. pc' = "idle" /\ UNCHANGED <<world, db, journal>>
      BY <2>2 DEF Rollback, Idle
    <3> QED  BY <3>1, OrderQueue
  <2>3. CASE NodeAdvance
    <3>1. UNCHANGED <<world, processing, journal>> /\ db' = db
      BY <2>3 DEF NodeAdvance
    <3> QED  BY <1>0, <3>1, OrderFrame
  <2> QED  BY <1>1, <2>1, <2>2, <2>3, QueueOrder, ExecItemOrder, CommitOrder DEF LedgerNext
<1>2. ASSUME Restart PROVE OrderInv'
  <2>1. pc' = "idle" /\ UNCHANGED <<world, db, journal>>
    BY <1>2 DEF Restart, Crash, Idle
  <2> QED  BY <2>1, OrderQueue
<1>3. ASSUME Aside PROVE OrderInv'
  BY <1>0, <1>3, OrderFrame
<1>4. ASSUME CachedNext PROVE OrderInv'
  BY <1>1, <1>2, <1>3, <1>4, BesideAside DEF CachedNext
<1>5. ASSUME UNCHANGED cachedVars PROVE OrderInv'
  <2>1. UNCHANGED <<world, processing, journal>> /\ db' = db
    BY <1>5 DEF cachedVars, ledgerVars
  <2> QED  BY <1>0, <2>1, OrderFrame
<1> QED  BY <1>4, <1>5 DEF Next, StartWalk, ReadPage, vars

-----------------------------------------------------------------------------
(* Order: what the tables say once nothing is to come *)

\* A block was indexed twice, each time for a known pillar.
BothKnown(x, y) == x.hash = y.hash /\ x.owner # "" /\ y.owner # ""

\* They name the same one.
LEMMA SameOwner ==
  ASSUME world \in Worlds, tip \in 1..Len(world.chain), BalancesInv, OrderInv, InOrder,
         NEW x \in Items, NEW y \in Items, BothKnown(x, y)
  PROVE  x.owner = y.owner
<1>1. PICK i \in DOMAIN journal : x \in journal[i].items
  BY DEF Items
<1>2. PICK j \in DOMAIN journal : y \in journal[j].items
  BY DEF Items
<1>3. DOMAIN journal = 1..Len(journal) /\ Len(journal) \in Nat
  BY SequenceDomain DEF BalancesInv
<1>4. OwnBlocks(journal[i]) /\ OwnBlocks(journal[j])
  BY DEF OrderInv
<1> DEFINE u == journal[i]
           v == journal[j]
           g == u.height
           h == v.height
<1>5. g \in DOMAIN world.chain /\ h \in DOMAIN world.chain /\ g \in Nat /\ h \in Nat
  <2>1. g \in 1..tip /\ h \in 1..tip
    BY DEF BalancesInv
  <2> HIDE DEF g, h
  <2>2. tip \in Nat /\ tip <= Len(world.chain) /\ Len(world.chain) \in Nat
    BY ChainFacts
  <2> QED  BY <2>1, <2>2, ChainFacts
<1>12. (i < j => Follows(u, v)) /\ (j < i => Follows(v, u))
  BY DEF InOrder
<1>6. /\ x \in u.items /\ y \in v.items /\ x.hash \in Listed(g) /\ y.hash \in Listed(h)
      /\ \A w \in u.items : w.hash = x.hash => w = x
      /\ \A w \in v.items : w.hash = y.hash => w = y
  BY <1>1, <1>2, <1>4 DEF OwnBlocks
<1> HIDE DEF g, h
<1>7. g = h /\ g \in Nat
  <2>1. PICK m \in DOMAIN Content(g) : x.hash = Content(g)[m]
    BY <1>6 DEF Listed
  <2>2. PICK n \in DOMAIN Content(h) : y.hash = Content(h)[n]
    BY <1>6 DEF Listed
  <2> QED  BY <1>5, <2>1, <2>2, ListedOnce DEF BothKnown
<1>8. u.height = g /\ v.height = h
  BY DEF g, h
<1> HIDE DEF u, v
<1>9. CASE i = j
  BY <1>6, <1>9 DEF u, v, BothKnown
<1>10. CASE i < j
  <2>1. PICK w \in v.items : Repeats(x, w)
    <3>1. Follows(u, v) /\ ~(u.height < v.height)
      BY <1>7, <1>8, <1>10, <1>12
    <3> QED  BY <1>6, <3>1 DEF Follows
  <2> QED  BY <1>6, <2>1 DEF Repeats, BothKnown
<1>11. CASE j < i
  <2>1. PICK w \in u.items : Repeats(y, w)
    <3>1. Follows(v, u) /\ ~(v.height < u.height)
      BY <1>7, <1>8, <1>11, <1>12
    <3> QED  BY <1>6, <3>1 DEF Follows
  <2> QED  BY <1>6, <2>1 DEF Repeats, BothKnown
<1>13. i \in Int /\ j \in Int
  BY <1>3
<1> QED  BY <1>9, <1>10, <1>11, <1>13

\* Indexed blocks are on the chain.
LEMMA ItemsListed ==
  ASSUME world \in Worlds, tip \in 1..Len(world.chain), BalancesInv, OrderInv, NEW x \in Items
  PROVE  OnChain(x)
<1>1. PICK e \in DOMAIN journal : x \in journal[e].items
  BY DEF Items
<1>2. x.hash \in Listed(journal[e].height) /\ journal[e].height \in 1..tip
  BY <1>1 DEF OrderInv, OwnBlocks, BalancesInv
<1>3. journal[e].height \in DOMAIN world.chain
  BY <1>2, ChainFacts
<1> QED  BY <1>2, <1>3 DEF OnChain

\* With nothing to come, what decides is the latest.
LEMMA DecidesLatest ==
  ASSUME NEW x, NEW xs, Decides(x, xs, {})
  PROVE  x \in Latest(xs)
BY DEF Decides, Latest, Due

\* Locks, HTLCs and votes.
LEMMA LocksSaid ==
  ASSUME NEW rows, NEW opened, NEW closed, LocksSay(rows, opened, closed, {})
  PROVE  LocksExact(rows, opened, closed)
<1>1. \A x : ~Due(x, {})
  BY DEF Due
<1> QED  BY <1>1 DEF LocksSay, LocksExact

\* An HTLC has its last settlement.
LEMMA HtlcsSaid ==
  ASSUME NEW rows, NEW opened, NEW settled, HtlcsSay(rows, opened, settled, {})
  PROVE  HtlcsExact(rows, opened, settled)
<1>1. \A x : ~Due(x, {})
  BY DEF Due
<1>2. ASSUME NEW r, NEW ends, SettledBy(r, ends, {})
      PROVE  IF ends = {} THEN r.status = "active"
             ELSE \E x \in Latest(ends) : r.status = StatusBy(x)
  <2>1. CASE r.status = "active" /\ \A x \in ends : Due(x, {})
    BY <1>1, <2>1
  <2>2. CASE \E x : Decides(x, ends, {}) /\ r.status = StatusBy(x)
    <3>1. PICK x : Decides(x, ends, {}) /\ r.status = StatusBy(x)
      BY <2>2
    <3>2. x \in Latest(ends) /\ x \in ends
      BY <3>1, DecidesLatest DEF Decides
    <3> QED  BY <3>1, <3>2
  <2> QED  BY <1>2, <2>1, <2>2 DEF SettledBy
<1> QED  BY <1>2 DEF HtlcsSay, HtlcsExact

\* A voter has its latest vote.
LEMMA VotesSaid ==
  ASSUME NEW rows, NEW cast, VotesSay(rows, cast, {})
  PROVE  VotesExact(rows, cast)
<1>1. ASSUME NEW k \in DOMAIN rows
      PROVE  \E x \in Latest({x \in cast : VoteKey(x) = k}) : rows[k].vote = SendOf(x).call.vote
  <2>1. PICK x : Decides(x, VotesOn(cast, k), {}) /\ rows[k].vote = SendOf(x).call.vote
    BY DEF VotesSay
  <2>2. x \in Latest(VotesOn(cast, k))
    BY <2>1, DecidesLatest
  <2> QED  BY <2>1, <2>2 DEF VotesOn
<1> QED  BY <1>1 DEF VotesSay, VotesExact

\* A delegator is where it moved last: the latest moves are of one block, for one pillar.
LEMMA DelegationsSaid ==
  ASSUME world \in Worlds, tip \in 1..Len(world.chain), BalancesInv, OrderInv, InOrder,
         NEW rows, DelegationsSay(rows, Items, {})
  PROVE  DelegationsExact(rows, Items)
<1> SUFFICES ASSUME NEW a PROVE Shown(rows, a) = Chosen(Latest(Moves(Items, a)))
  BY DEF DelegationsExact
<1> DEFINE moves == Moves(Items, a)
<1>1. MovedBy(Shown(rows, a), moves, {})
  BY DEF DelegationsSay
<1>2. \A x \in moves : x \in Items /\ (SendOf(x).call.method = "Delegate" => x.owner # "")
  BY DEF Moves, Calls
<1> HIDE DEF moves
<1>3. CASE moves = {} /\ Shown(rows, a) = {}
  BY <1>3 DEF Latest, Chosen, moves
<1>4. CASE \E x : Decides(x, moves, {}) /\ Shown(rows, a) = Chosen({x})
  <2>1. PICK x : Decides(x, moves, {}) /\ Shown(rows, a) = Chosen({x})
    BY <1>4
  <2>2. x \in Latest(moves) /\ x \in moves
    BY <2>1, DecidesLatest DEF Decides
  <2>3. ASSUME NEW y \in Latest(moves), SendOf(y).call.method = "Delegate"
        PROVE  y.owner = x.owner /\ y.hash = x.hash
    <3>1. y \in moves /\ (y.hash = x.hash \/ Earlier(y, x)) /\ (x.hash = y.hash \/ Earlier(x, y))
      BY <2>2 DEF Latest
    <3>2. OnChain(x) /\ OnChain(y)
      BY <1>2, <2>2, <3>1, ItemsListed
    <3>3. y.hash = x.hash
      BY <3>1, <3>2, EarlierStrict
    <3>4. SendOf(x) = SendOf(y)
      BY <3>3 DEF SendOf
    <3>5. x.owner # "" /\ y.owner # ""
      BY <1>2, <2>2, <2>3, <3>1, <3>4
    <3> QED  BY <1>2, <2>2, <3>1, <3>3, <3>5, SameOwner DEF BothKnown
  <2>4. ASSUME NEW y \in Latest(moves) PROVE SendOf(y) = SendOf(x)
    <3>1. y \in moves /\ (y.hash = x.hash \/ Earlier(y, x)) /\ (x.hash = y.hash \/ Earlier(x, y))
      BY <2>2 DEF Latest
    <3>2. OnChain(x) /\ OnChain(y)
      BY <1>2, <2>2, <3>1, ItemsListed
    <3>3. y.hash = x.hash
      BY <3>1, <3>2, EarlierStrict
    <3> QED  BY <3>3 DEF SendOf
  <2>5. Chosen(Latest(moves)) = Chosen({x})
    BY <2>2, <2>3, <2>4 DEF Chosen
  <2> QED  BY <2>1, <2>5 DEF moves
<1> QED  BY <1>1, <1>3, <1>4 DEF MovedBy

\* Nothing is indexed at first.
LEMMA InitOrder ==
  ASSUME Init
  PROVE  OrderInv /\ BalancesInv
<1>1. journal = <<>> /\ db = EmptyDB /\ pc = "idle"
  BY DEF Init, CachedInit, LedgerInit
<1>2. DOMAIN journal = {} /\ Items = {} /\ DOMAIN <<>> = {}
  BY <1>1 DEF Items
<1>3. /\ db.stakes = <<>> /\ db.fusions = <<>> /\ db.htlcs = <<>>
      /\ db.votes = <<>> /\ db.delegations = <<>>
  BY <1>1 DEF EmptyDB
<1>4. \A contract, methods : Calls({}, contract, methods) = {}
  BY DEF Calls
<1>5. Cast({}) = {} /\ \A a : Moves({}, a) = {}
  BY <1>4 DEF Cast, Moves
<1>6. \A a : Shown(<<>>, a) = {}
  BY <1>2 DEF Shown, OpenIntervals
<1>7. TablesSay(db, {}, {})
  BY <1>2, <1>3, <1>4, <1>5, <1>6
     DEF TablesSay, LocksSay, HtlcsSay, VotesSay, VoteRows, DelegationsSay, MovedBy
<1>8. OrderInv
  BY <1>1, <1>2, <1>7 DEF OrderInv
<1>9. BalancesInv
  BY DEF Init, CachedInit, LedgerInit, BalancesInv, JournalShown, IsSequence
<1> QED  BY <1>8, <1>9

\* Processed in the chain's order, with heights and blocks skipped, momentums processed
\* again, the process restarted and the lists refreshed at any point, the tables of
\* stakes, fusions, HTLCs, votes and delegations say what the indexed blocks say.
THEOREM InOrderIsExact == Spec => []InOrderExact
<1>1. Init => OrderInv /\ BalancesInv
  BY InitOrder
<1>2. ASSUME ExplorerInv, BalancesInv, OrderInv PROVE InOrderExact
  <2> SUFFICES ASSUME InOrder
               PROVE  /\ LocksExact(db.stakes, Calls(Items, "stake", {"Stake"}),
                                    Calls(Items, "stake", {"Cancel"}))
                      /\ LocksExact(db.fusions, Calls(Items, "plasma", {"Fuse"}),
                                    Calls(Items, "plasma", {"CancelFuse"}))
                      /\ HtlcsExact(db.htlcs, Calls(Items, "htlc", {"Create"}),
                                    Calls(Items, "htlc", {"Unlock", "Reclaim"}))
                      /\ VotesExact(db.votes, Cast(Items))
                      /\ DelegationsExact(db.delegations, Items)
    BY DEF InOrderExact
  <2>1. TablesSay(db, Items, {}) /\ world \in Worlds /\ tip \in 1..Len(world.chain)
    BY <1>2 DEF OrderInv, ExplorerInv, ProcessInv
  <2>2. DelegationsExact(db.delegations, Items)
    BY <1>2, <2>1, DelegationsSaid DEF TablesSay
  <2> QED  BY <2>1, <2>2, LocksSaid, HtlcsSaid, VotesSaid DEF TablesSay
<1> QED  BY <1>1, <1>2, Reachable, BalancesStep, OrderStep, PTL DEF Spec

-----------------------------------------------------------------------------
(* Sums over finite sets *)

Pick(s) == CHOOSE x \in s : TRUE

\* The sums over the subsets of S, as the library's fold computes them.
IsSum(f, S, g) ==
  g = [s \in SUBSET S |-> IF s = {} THEN 0 ELSE f[Pick(s)] + g[s \ {Pick(s)}]]

\* What the sum is.
LEMMA SumOverIs ==
  ASSUME NEW f, NEW S
  PROVE  SumOver(f, S) = (CHOOSE g : IsSum(f, S, g))[S]
BY DEF SumOver, MapThenSumSet, MapThenFoldSet, IsSum, Pick

\* A statement about natural numbers that holds up to n whenever it holds below n.
LEMMA Complete ==
  ASSUME NEW P, \A n \in Nat : (\A m \in Nat : m < n => m \in P) => n \in P
  PROVE  Nat \subseteq P
<1> DEFINE C == Nat \ P
<1> SUFFICES ASSUME C # {} PROVE FALSE
  OBVIOUS
<1>1. PICK m \in C : \A k \in C : m <= k
  BY Least
<1>2. \A k \in Nat : k < m => k \in P
  BY <1>1
<1> QED  BY <1>1, <1>2

\* The pick of a set that is not empty, and the smaller set without an element.
LEMMA Smaller ==
  ASSUME NEW s, IsFiniteSet(s), s # {}
  PROVE  /\ Pick(s) \in s
         /\ \A x \in s : /\ IsFiniteSet(s \ {x}) /\ Cardinality(s) \in Nat
                         /\ Cardinality(s \ {x}) \in Nat
                         /\ Cardinality(s \ {x}) < Cardinality(s)
<1>1. Pick(s) \in s
  BY DEF Pick
<1>2. ASSUME NEW x \in s
      PROVE  /\ IsFiniteSet(s \ {x}) /\ Cardinality(s) \in Nat /\ Cardinality(s \ {x}) \in Nat
             /\ Cardinality(s \ {x}) = Cardinality(s) - 1
  BY FS_RemoveElement, FS_CardinalityType
<1>3. ASSUME NEW x \in s PROVE Cardinality(s \ {x}) < Cardinality(s)
  <2>1. /\ Cardinality(s) \in Nat /\ Cardinality(s \ {x}) = Cardinality(s) - 1
    BY <1>2
  <2> QED  BY <2>1
<1> QED  BY <1>1, <1>2, <1>3

\* There is at most one such function.
LEMMA SumUnique ==
  ASSUME NEW f, NEW S, IsFiniteSet(S), NEW g, IsSum(f, S, g), NEW h, IsSum(f, S, h)
  PROVE  g = h
<1> DEFINE P == {n \in Nat : \A s \in SUBSET S : Cardinality(s) = n => g[s] = h[s]}
<1>0. /\ g = [s \in SUBSET S |-> g[s]] /\ h = [s \in SUBSET S |-> h[s]]
      /\ \A s \in SUBSET S : g[s] = IF s = {} THEN 0 ELSE f[Pick(s)] + g[s \ {Pick(s)}]
      /\ \A s \in SUBSET S : h[s] = IF s = {} THEN 0 ELSE f[Pick(s)] + h[s \ {Pick(s)}]
  BY DEF IsSum
<1>1. ASSUME NEW n \in Nat, \A m \in Nat : m < n => m \in P PROVE n \in P
  <2>1. ASSUME NEW s \in SUBSET S, Cardinality(s) = n PROVE g[s] = h[s]
    <3>1. CASE s = {}
      BY <1>0, <3>1
    <3>2. CASE s # {}
      <4> DEFINE T == s \ {Pick(s)}
      <4>1. T \in SUBSET S /\ Cardinality(T) \in Nat /\ Cardinality(T) < n
        BY <2>1, <3>2, FS_Subset, Smaller
      <4>2. Cardinality(T) \in P
        BY <1>1, <4>1
      <4>3. g[T] = h[T]
        BY <4>1, <4>2
      <4> QED  BY <1>0, <3>2, <4>3
    <3> QED  BY <3>1, <3>2
  <2> QED  BY <2>1
<1>2. Nat \subseteq P
  <2> HIDE DEF P
  <2> QED  BY <1>1, Complete
<1>3. \A s \in SUBSET S : g[s] = h[s]
  BY <1>2, FS_Subset, FS_CardinalityType
<1> QED  BY <1>0, <1>3

\* On fewer sets it is the same.
LEMMA SumRestrict ==
  ASSUME NEW f, NEW S, NEW g, IsSum(f, S, g), NEW U \in SUBSET S
  PROVE  IsSum(f, U, [s \in SUBSET U |-> g[s]])
<1> DEFINE r == [s \in SUBSET U |-> g[s]]
<1>1. \A s \in SUBSET S : g[s] = IF s = {} THEN 0 ELSE f[Pick(s)] + g[s \ {Pick(s)}]
  BY DEF IsSum
<1>2. \A s \in SUBSET U : s \in SUBSET S /\ s \ {Pick(s)} \in SUBSET U
  OBVIOUS
<1>3. \A s \in SUBSET U : r[s] = IF s = {} THEN 0 ELSE f[Pick(s)] + r[s \ {Pick(s)}]
  BY <1>1, <1>2
<1>4. r = [s \in SUBSET U |-> IF s = {} THEN 0 ELSE f[Pick(s)] + r[s \ {Pick(s)}]]
  BY <1>3
<1> QED  BY <1>4 DEF IsSum

\* Its values are the sums.
LEMMA SumValue ==
  ASSUME NEW f, NEW S, IsFiniteSet(S), NEW g, IsSum(f, S, g), NEW U \in SUBSET S
  PROVE  g[U] = SumOver(f, U)
<1> DEFINE r == [s \in SUBSET U |-> g[s]]
           c == CHOOSE k : IsSum(f, U, k)
<1>1. IsSum(f, U, r)
  BY SumRestrict
<1>2. IsSum(f, U, c)
  BY <1>1
<1>3. r = c
  <2> HIDE DEF r, c
  <2> QED  BY <1>1, <1>2, FS_Subset, SumUnique
<1>4. r[U] = g[U]
  OBVIOUS
<1> QED  BY <1>3, <1>4, SumOverIs

\* There is one.
LEMMA SumExists ==
  ASSUME NEW f, NEW S, IsFiniteSet(S)
  PROVE  \E g : IsSum(f, S, g)
<1> DEFINE P == {n \in Nat : \A s \in SUBSET S : Cardinality(s) = n => \E g : IsSum(f, s, g)}
<1>1. ASSUME NEW n \in Nat, \A m \in Nat : m < n => m \in P PROVE n \in P
  <2>1. ASSUME NEW s \in SUBSET S, Cardinality(s) = n PROVE \E g : IsSum(f, s, g)
    <3> DEFINE G == [t \in SUBSET s |->
                       IF t = {} THEN 0 ELSE f[Pick(t)] + SumOver(f, t \ {Pick(t)})]
    <3>1. ASSUME NEW t \in SUBSET s, t # {} PROVE SumOver(f, t \ {Pick(t)}) = G[t \ {Pick(t)}]
      <4> DEFINE T == t \ {Pick(t)}
      <4>1. /\ T \in SUBSET S /\ T \in SUBSET s /\ IsFiniteSet(T)
            /\ Cardinality(T) \in Nat /\ Cardinality(T) < n
        <5>1. IsFiniteSet(s) /\ IsFiniteSet(t) /\ Cardinality(t) <= Cardinality(s)
          BY FS_Subset
        <5>2. /\ Cardinality(s) \in Nat /\ Cardinality(t) \in Nat /\ IsFiniteSet(T)
              /\ Cardinality(T) \in Nat /\ Cardinality(T) < Cardinality(t)
          BY <3>1, <5>1, Smaller, FS_CardinalityType
        <5> QED  BY <2>1, <5>1, <5>2
      <4>2. Cardinality(T) \in P
        BY <1>1, <4>1
      <4> HIDE DEF T
      <4>3. PICK g : IsSum(f, T, g)
        BY <4>1, <4>2
      <4>4. SumOver(f, T) = g[T] /\ SumOver(f, T \ {Pick(T)}) = g[T \ {Pick(T)}]
        BY <4>1, <4>3, SumValue
      <4>5. g[T] = IF T = {} THEN 0 ELSE f[Pick(T)] + g[T \ {Pick(T)}]
        BY <4>3 DEF IsSum
      <4> QED  BY <4>1, <4>4, <4>5 DEF T
    <3>2. \A t \in SUBSET s : G[t] = IF t = {} THEN 0 ELSE f[Pick(t)] + G[t \ {Pick(t)}]
      BY <3>1
    <3>3. G = [t \in SUBSET s |-> IF t = {} THEN 0 ELSE f[Pick(t)] + G[t \ {Pick(t)}]]
      BY <3>2
    <3> QED  BY <3>3 DEF IsSum
  <2> QED  BY <2>1
<1>2. Nat \subseteq P
  <2> HIDE DEF P
  <2> QED  BY <1>1, Complete
<1> QED  BY <1>2, FS_CardinalityType

\* The sum, unfolded once.
LEMMA SumUnfolds ==
  ASSUME NEW f, NEW s, IsFiniteSet(s)
  PROVE  SumOver(f, s) = IF s = {} THEN 0 ELSE f[Pick(s)] + SumOver(f, s \ {Pick(s)})
<1>1. PICK g : IsSum(f, s, g)
  BY SumExists
<1>2. g[s] = IF s = {} THEN 0 ELSE f[Pick(s)] + g[s \ {Pick(s)}]
  BY <1>1 DEF IsSum
<1>3. g[s] = SumOver(f, s) /\ g[s \ {Pick(s)}] = SumOver(f, s \ {Pick(s)})
  BY <1>1, SumValue
<1> QED  BY <1>2, <1>3

\* A sum of natural numbers is one, and equal terms have equal sums.
LEMMA SumNat ==
  ASSUME NEW f, NEW h, NEW S, IsFiniteSet(S), \A x \in S : f[x] \in Nat /\ h[x] = f[x]
  PROVE  SumOver(f, S) \in Nat /\ SumOver(h, S) = SumOver(f, S)
<1> DEFINE R(s) == SumOver(f, s) \in Nat /\ SumOver(h, s) = SumOver(f, s)
           P == {n \in Nat : \A s \in SUBSET S : Cardinality(s) = n => R(s)}
<1>1. ASSUME NEW n \in Nat, \A m \in Nat : m < n => m \in P PROVE n \in P
  <2>1. ASSUME NEW s \in SUBSET S, Cardinality(s) = n PROVE R(s)
    <3>0. IsFiniteSet(s)
      BY FS_Subset
    <3>1. CASE s = {}
      <4>1. SumOver(f, s) = 0
        BY <3>0, <3>1, SumUnfolds
      <4>2. SumOver(h, s) = 0
        BY <3>0, <3>1, SumUnfolds
      <4> QED  BY <4>1, <4>2
    <3>2. CASE s # {}
      <4> DEFINE T == s \ {Pick(s)}
      <4>1. T \in SUBSET S /\ Cardinality(T) \in Nat /\ Cardinality(T) < n /\ Pick(s) \in S
        BY <2>1, <3>0, <3>2, Smaller
      <4>2. Cardinality(T) \in P
        BY <1>1, <4>1
      <4>3. R(T)
        BY <4>1, <4>2
      <4>4. SumOver(f, s) = f[Pick(s)] + SumOver(f, T) /\ SumOver(h, s) = h[Pick(s)] + SumOver(h, T)
        BY <3>0, <3>2, SumUnfolds
      <4> HIDE DEF T
      <4> QED  BY <4>1, <4>3, <4>4
    <3> QED  BY <3>1, <3>2
  <2> QED  BY <2>1
<1>2. Nat \subseteq P
  <2> HIDE DEF P
  <2> QED  BY <1>1, Complete
<1> QED  BY <1>2, FS_CardinalityType

\* Any term may be taken out.
LEMMA SumRemove ==
  ASSUME NEW f, NEW S, IsFiniteSet(S), \A x \in S : f[x] \in Nat, NEW x \in S
  PROVE  SumOver(f, S) = f[x] + SumOver(f, S \ {x})
<1> DEFINE R(s) == \A z \in s : SumOver(f, s) = f[z] + SumOver(f, s \ {z})
           P == {n \in Nat : \A s \in SUBSET S : Cardinality(s) = n => R(s)}
<1>0. \A s \in SUBSET S : IsFiniteSet(s) /\ SumOver(f, s) \in Nat
  BY FS_Subset, SumNat
<1>1. ASSUME NEW n \in Nat, \A m \in Nat : m < n => m \in P PROVE n \in P
  <2>1. ASSUME NEW s \in SUBSET S, Cardinality(s) = n, NEW z \in s
        PROVE  SumOver(f, s) = f[z] + SumOver(f, s \ {z})
    <3> DEFINE y == Pick(s)
    <3>1. IsFiniteSet(s) /\ s # {} /\ y \in s /\ SumOver(f, s) = f[y] + SumOver(f, s \ {y})
      BY <1>0, Smaller, SumUnfolds
    <3>2. ASSUME NEW w \in s PROVE R(s \ {w})
      <4>1. /\ s \ {w} \in SUBSET S /\ Cardinality(s \ {w}) \in Nat /\ Cardinality(s \ {w}) < n
        BY <2>1, <3>1, Smaller
      <4>2. Cardinality(s \ {w}) \in P
        BY <1>1, <4>1
      <4> QED  BY <4>1, <4>2
    <3> HIDE DEF y
    <3>3. CASE y = z
      BY <3>1, <3>3
    <3>4. CASE y # z
      <4> DEFINE v == (s \ {y}) \ {z}
      <4>1. SumOver(f, s \ {y}) = f[z] + SumOver(f, v)
        BY <3>1, <3>2, <3>4
      <4>2. (s \ {z}) \ {y} = v
        OBVIOUS
      <4>3. SumOver(f, s \ {z}) = f[y] + SumOver(f, v)
        BY <3>1, <3>2, <3>4, <4>2
      <4>4. f[y] \in Nat /\ f[z] \in Nat /\ SumOver(f, v) \in Nat
        BY <1>0, <3>1
      <4> HIDE DEF v
      <4> QED  BY <3>1, <4>1, <4>3, <4>4
    <3> QED  BY <3>3, <3>4
  <2> QED  BY <2>1
<1>2. Nat \subseteq P
  <2> HIDE DEF P
  <2> QED  BY <1>1, Complete
<1>3. R(S)
  BY <1>2, FS_CardinalityType
<1> QED  BY <1>3

-----------------------------------------------------------------------------
(* Books: what the statements add to the counters *)

\* The rows an account's list shows.
Involving(blocks, a) == {x \in DOMAIN blocks : blocks[x].address = a \/ blocks[x].to = a}

\* Transaction counts are at least, or exactly, the rows.
CountRows(t) == \A a \in DOMAIN t : "txCount" \in DOMAIN t[a] /\ t[a].txCount \in Nat
CountsCover(t, blocks) ==
  /\ IsFiniteSet(DOMAIN blocks) /\ CountRows(t)
  /\ \A a \in DOMAIN t : t[a].txCount >= Cardinality(Involving(blocks, a))
CountsEqual(t, blocks) ==
  \A a \in DOMAIN t : t[a].txCount = Cardinality(Involving(blocks, a))

\* Cumulative rewards are at least, or exactly, the sums of the rows.
SumsCover(r, c) ==
  /\ IsFiniteSet(DOMAIN r) /\ \A x \in DOMAIN r : r[x].amount \in Nat
  /\ \A x \in DOMAIN r : RewardKey(r[x]) \in DOMAIN c
  /\ \A k \in DOMAIN c : c[k] \in Nat /\ c[k] >= RewardSum(r, k)
SumsEqual(r, c) ==
  /\ DOMAIN c = {RewardKey(r[x]) : x \in DOMAIN r}
  /\ \A k \in DOMAIN c : c[k] = RewardSum(r, k)

\* A reward's row is of an account that is there.
Rewarded(r, t) == \A x \in DOMAIN r : r[x].address \in DOMAIN t

BooksCover(d) ==
  /\ CountsCover(d.accounts, d.blocks) /\ SumsCover(d.rewards, d.cumulative)
  /\ Rewarded(d.rewards, d.accounts)
BooksEqual(d) == CountsEqual(d.accounts, d.blocks) /\ SumsEqual(d.rewards, d.cumulative)

\* The sum of one key when a row is added.
LEMMA RewardSumAdds ==
  ASSUME NEW r, IsFiniteSet(DOMAIN r), \A x \in DOMAIN r : r[x].amount \in Nat,
         NEW hash, hash \notin DOMAIN r, NEW new, new.amount \in Nat, NEW k
  PROVE  /\ RewardSum(r, k) \in Nat
         /\ RewardSum(Put(r, hash, new), k) =
              IF RewardKey(new) = k THEN RewardSum(r, k) + new.amount ELSE RewardSum(r, k)
<1> DEFINE u == Put(r, hash, new)
           f == [x \in DOMAIN r |-> r[x].amount]
           g == [x \in DOMAIN u |-> u[x].amount]
           S == {x \in DOMAIN r : RewardKey(r[x]) = k}
           T == {x \in DOMAIN u : RewardKey(u[x]) = k}
<1>1. /\ DOMAIN u = DOMAIN r \cup {hash} /\ u[hash] = new
      /\ \A x \in DOMAIN r : u[x] = r[x]
  BY DEF Put
<1> HIDE DEF u
<1>2. RewardSum(r, k) = SumOver(f, S) /\ RewardSum(u, k) = SumOver(g, T)
  BY DEF RewardSum
<1>3. IsFiniteSet(S)
  BY FS_Subset
<1>4. (\A x \in S : f[x] \in Nat /\ g[x] = f[x]) /\ g[hash] = new.amount
  BY <1>1
<1>5. S \subseteq DOMAIN r /\ T = IF RewardKey(new) = k THEN S \cup {hash} ELSE S
  <2>1. \A x \in DOMAIN r : x \in T <=> x \in S
    BY <1>1
  <2>2. hash \in T <=> RewardKey(new) = k
    BY <1>1
  <2>3. T \subseteq DOMAIN r \cup {hash}
    BY <1>1
  <2> HIDE DEF S, T
  <2>4. S \subseteq DOMAIN r
    BY DEF S
  <2> QED  BY <2>1, <2>2, <2>3, <2>4
<1> HIDE DEF f, g, S, T
<1>6. SumOver(f, S) \in Nat /\ SumOver(g, S) = SumOver(f, S)
  BY <1>3, <1>4, SumNat
<1>7. CASE RewardKey(new) = k
  <2>1. T = S \cup {hash} /\ T \ {hash} = S /\ hash \in T
    BY <1>5, <1>7
  <2>2. IsFiniteSet(T) /\ \A x \in T : g[x] \in Nat
    BY <1>3, <1>4, <2>1, FS_AddElement
  <2>3. SumOver(g, T) = g[hash] + SumOver(g, S)
    BY <2>1, <2>2, SumRemove
  <2> QED  BY <1>2, <1>4, <1>6, <1>7, <2>3 DEF u
<1>8. CASE RewardKey(new) # k
  BY <1>2, <1>5, <1>6, <1>8 DEF u
<1> QED  BY <1>7, <1>8

\* A sum of amounts is a number.
LEMMA RewardSumInt ==
  ASSUME NEW r, IsFiniteSet(DOMAIN r), \A x \in DOMAIN r : r[x].amount \in Nat, NEW k
  PROVE  RewardSum(r, k) \in Nat
<1> DEFINE f == [x \in DOMAIN r |-> r[x].amount]
           S == {x \in DOMAIN r : RewardKey(r[x]) = k}
<1>1. IsFiniteSet(S) /\ \A x \in S : f[x] \in Nat
  BY FS_Subset
<1>2. RewardSum(r, k) = SumOver(f, S)
  BY DEF RewardSum
<1> HIDE DEF f, S
<1> QED  BY <1>1, <1>2, SumNat

\* Nothing has no sum.
LEMMA RewardSumNone ==
  ASSUME NEW r, NEW k, \A x \in DOMAIN r : RewardKey(r[x]) # k
  PROVE  RewardSum(r, k) = 0
<1>1. {x \in DOMAIN r : RewardKey(r[x]) = k} = {}
  OBVIOUS
<1>2. \A f : SumOver(f, {}) = 0
  BY FS_EmptySet, SumUnfolds
<1> QED  BY <1>1, <1>2 DEF RewardSum

\* A reward is recorded: its row unless it is there, its amount in any case.
LEMMA RewardRecorded ==
  ASSUME NEW r, NEW c, SumsCover(r, c), NEW hash, NEW new, new.amount \in Nat
  PROVE  LET u == InsertOrIgnore(r, hash, new)
             k == RewardKey(new)
             v == Put(c, k, Row(c, k, 0) + new.amount)
         IN /\ SumsCover(u, v)
            /\ hash \notin DOMAIN r /\ SumsEqual(r, c) => SumsEqual(u, v)
<1> DEFINE u == InsertOrIgnore(r, hash, new)
           k == RewardKey(new)
           old == Row(c, k, 0)
           v == Put(c, k, old + new.amount)
<1>1. /\ DOMAIN v = DOMAIN c \cup {k} /\ v[k] = old + new.amount
      /\ \A x \in DOMAIN c : x # k => v[x] = c[x]
  BY DEF Put
<1>2. old = IF k \in DOMAIN c THEN c[k] ELSE 0
  BY DEF Row
<1>3. k \notin DOMAIN c => RewardSum(r, k) = 0
  BY RewardSumNone DEF SumsCover
<1>4. old \in Nat /\ old >= RewardSum(r, k)
  BY <1>2, <1>3 DEF SumsCover
<1> HIDE DEF v, k, old
<1>5. CASE hash \in DOMAIN r
  <2>1. u = r
    BY <1>5 DEF InsertOrIgnore
  <2> HIDE DEF u
  <2>2. ASSUME NEW x \in DOMAIN v PROVE v[x] \in Nat /\ v[x] >= RewardSum(r, x)
    <3>1. CASE x = k
      <4>1. RewardSum(r, k) \in Int
        BY RewardSumInt DEF SumsCover
      <4> QED  BY <1>1, <1>4, <3>1, <4>1
    <3>2. CASE x # k
      BY <1>1, <3>2 DEF SumsCover
    <3> QED  BY <3>1, <3>2
  <2>3. SumsCover(r, v)
    BY <1>1, <2>2 DEF SumsCover
  <2> QED  BY <1>5, <2>1, <2>3 DEF u, v, k, old
<1>6. CASE hash \notin DOMAIN r
  <2>1. u = Put(r, hash, new)
    BY <1>6 DEF InsertOrIgnore
  <2>2. /\ DOMAIN u = DOMAIN r \cup {hash} /\ u[hash] = new
        /\ \A x \in DOMAIN r : u[x] = r[x]
    BY <1>6, <2>1 DEF Put
  <2> HIDE DEF u
  <2>3. \A x : /\ RewardSum(r, x) \in Nat
               /\ RewardSum(u, x) = IF k = x THEN RewardSum(r, x) + new.amount ELSE RewardSum(r, x)
    BY <1>6, <2>1, RewardSumAdds DEF SumsCover, k
  <2>4. ASSUME NEW x \in DOMAIN v PROVE v[x] \in Nat /\ v[x] >= RewardSum(u, x)
    <3>1. CASE x = k
      BY <1>1, <1>4, <2>3, <3>1
    <3>2. CASE x # k
      BY <1>1, <2>3, <3>2 DEF SumsCover
    <3> QED  BY <3>1, <3>2
  <2>5. IsFiniteSet(DOMAIN u)
    BY <2>2, FS_AddElement DEF SumsCover
  <2>6. \A x \in DOMAIN u : u[x].amount \in Nat /\ RewardKey(u[x]) \in DOMAIN v
    BY <1>1, <2>2 DEF SumsCover, k
  <2>7. SumsCover(u, v)
    BY <2>4, <2>5, <2>6 DEF SumsCover
  <2>8. ASSUME SumsEqual(r, c) PROVE SumsEqual(u, v)
    <3>1. DOMAIN c = {RewardKey(r[x]) : x \in DOMAIN r} /\ \A x \in DOMAIN c : c[x] = RewardSum(r, x)
      BY <2>8 DEF SumsEqual
    <3>2. DOMAIN v = {RewardKey(u[x]) : x \in DOMAIN u}
      BY <1>1, <2>2, <3>1 DEF k
    <3>3. old = RewardSum(r, k)
      BY <1>2, <1>3, <3>1
    <3>4. ASSUME NEW x \in DOMAIN v PROVE v[x] = RewardSum(u, x)
      <4>1. CASE x = k
        BY <1>1, <2>3, <3>3, <4>1
      <4>2. CASE x # k
        BY <1>1, <2>3, <3>1, <4>2
      <4> QED  BY <4>1, <4>2
    <3> QED  BY <3>2, <3>4 DEF SumsEqual
  <2> QED  BY <2>7, <2>8 DEF u, v, k, old
<1> QED  BY <1>5, <1>6

\* What an account is counted with, 0 before it has a row.
CountOf(t, a) == IF a \in DOMAIN t THEN t[a].txCount ELSE 0

\* c is the count of a in table t, and one more if a is one of the addresses as.
Bumped(t, a, c, as) ==
  (a \in as => c = CountOf(t, a) + 1) /\ (a \notin as => c = CountOf(t, a))

\* Table u has the rows of t and more, each with its count in t, and one more if it
\* is of one of the addresses as.
CountsAdd(t, u, as) ==
  /\ CountRows(u) /\ DOMAIN t \subseteq DOMAIN u
  /\ \A a \in DOMAIN u : Bumped(t, a, u[a].txCount, as)

\* One row is written.
LEMMA PutCounted ==
  ASSUME NEW t, CountRows(t), NEW a, NEW s, "txCount" \in DOMAIN s, NEW as,
         Bumped(t, a, s.txCount, as), as \subseteq {a}
  PROVE  CountsAdd(t, Put(t, a, s), as) /\ a \in DOMAIN Put(t, a, s)
<1> DEFINE u == Put(t, a, s)
<1>1. DOMAIN u = DOMAIN t \cup {a} /\ u[a] = s /\ \A x \in DOMAIN t : x # a => u[x] = t[x]
  BY DEF Put
<1>2. CountOf(t, a) \in Nat
  BY DEF CountOf, CountRows
<1>3. s.txCount \in Nat
  <2>1. CASE a \in as
    BY <1>2, <2>1 DEF Bumped
  <2>2. CASE a \notin as
    BY <1>2, <2>2 DEF Bumped
  <2> QED  BY <2>1, <2>2
<1> HIDE DEF u
<1>4. CountRows(u)
  <2>1. ASSUME NEW x \in DOMAIN u PROVE "txCount" \in DOMAIN u[x] /\ u[x].txCount \in Nat
    <3>1. CASE x = a
      BY <1>1, <1>3, <3>1
    <3>2. CASE x # a
      BY <1>1, <3>2 DEF CountRows
    <3> QED  BY <3>1, <3>2
  <2> QED  BY <2>1 DEF CountRows
<1>5. ASSUME NEW x \in DOMAIN u PROVE Bumped(t, x, u[x].txCount, as)
  <2>1. CASE x = a
    BY <1>1, <2>1
  <2>2. CASE x # a
    <3>1. x \in DOMAIN t /\ u[x] = t[x] /\ x \notin as
      BY <1>1, <2>2
    <3> QED  BY <3>1 DEF Bumped, CountOf
  <2> QED  BY <2>1, <2>2
<1> QED  BY <1>1, <1>4, <1>5 DEF CountsAdd, u

\* A row that an upsert makes counts nothing.
LEMMA NewCount ==
  ASSUME NEW t, CountRows(t), NEW a
  PROVE  LET r == Row(t, a, Account) IN "txCount" \in DOMAIN r /\ r.txCount = CountOf(t, a)
<1>1. "txCount" \in DOMAIN Account /\ Account.txCount = 0
  BY DEF Account
<1> QED  BY <1>1 DEF Row, CountRows, CountOf

\* The statements on accounts, one by one.
LEMMA CountStatements ==
  ASSUME NEW t, CountRows(t), NEW a, NEW h, NEW token, NEW amount, NEW ts
  PROVE  /\ CountsAdd(t, AccountUpsert(t, a, h), {}) /\ a \in DOMAIN AccountUpsert(t, a, h)
         /\ CountsAdd(t, AddSend(t, a, token, amount, ts), {})
         /\ CountsAdd(t, AddReceive(t, a, token, amount, ts), {})
         /\ CountsAdd(t, SetGenesisBalance(t, a, token, amount), {})
         /\ CountsAdd(t, BumpTxCount(t, a, ts), {a}) /\ a \in DOMAIN BumpTxCount(t, a, ts)
         /\ CountsAdd(t, t, {})
<1> DEFINE r == Row(t, a, Account)
<1>0. "txCount" \in DOMAIN r /\ r.txCount = CountOf(t, a) /\ CountOf(t, a) \in Nat
  BY NewCount DEF CountOf, CountRows
<1>1. ASSUME NEW s, "txCount" \in DOMAIN s, s.txCount = r.txCount
      PROVE  CountsAdd(t, Put(t, a, s), {}) /\ a \in DOMAIN Put(t, a, s)
  <2>1. Bumped(t, a, s.txCount, {})
    BY <1>0, <1>1 DEF Bumped
  <2> QED  BY <1>1, <2>1, PutCounted
<1> HIDE DEF r
<1>2. CountsAdd(t, AccountUpsert(t, a, h), {}) /\ a \in DOMAIN AccountUpsert(t, a, h)
  <2> DEFINE s == [r EXCEPT !.blockCount = h]
  <2>1. "txCount" \in DOMAIN s /\ s.txCount = r.txCount
    BY <1>0
  <2> HIDE DEF s
  <2>2. CountsAdd(t, Put(t, a, s), {}) /\ a \in DOMAIN Put(t, a, s)
    BY <1>1, <2>1
  <2> QED  BY <2>2 DEF AccountUpsert, s, r
<1>3. CountsAdd(t, AddSend(t, a, token, amount, ts), {})
  <2> DEFINE s == [r EXCEPT !.sent = flowColumn(@, token, amount), !.active = Widen(@, ts)]
  <2>1. "txCount" \in DOMAIN s /\ s.txCount = r.txCount
    BY <1>0
  <2> HIDE DEF s
  <2>2. CountsAdd(t, Put(t, a, s), {})
    BY <1>1, <2>1
  <2> QED  BY <2>2 DEF AddSend, s, r
<1>4. CountsAdd(t, AddReceive(t, a, token, amount, ts), {})
  <2> DEFINE s == [r EXCEPT !.received = flowColumn(@, token, amount), !.active = Widen(@, ts)]
  <2>1. "txCount" \in DOMAIN s /\ s.txCount = r.txCount
    BY <1>0
  <2> HIDE DEF s
  <2>2. CountsAdd(t, Put(t, a, s), {})
    BY <1>1, <2>1
  <2> QED  BY <2>2 DEF AddReceive, s, r
<1>5. CountsAdd(t, t, {})
  BY DEF CountsAdd, CountRows, CountOf, Bumped
<1>6. CountsAdd(t, SetGenesisBalance(t, a, token, amount), {})
  <2> DEFINE s == [r EXCEPT !.genesis[token] = amount]
  <2>1. "txCount" \in DOMAIN s /\ s.txCount = r.txCount
    BY <1>0
  <2> HIDE DEF s
  <2>2. CountsAdd(t, Put(t, a, s), {})
    BY <1>1, <2>1
  <2> QED  BY <1>5, <2>2 DEF SetGenesisBalance, s, r
<1>7. CountsAdd(t, BumpTxCount(t, a, ts), {a}) /\ a \in DOMAIN BumpTxCount(t, a, ts)
  <2> DEFINE s == [r EXCEPT !.seen = Widen(@, ts), !.txCount = @ + 1]
  <2>1. "txCount" \in DOMAIN s /\ s.txCount = r.txCount + 1
    BY <1>0
  <2> HIDE DEF s
  <2>2. Bumped(t, a, s.txCount, {a})
    BY <1>0, <2>1 DEF Bumped
  <2>3. CountsAdd(t, Put(t, a, s), {a}) /\ a \in DOMAIN Put(t, a, s)
    BY <2>1, <2>2, PutCounted
  <2> QED  BY <2>3 DEF BumpTxCount, s, r
<1> QED  BY <1>2, <1>3, <1>4, <1>5, <1>6, <1>7

\* One after the other.
LEMMA CountsTrans ==
  ASSUME NEW t, CountRows(t), NEW u, NEW as, CountsAdd(t, u, as), NEW v, NEW bs,
         CountsAdd(u, v, bs), \A a \in as : a \in DOMAIN u /\ a \notin bs
  PROVE  CountsAdd(t, v, as \cup bs)
<1>1. ASSUME NEW a \in DOMAIN v PROVE Bumped(t, a, v[a].txCount, as \cup bs)
  <2>1. Bumped(u, a, v[a].txCount, bs)
    BY DEF CountsAdd
  <2>2. CASE a \in DOMAIN u
    <3>1. Bumped(t, a, u[a].txCount, as) /\ CountOf(u, a) = u[a].txCount
      BY <2>2 DEF CountsAdd, CountOf
    <3>2. CASE a \in as
      <4>1. a \notin bs /\ a \in as \cup bs
        BY <3>2
      <4> QED  BY <2>1, <3>1, <3>2, <4>1 DEF Bumped
    <3>3. CASE a \notin as
      BY <2>1, <3>1, <3>3 DEF Bumped
    <3> QED  BY <3>2, <3>3
  <2>3. CASE a \notin DOMAIN u
    <3>1. CountOf(u, a) = 0 /\ CountOf(t, a) = 0 /\ a \notin as
      BY <2>3 DEF CountsAdd, CountOf
    <3> QED  BY <2>1, <3>1 DEF Bumped
  <2> QED  BY <2>2, <2>3
<1> QED  BY <1>1 DEF CountsAdd

\* A block has a recipient: the node names the empty address where there is none.
Addressed(q) == q.block.to # ""

\* A block is counted once for each account it involves.
LEMMA AccountsCounted ==
  ASSUME NEW t, CountRows(t), NEW q, Addressed(q), NEW ts
  PROVE  /\ CountsAdd(t, AccountWrites(t, q, ts), {q.block.address, q.block.to})
         /\ q.block.address \in DOMAIN AccountWrites(t, q, ts)
<1> DEFINE b      == q.block
           amount == safeBigIntToInt64(b.amount)
           own    == AccountUpsert(t, b.address, b.height)
           flow   == CASE b.type \in Sends -> AddSend(own, b.address, b.token, amount, ts)
                       [] b.type \in Receives -> AddReceive(own, b.address, b.token, amount, ts)
                       [] OTHER -> own
           seeded == IF b.type = "genesisReceive" /\ ts = 1
                       THEN SetGenesisBalance(flow, b.address, b.token, amount) ELSE flow
           bumped == BumpTxCount(seeded, b.address, ts)
           final  == IF b.to \notin {"", b.address} THEN BumpTxCount(bumped, b.to, ts) ELSE bumped
<1>0. AccountWrites(t, q, ts) = final
  BY DEF AccountWrites
<1> HIDE DEF b, amount
<1>1. CountsAdd(t, own, {}) /\ CountRows(own)
  <2>1. CountsAdd(t, own, {})
    BY CountStatements
  <2> QED  BY <2>1 DEF CountsAdd
<1> HIDE DEF own
<1>2. CountsAdd(own, flow, {}) /\ CountRows(flow)
  <2>1. CountsAdd(own, flow, {})
    BY <1>1, CountStatements
  <2> QED  BY <2>1 DEF CountsAdd
<1> HIDE DEF flow
<1>3. CountsAdd(flow, seeded, {}) /\ CountRows(seeded)
  <2>1. CountsAdd(flow, seeded, {})
    BY <1>2, CountStatements
  <2> QED  BY <2>1 DEF CountsAdd
<1> HIDE DEF seeded
<1>4. CountsAdd(t, seeded, {})
  <2>1. CountsAdd(t, flow, {})
    <3>1. CountsAdd(t, flow, {} \cup {})
      BY <1>1, <1>2, CountsTrans
    <3> QED  BY <3>1
  <2>2. CountsAdd(t, seeded, {} \cup {})
    BY <1>3, <2>1, CountsTrans
  <2> QED  BY <2>2
<1>5. CountsAdd(seeded, bumped, {b.address}) /\ b.address \in DOMAIN bumped /\ CountRows(bumped)
  <2>1. CountsAdd(seeded, bumped, {b.address}) /\ b.address \in DOMAIN bumped
    BY <1>3, CountStatements
  <2> QED  BY <2>1 DEF CountsAdd
<1> HIDE DEF bumped
<1>6. CountsAdd(t, bumped, {b.address})
  <2>1. CountsAdd(t, bumped, {} \cup {b.address})
    BY <1>4, <1>5, CountsTrans
  <2>2. {} \cup {b.address} = {b.address}
    OBVIOUS
  <2> QED  BY <2>1, <2>2
<1>7. b.to # ""
  BY DEF b, Addressed
<1>8. CASE b.to = b.address
  <2>1. final = bumped /\ {b.address, b.to} = {b.address}
    BY <1>8
  <2> HIDE DEF final
  <2> QED  BY <1>0, <1>5, <1>6, <2>1 DEF b
<1>9. CASE b.to # b.address
  <2>1. final = BumpTxCount(bumped, b.to, ts)
    BY <1>7, <1>9
  <2> HIDE DEF final
  <2>2. CountsAdd(bumped, final, {b.to})
    BY <1>5, <2>1, CountStatements
  <2>3. CountsAdd(t, final, {b.address} \cup {b.to})
    BY <1>5, <1>6, <1>9, <2>2, CountsTrans
  <2>4. {b.address} \cup {b.to} = {b.address, b.to} /\ b.address \in DOMAIN final
    BY <1>5, <2>2 DEF CountsAdd
  <2> QED  BY <1>0, <2>3, <2>4 DEF b
<1> QED  BY <1>8, <1>9

\* The counts follow the rows: a block that is stored already counts again.
LEMMA CountsFollow ==
  ASSUME NEW d, Refers(d), CountsCover(d.accounts, d.blocks), NEW q, Addressed(q), NEW ts
  PROVE  LET t == AccountWrites(d.accounts, q, ts)
             u == BlockWrites(d.blocks, q, ts)
         IN /\ CountsCover(t, u)
            /\ q.hash \notin DOMAIN d.blocks /\ CountsEqual(d.accounts, d.blocks) =>
                 CountsEqual(t, u)
<1> DEFINE t0 == d.accounts
           u0 == d.blocks
           t  == AccountWrites(d.accounts, q, ts)
           u  == BlockWrites(d.blocks, q, ts)
           as == {q.block.address, q.block.to}
<1>1. CountsAdd(t0, t, as)
  BY AccountsCounted DEF CountsCover
<1>2. Stores(u, u0, q, ts)
  BY BlockWritesStore DEF Refers
<1>3. DOMAIN u = DOMAIN u0 \cup {q.hash} /\ IsFiniteSet(DOMAIN u0)
  BY <1>2 DEF Stores, CountsCover
<1>4. /\ \A x \in DOMAIN u0 : u[x].address = u0[x].address /\ u[x].to = u0[x].to
      /\ q.hash \notin DOMAIN u0 => u[q.hash].address = q.block.address /\ u[q.hash].to = q.block.to
  BY <1>2 DEF Stores, StoresRow
<1>5. \A x \in DOMAIN u0 : u0[x].address \in DOMAIN t0 /\ u0[x].to \in DOMAIN t0
  BY DEF Refers
<1> HIDE DEF t, u
<1>6. IsFiniteSet(DOMAIN u) /\ CountRows(t) /\ DOMAIN t0 \subseteq DOMAIN t
  <2>1. IsFiniteSet(DOMAIN u)
    BY <1>3, FS_AddElement
  <2>2. CountRows(t) /\ DOMAIN t0 \subseteq DOMAIN t
    BY <1>1 DEF CountsAdd
  <2> QED  BY <2>1, <2>2
<1>7. ASSUME NEW a \in DOMAIN t
      PROVE  /\ t[a].txCount >= Cardinality(Involving(u, a))
             /\ q.hash \notin DOMAIN u0 /\ CountsEqual(t0, u0) =>
                  t[a].txCount = Cardinality(Involving(u, a))
  <2> DEFINE I == Involving(u0, a)
             J == Involving(u, a)
             n == Cardinality(I)
             k == Cardinality(J)
             m == CountOf(t0, a)
             c == t[a].txCount
  <2>0. I \subseteq DOMAIN u0
    BY DEF Involving
  <2>1. IsFiniteSet(I) /\ n \in Nat
    BY <1>3, <2>0, FS_Subset, FS_CardinalityType
  <2>2. (a \in as => c = m + 1) /\ (a \notin as => c = m)
    BY <1>1 DEF CountsAdd, Bumped
  <2>3. n = CountOf(t0, a) \/ (a \in DOMAIN t0 /\ n <= t0[a].txCount)
    <3>1. CASE a \in DOMAIN t0
      <4>1. t0[a].txCount >= n /\ t0[a].txCount \in Nat
        BY <3>1 DEF CountsCover, CountRows
      <4> HIDE DEF n
      <4> QED  BY <2>1, <3>1, <4>1
    <3>2. CASE a \notin DOMAIN t0
      <4>1. I = {} /\ m = 0
        BY <1>5, <3>2 DEF Involving, CountOf
      <4>2. Cardinality({}) = 0
        BY FS_EmptySet
      <4> HIDE DEF I, m
      <4> QED  BY <4>1, <4>2 DEF m
    <3> QED  BY <3>1, <3>2
  <2>4. m \in Nat
    BY DEF CountOf, CountsCover, CountRows
  <2>5. m >= n
    <3>1. CASE n = CountOf(t0, a)
      <4> HIDE DEF n, m
      <4> QED  BY <2>1, <2>4, <3>1 DEF m
    <3>2. CASE a \in DOMAIN t0 /\ n <= t0[a].txCount
      <4>1. m = t0[a].txCount
        BY <3>2 DEF CountOf
      <4> HIDE DEF n, m
      <4> QED  BY <2>1, <2>4, <3>2, <4>1
    <3> QED  BY <2>3, <3>1, <3>2
  <2>6. ASSUME CountsEqual(t0, u0) PROVE m = n
    <3>1. CASE a \in DOMAIN t0
      BY <2>6, <3>1 DEF CountsEqual, CountOf
    <3>2. CASE a \notin DOMAIN t0
      BY <2>3, <3>2
    <3> QED  BY <3>1, <3>2
  <2>7. CASE q.hash \in DOMAIN u0
    <3>1. DOMAIN u = DOMAIN u0
      BY <1>3, <2>7
    <3>2. J = I
      BY <1>4, <3>1 DEF Involving
    <3>3. k = n
      BY <3>2
    <3>4. c = m + 1 \/ c = m
      BY <2>2
    <3> HIDE DEF I, J, m, c, n, k, as
    <3>5. c >= k
      BY <2>1, <2>4, <2>5, <3>3, <3>4
    <3> QED  BY <2>7, <3>5 DEF J, c, k
  <2>8. CASE q.hash \notin DOMAIN u0 /\ a \in as
    <3>1. J = I \cup {q.hash} /\ q.hash \notin I
      BY <1>3, <1>4, <2>0, <2>8 DEF Involving
    <3> HIDE DEF I, J, m, c
    <3>2. k = n + 1
      BY <2>1, <3>1, FS_AddElement
    <3>3. c = m + 1
      BY <2>2, <2>8
    <3> HIDE DEF n, k, as
    <3>4. c >= k /\ (m = n => c = k)
      BY <2>1, <2>4, <2>5, <3>2, <3>3
    <3> QED  BY <2>6, <3>4 DEF J, c, k
  <2>9. CASE q.hash \notin DOMAIN u0 /\ a \notin as
    <3>1. J = I
      BY <1>3, <1>4, <2>0, <2>9 DEF Involving
    <3>2. k = n
      BY <3>1
    <3> HIDE DEF I, J, m, c, n, k
    <3>3. c = m
      BY <2>2, <2>9
    <3> HIDE DEF as
    <3>4. c >= k /\ (m = n => c = k)
      BY <2>1, <2>4, <2>5, <3>2, <3>3
    <3> QED  BY <2>6, <3>4 DEF J, c, k
  <2> QED  BY <2>7, <2>8, <2>9
<1>8. CountsCover(t, u)
  BY <1>6, <1>7 DEF CountsCover
<1>9. q.hash \notin DOMAIN u0 /\ CountsEqual(t0, u0) => CountsEqual(t, u)
  BY <1>7 DEF CountsEqual
<1> QED  BY <1>8, <1>9 DEF t, u

-----------------------------------------------------------------------------
(* Books: what an entry of the batch does to them *)

\* An UPDATE of accounts that leaves their counts alone.
SameCounts(t, u) ==
  CountRows(u) /\ DOMAIN u = DOMAIN t /\ \A a \in DOMAIN t : u[a].txCount = t[a].txCount

\* The tables the books are kept in: nothing of them is written, or the delegate of
\* an account.
SameBooks(d, e) ==
  /\ e.blocks = d.blocks /\ e.rewards = d.rewards /\ e.cumulative = d.cumulative
  /\ SameCounts(d.accounts, e.accounts)

\* They are as they were.
LEMMA SameBooksKeep ==
  ASSUME NEW d, NEW e, SameBooks(d, e), BooksCover(d)
  PROVE  BooksCover(e) /\ (BooksEqual(d) => BooksEqual(e))
<1>1. /\ CountRows(e.accounts) /\ DOMAIN e.accounts = DOMAIN d.accounts
      /\ \A a \in DOMAIN d.accounts : e.accounts[a].txCount = d.accounts[a].txCount
      /\ e.blocks = d.blocks /\ e.rewards = d.rewards /\ e.cumulative = d.cumulative
  BY DEF SameBooks, SameCounts
<1>2. CountsCover(e.accounts, e.blocks)
  BY <1>1 DEF BooksCover, CountsCover
<1>3. CountsEqual(d.accounts, d.blocks) => CountsEqual(e.accounts, e.blocks)
  BY <1>1 DEF CountsEqual
<1>4. SumsCover(e.rewards, e.cumulative) /\ Rewarded(e.rewards, e.accounts)
  BY <1>1 DEF BooksCover, Rewarded
<1> QED  BY <1>1, <1>2, <1>3, <1>4 DEF BooksCover, BooksEqual

\* Four tables are not written at all.
LEMMA OnlyBooks ==
  ASSUME NEW d, NEW e, NEW F, Only(d, e, F), CountRows(d.accounts),
         F \cap {"blocks", "rewards", "cumulative", "accounts"} = {}
  PROVE  SameBooks(d, e)
<1>1. e.blocks = d.blocks /\ e.rewards = d.rewards /\ e.cumulative = d.cumulative
      /\ e.accounts = d.accounts
  <2>1. "blocks" \notin F /\ "rewards" \notin F /\ "cumulative" \notin F /\ "accounts" \notin F
    OBVIOUS
  <2> QED  BY <2>1, OnlySame
<1> QED  BY <1>1 DEF SameBooks, SameCounts

\* A delegation changes no count.
LEMMA DelegateCounts ==
  ASSUME NEW t, CountRows(t), NEW a, NEW p, NEW ts
  PROVE  SameCounts(t, UpdateDelegate(t, a, p, ts))
<1> DEFINE u == UpdateDelegate(t, a, p, ts)
<1>1. DOMAIN u = DOMAIN t
  BY DEF UpdateDelegate
<1>2. ASSUME NEW x \in DOMAIN t
      PROVE  "txCount" \in DOMAIN u[x] /\ u[x].txCount = t[x].txCount /\ t[x].txCount \in Nat
  <2>1. "txCount" \in DOMAIN t[x] /\ t[x].txCount \in Nat
    BY DEF CountRows
  <2>2. u[x] = t[x] \/ u[x] = [t[x] EXCEPT !.delegate = p, !.since = ts]
    BY DEF UpdateDelegate
  <2> HIDE DEF u
  <2> QED  BY <2>1, <2>2
<1> HIDE DEF u
<1> QED  BY <1>1, <1>2 DEF SameCounts, CountRows, u

\* The pillar contract's calls.
LEMMA PillarBooks ==
  ASSUME NEW d, Fine(d), CountRows(d.accounts), NEW q, NEW ts
  PROVE  SameBooks(d, indexPillarContract(d, q, ts))
<1> DEFINE e == indexPillarContract(d, q, ts)
<1>1. e.blocks = d.blocks /\ e.rewards = d.rewards /\ e.cumulative = d.cumulative
  <2>1. Only(d, e, PillarTables)
    BY PillarOnly
  <2> HIDE DEF e
  <2> QED  BY <2>1, OnlySame DEF PillarTables
<1>2. /\ SameCounts(d.accounts, d.accounts)
      /\ \A a, p, s : SameCounts(d.accounts, UpdateDelegate(d.accounts, a, p, s))
  BY DelegateCounts DEF SameCounts
<1>3. SameCounts(d.accounts, e.accounts)
  <2>1. \A v, w : /\ [d EXCEPT !.updates = v, !.pillars = w].accounts = d.accounts
                  /\ [d EXCEPT !.accounts = v, !.delegations = w].accounts = v
                  /\ [d EXCEPT !.pillars = v].accounts = d.accounts
    BY DEF Fine, Tables, EmptyDB
  <2> DEFINE c == q.call
             Pointed(p, s) == e.accounts = UpdateDelegate(d.accounts, q.paired.address, p, s)
  <2>2. CASE c.method \in {"Register", "RegisterLegacy"} /\ c.name # ""
    <3>1. \E v, w : e = [d EXCEPT !.updates = v, !.pillars = w]
      BY <2>2 DEF indexPillarContract
    <3>2. e.accounts = d.accounts
      <4> HIDE DEF e
      <4> QED  BY <2>1, <3>1
    <3> QED  BY <1>2, <3>2
  <2>3. CASE c.method = "Delegate" /\ q.pillarOwner # ""
    <3>1. Pointed(q.pillarOwner, ts)
      BY <2>1, <2>3 DEF indexPillarContract
    <3> QED  BY <1>2, <3>1
  <2>4. CASE c.method = "Undelegate"
    <3>1. Pointed("", Null)
      BY <2>1, <2>4 DEF indexPillarContract
    <3> QED  BY <1>2, <3>1
  <2>5. CASE c.method = "Revoke" /\ c.name # ""
    BY <1>2, <2>1, <2>5 DEF indexPillarContract
  <2>6. CASE /\ ~(c.method \in {"Register", "RegisterLegacy"} /\ c.name # "")
             /\ ~(c.method = "Delegate" /\ q.pillarOwner # "")
             /\ c.method # "Undelegate" /\ ~(c.method = "Revoke" /\ c.name # "")
    <3>1. e = d
      BY <2>6 DEF indexPillarContract
    <3> QED  BY <1>2, <3>1
  <2> HIDE DEF e, c
  <2> QED  BY <2>2, <2>3, <2>4, <2>5, <2>6
<1> HIDE DEF e
<1> QED  BY <1>1, <1>3 DEF SameBooks, e

\* The call a block carries out.
LEMMA CallBooks ==
  ASSUME NEW d, Fine(d), CountRows(d.accounts), NEW q, NEW ts
  PROVE  SameBooks(d, CallWritten(d, q, ts))
<1>1. SameBooks(d, indexStakeContract(d, q, ts)) /\ SameBooks(d, indexSentinelContract(d, q))
  <2>1. Only(d, indexStakeContract(d, q, ts), {"stakes"})
        /\ Only(d, indexSentinelContract(d, q), {"sentinels"})
    BY ContractOnly
  <2> QED  BY <2>1, OnlyBooks
<1>2. SameBooks(d, indexPlasmaContract(d, q, ts)) /\ SameBooks(d, indexAcceleratorContract(d, q, ts))
  <2>1. Only(d, indexPlasmaContract(d, q, ts), {"fusions"})
        /\ Only(d, indexAcceleratorContract(d, q, ts), {"votes"})
    BY ContractOnly
  <2> QED  BY <2>1, OnlyBooks
<1>3. SameBooks(d, indexHtlcContract(d, q, ts)) /\ SameBooks(d, indexSwapContract(d, q, ts))
  <2>1. Only(d, indexHtlcContract(d, q, ts), {"htlcs"})
        /\ Only(d, indexSwapContract(d, q, ts), {"retrievals"})
    BY ContractOnly
  <2> QED  BY <2>1, OnlyBooks
<1>4. SameBooks(d, indexTokenContract(d, q, ts))
  <2>1. Only(d, indexTokenContract(d, q, ts), TokenTables)
    BY TokenOnly
  <2>2. TokenTables \cap {"blocks", "rewards", "cumulative", "accounts"} = {}
    BY DEF TokenTables
  <2> QED  BY <2>1, <2>2, OnlyBooks
<1>5. SameBooks(d, indexPillarContract(d, q, ts))
  BY PillarBooks
<1>6. SameBooks(d, d)
  BY DEF SameBooks, SameCounts
<1>7. SameBooks(d, indexEmbeddedContracts(d, q, ts))
  BY <1>1, <1>2, <1>3, <1>4, <1>5, <1>6 DEF indexEmbeddedContracts
<1> QED  BY <1>6, <1>7 DEF CallWritten

\* An amount of the chain, capped, is a number.
LEMMA PaidAmount ==
  ASSUME world \in Worlds, height \in DOMAIN world.chain, NEW q, PairedRight(q), q.paired # NoBlock
  PROVE  safeBigIntToInt64(q.paired.amount) \in Nat
<1> DEFINE b == world.blocks[q.hash]
<1>1. q.hash \in DOMAIN world.blocks
  BY ChainFacts DEF PairedRight
<1>2. \E y \in DOMAIN world.blocks : q.paired = world.blocks[y]
  <2>1. CASE b.from # ""
    BY <1>1, <2>1, BlockFacts DEF PairedRight
  <2>2. CASE b.from = ""
    BY <2>2 DEF PairedRight
  <2> QED  BY <2>1, <2>2
<1>3. \A y \in DOMAIN world.blocks : world.blocks[y].amount \in Nat
  BY WorldsAssumption
<1>4. q.paired.amount \in Nat
  BY <1>2, <1>3
<1> QED  BY <1>4, MaxInt64Assumption DEF safeBigIntToInt64

\* The reward of a block: to its own account.
LEMMA RewardBooks ==
  ASSUME world \in Worlds, height \in DOMAIN world.chain, NEW d, Fine(d), BooksCover(d),
         NEW q, PairedRight(q), q.block.address \in DOMAIN d.accounts, NEW ts
  PROVE  LET e == RewardWritten(d, q, ts)
         IN BooksCover(e) /\ (q.hash \notin DOMAIN d.rewards /\ BooksEqual(d) => BooksEqual(e))
<1> DEFINE Balanced(e) ==
             BooksCover(e) /\ (q.hash \notin DOMAIN d.rewards /\ BooksEqual(d) => BooksEqual(e))
<1>1. ASSUME q.paired # NoBlock, NEW type PROVE Balanced(RecordReward(d, q, type, ts))
  <2> DEFINE amount == safeBigIntToInt64(q.paired.amount)
             new == [address |-> q.block.address, type |-> type, token |-> q.paired.token,
                     amount |-> amount, height |-> ts]
             k == RewardKey(new)
             u == InsertOrIgnore(d.rewards, q.hash, new)
             v == Put(d.cumulative, k, Row(d.cumulative, k, 0) + new.amount)
             e == [d EXCEPT !.rewards = u, !.cumulative = v]
  <2>1. amount \in Nat
    BY <1>1, PaidAmount
  <2>2. /\ new.amount = amount /\ new.address = q.block.address
        /\ k = <<q.block.address, type, q.paired.token>>
    BY DEF RewardKey
  <2>3. RecordReward(d, q, type, ts) = e
    BY <2>2 DEF RecordReward, InsertRewardTransaction, UpdateCumulativeRewards
  <2> HIDE DEF amount, new
  <2>4. /\ SumsCover(u, v)
        /\ q.hash \notin DOMAIN d.rewards /\ SumsEqual(d.rewards, d.cumulative) => SumsEqual(u, v)
    BY <2>1, <2>2, RewardRecorded DEF BooksCover
  <2>5. \A x \in DOMAIN u : u[x] = new \/ (x \in DOMAIN d.rewards /\ u[x] = d.rewards[x])
    BY DEF InsertOrIgnore, Put
  <2> HIDE DEF u, v, k
  <2>6. /\ e.rewards = u /\ e.cumulative = v /\ e.accounts = d.accounts /\ e.blocks = d.blocks
    BY DEF Fine, Tables, EmptyDB
  <2> HIDE DEF e
  <2>7. Rewarded(e.rewards, e.accounts)
    BY <2>2, <2>5, <2>6 DEF Rewarded, BooksCover
  <2> QED  BY <2>3, <2>4, <2>6, <2>7 DEF BooksCover, BooksEqual
<1>2. Balanced(d)
  OBVIOUS
<1> HIDE DEF Balanced
<1>3. Balanced(RewardWritten(d, q, ts))
  <2>1. CASE q.paired = NoBlock
    <3>1. RewardWritten(d, q, ts) = d
      BY <2>1 DEF RewardWritten
    <3> QED  BY <1>2, <3>1
  <2>2. CASE q.paired # NoBlock
    <3>1. RewardWritten(d, q, ts) = d \/ \E type : RewardWritten(d, q, ts) = RecordReward(d, q, type, ts)
      BY DEF RewardWritten, indexLiquidityReward, indexReceivedReward
    <3>2. \A type : Balanced(RecordReward(d, q, type, ts))
      BY <1>1, <2>2
    <3> QED  BY <1>2, <3>1, <3>2
  <2> QED  BY <2>1, <2>2
<1> QED  BY <1>3 DEF Balanced

\* All statements of a block keep the books; they balance exactly if the block was not
\* there.
LEMMA BlockBooks ==
  ASSUME world \in Worlds, height \in DOMAIN world.chain, height # Null,
         NEW d, Fine(d), Refers(d), BooksCover(d),
         NEW q, q.kind = "block", Addressed(q), PairedRight(q)
  PROVE  LET e == Execute(d, q, height)
         IN /\ BooksCover(e) /\ DOMAIN e.blocks = DOMAIN d.blocks \cup {q.hash}
            /\ q.hash \notin DOMAIN d.blocks /\ BooksEqual(d) => BooksEqual(e)
<1> DEFINE d1 == RowsWritten(d, q, height)
           d2 == CallWritten(d1, q, height)
           d3 == RewardWritten(d2, q, height)
           d4 == TokenWritten(d3, q)
           t == AccountWrites(d.accounts, q, height)
           u == BlockWrites(d.blocks, q, height)
           fresh == q.hash \notin DOMAIN d.blocks
<1>0. Execute(d, q, height) = d4
  BY DEF Execute, processAccountBlocks
<1>1. /\ Fine(d1) /\ d1.accounts = t /\ d1.blocks = u
      /\ d1.rewards = d.rewards /\ d1.cumulative = d.cumulative
  <2>1. Fine(d1)
    BY RowsWrittenSteps DEF Steps, Addressed
  <2>2. \A v, w : /\ [d EXCEPT !.accounts = v, !.blocks = w].accounts = v
                  /\ [d EXCEPT !.accounts = v, !.blocks = w].blocks = w
                  /\ [d EXCEPT !.accounts = v, !.blocks = w].rewards = d.rewards
                  /\ [d EXCEPT !.accounts = v, !.blocks = w].cumulative = d.cumulative
    BY DEF Fine, Tables, EmptyDB
  <2> QED  BY <2>1, <2>2 DEF RowsWritten
<1> HIDE DEF d1
<1>2. CountsAdd(d.accounts, t, {q.block.address, q.block.to}) /\ q.block.address \in DOMAIN t
  BY AccountsCounted DEF BooksCover, CountsCover
<1>3. Stores(u, d.blocks, q, height)
  BY BlockWritesStore DEF Refers
<1>4. /\ CountsCover(t, u)
      /\ fresh /\ CountsEqual(d.accounts, d.blocks) => CountsEqual(t, u)
  BY CountsFollow DEF BooksCover
<1> HIDE DEF t, u
<1>5. DOMAIN d.accounts \subseteq DOMAIN t /\ DOMAIN u = DOMAIN d.blocks \cup {q.hash}
  BY <1>2, <1>3 DEF CountsAdd, Stores
<1>6. BooksCover(d1) /\ (fresh /\ BooksEqual(d) => BooksEqual(d1))
  <2>1. Rewarded(d1.rewards, d1.accounts)
    BY <1>1, <1>5 DEF BooksCover, Rewarded
  <2>2. BooksCover(d1)
    BY <1>1, <1>4, <2>1 DEF BooksCover
  <2> HIDE DEF fresh
  <2>3. fresh /\ BooksEqual(d) => BooksEqual(d1)
    BY <1>1, <1>4 DEF BooksEqual
  <2> QED  BY <2>2, <2>3
<1>7. SameBooks(d1, d2) /\ Fine(d2)
  <2>1. CountRows(d1.accounts)
    BY <1>6 DEF BooksCover, CountsCover
  <2> QED  BY <1>1, <2>1, CallBooks, CallWrites, WritesFine
<1> HIDE DEF d2
<1>8. BooksCover(d2) /\ (fresh /\ BooksEqual(d) => BooksEqual(d2))
  BY <1>6, <1>7, SameBooksKeep
<1>9. q.block.address \in DOMAIN d2.accounts /\ (fresh => q.hash \notin DOMAIN d2.rewards)
  <2>1. DOMAIN d2.accounts = DOMAIN t /\ d2.rewards = d.rewards
    BY <1>1, <1>7 DEF SameBooks, SameCounts
  <2>2. DOMAIN d.rewards \subseteq DOMAIN d.blocks
    BY DEF Refers, Events
  <2> QED  BY <1>2, <2>1, <2>2
<1>10. BooksCover(d3) /\ (fresh /\ BooksEqual(d) => BooksEqual(d3))
  BY <1>7, <1>8, <1>9, RewardBooks
<1>11. Fine(d3) /\ d3.blocks = d2.blocks
  <2>1. Fine(d3)
    BY <1>7, RewardWrittenWrites, WritesFine
  <2>2. Only(d2, d3, {"rewards", "cumulative"})
    BY <1>7, BesideCall
  <2> HIDE DEF d3
  <2> QED  BY <2>1, <2>2, OnlySame
<1> HIDE DEF d3
<1>12. SameBooks(d3, d4)
  <2>1. Only(d3, d4, {"tokens"})
    BY <1>11, BesideCall
  <2>2. CountRows(d3.accounts)
    BY <1>10 DEF BooksCover, CountsCover
  <2> HIDE DEF d4
  <2> QED  BY <2>1, <2>2, OnlyBooks
<1> HIDE DEF d4
<1>13. BooksCover(d4) /\ (fresh /\ BooksEqual(d) => BooksEqual(d4))
  BY <1>10, <1>12, SameBooksKeep
<1>14. DOMAIN d4.blocks = DOMAIN d.blocks \cup {q.hash}
  BY <1>1, <1>5, <1>7, <1>11, <1>12 DEF SameBooks
<1> QED  BY <1>0, <1>13, <1>14

-----------------------------------------------------------------------------
(* Books: the invariant and its steps *)

\* The blocks the open transaction has executed, and the momentum's first time.
Executed == {batch[i].hash : i \in {i \in 1..pos : batch[i].kind = "block"}}
FirstTime == \A e \in DOMAIN journal : journal[e].height # height

\* The invariant behind BooksBalance: a stored block is of a momentum that was
\* committed, so one processed for the first time brings only new rows.
BooksInv ==
  /\ \A x \in DOMAIN db.blocks : \E e \in DOMAIN journal : x \in Listed(journal[e].height)
  /\ BooksCover(db) /\ (Once => BooksEqual(db))
  /\ pc = "exec" =>
       /\ DOMAIN stage.blocks \subseteq DOMAIN db.blocks \cup Executed
       /\ BooksCover(stage) /\ (Once /\ FirstTime => BooksEqual(stage))

\* A step beside the transaction.
LEMMA BooksFrame ==
  ASSUME BooksInv, UNCHANGED <<world, processing, journal>>, SameBooks(db, db')
  PROVE  BooksInv'
<1>1. /\ pc' = pc /\ height' = height /\ pos' = pos /\ batch' = batch /\ stage' = stage
      /\ journal' = journal /\ db'.blocks = db.blocks
  BY DEF processing, SameBooks
<1>2. \A h : Listed(h)' = Listed(h)
  BY OrderFixed
<1>3. (Once' <=> Once) /\ (FirstTime' <=> FirstTime) /\ Executed' = Executed
  BY <1>1 DEF Once, FirstTime, Executed
<1>4. BooksCover(db)' /\ (BooksEqual(db) => BooksEqual(db)')
  <2>1. BooksCover(db') /\ (BooksEqual(db) => BooksEqual(db'))
    BY SameBooksKeep DEF BooksInv
  <2>2. (BooksCover(db)' <=> BooksCover(db')) /\ (BooksEqual(db)' <=> BooksEqual(db'))
    BY DEF BooksCover, BooksEqual
  <2> QED  BY <2>1, <2>2
<1>5. (\A x \in DOMAIN db.blocks : \E e \in DOMAIN journal : x \in Listed(journal[e].height))'
  BY <1>1, <1>2 DEF BooksInv
<1>6. (pc = "exec" =>
         /\ DOMAIN stage.blocks \subseteq DOMAIN db.blocks \cup Executed
         /\ BooksCover(stage) /\ (Once /\ FirstTime => BooksEqual(stage)))'
  BY <1>1, <1>3 DEF BooksInv
<1> QED  BY <1>3, <1>4, <1>5, <1>6 DEF BooksInv

\* Before the transaction begins, or after it was dropped.
LEMMA BooksQueue ==
  ASSUME BooksInv, UNCHANGED <<world, db, journal>>, pc' # "exec"
  PROVE  BooksInv'
<1>1. \A h : Listed(h)' = Listed(h)
  BY OrderFixed
<1>2. Once' <=> Once
  BY DEF Once
<1>3. (\A x \in DOMAIN db.blocks : \E e \in DOMAIN journal : x \in Listed(journal[e].height))'
  BY <1>1 DEF BooksInv
<1> QED  BY <1>2, <1>3 DEF BooksInv

\* It begins with the committed tables.
LEMMA BooksBegin ==
  ASSUME BooksInv, QueueMomentum
  PROVE  BooksInv'
<1>1. UNCHANGED <<world, db, journal>> /\ stage' = db
  BY DEF QueueMomentum
<1>2. \A h : Listed(h)' = Listed(h)
  BY <1>1, OrderFixed
<1>3. Once' <=> Once
  BY <1>1 DEF Once
<1>4. (\A x \in DOMAIN db.blocks : \E e \in DOMAIN journal : x \in Listed(journal[e].height))'
  BY <1>1, <1>2 DEF BooksInv
<1>5. BooksCover(stage)' /\ (Once => BooksEqual(stage)')
  BY <1>1 DEF BooksInv
<1> QED  BY <1>1, <1>3, <1>4, <1>5 DEF BooksInv

\* The next block is not stored yet if its momentum was not committed before: the chain
\* lists it once, and the batch has it once.
LEMMA NewBlock ==
  ASSUME ExplorerInv, BalancesInv, OrderInv, BooksInv, pc = "exec", pos < Len(batch),
         batch[pos + 1].kind = "block", FirstTime
  PROVE  batch[pos + 1].hash \notin DOMAIN stage.blocks
<1> DEFINE q == batch[pos + 1]
<1>1. /\ world \in Worlds /\ tip \in 1..Len(world.chain) /\ height \in 1..tip
      /\ IsSequence(batch) /\ pos \in 0..Len(batch)
      /\ \A i \in DOMAIN batch : batch[i].kind = "block" => PairedRight(batch[i])
  BY DEF ExplorerInv, ProcessInv, PairsInv
<1>2. Len(batch) \in Nat /\ DOMAIN batch = 1..Len(batch) /\ pos + 1 \in DOMAIN batch
  BY <1>1, SequenceDomain
<1>3. 1..tip \subseteq DOMAIN world.chain /\ height \in DOMAIN world.chain
  BY <1>1, ChainFacts
<1>4. q.hash \in Listed(height)
  BY <1>1, <1>2 DEF PairedRight
<1>5. PICK n \in DOMAIN Content(height) : q.hash = Content(height)[n]
  BY <1>4 DEF Listed
<1> HIDE DEF q
<1>6. ASSUME q.hash \in DOMAIN db.blocks PROVE FALSE
  <2>1. PICK e \in DOMAIN journal : q.hash \in Listed(journal[e].height)
    BY <1>6 DEF BooksInv
  <2> DEFINE g == journal[e].height
  <2>2. g \in DOMAIN world.chain /\ g # height
    BY <1>3 DEF BalancesInv, FirstTime
  <2>3. PICK m \in DOMAIN Content(g) : q.hash = Content(g)[m]
    BY <2>1 DEF Listed
  <2> HIDE DEF g
  <2> QED  BY <1>1, <1>3, <1>5, <2>2, <2>3, ListedOnce
<1>7. ASSUME q.hash \in Executed PROVE FALSE
  <2>1. PICK i \in 1..pos : batch[i].kind = "block" /\ batch[i].hash = q.hash
    BY <1>7 DEF Executed
  <2>2. i \in DOMAIN batch /\ i < pos + 1
    BY <1>1, <1>2
  <2>3. ListedBefore(batch[i].hash, q.hash)
    BY <1>2, <2>1, <2>2 DEF OrderInv, QueuedInOrder, q
  <2>4. PICK m, k \in DOMAIN Content(height) :
          m < k /\ batch[i].hash = Content(height)[m] /\ q.hash = Content(height)[k]
    BY <2>3 DEF ListedBefore
  <2>5. m \in Nat /\ k \in Nat
    BY <1>1, ChainFacts
  <2>6. Content(height)[m] = Content(height)[k]
    BY <2>1, <2>4
  <2>7. m = k
    BY <1>1, <1>3, <2>6, ListedOnce
  <2> QED  BY <2>4, <2>5, <2>7
<1>8. DOMAIN stage.blocks \subseteq DOMAIN db.blocks \cup Executed
  BY DEF BooksInv
<1> QED  BY <1>6, <1>7, <1>8 DEF q

\* One entry of the batch is executed.
LEMMA ExecItemBooks ==
  ASSUME ExplorerInv, BalancesInv, OrderInv, BooksInv, ExecItem
  PROVE  BooksInv'
<1> DEFINE q == batch[pos + 1]
           e == Execute(stage, q, height)
<1>1. /\ pc = "exec" /\ pos < Len(batch) /\ stage' = e /\ pos' = pos + 1
      /\ UNCHANGED <<world, db, pc, height, batch, journal>>
  BY DEF ExecItem
<1>2. /\ world \in Worlds /\ tip \in 1..Len(world.chain) /\ height \in 1..tip
      /\ IsSequence(batch) /\ pos \in 0..Len(batch)
      /\ \A k \in DOMAIN batch : Item(batch[k])
      /\ \A i \in DOMAIN batch : batch[i].kind = "block" => PairedRight(batch[i])
  BY <1>1 DEF ExplorerInv, ProcessInv, PairsInv
<1>3. Len(batch) \in Nat /\ DOMAIN batch = 1..Len(batch) /\ pos + 1 \in DOMAIN batch
  BY <1>1, <1>2, SequenceDomain
<1>4. /\ Item(q) /\ height # Null /\ height \in DOMAIN world.chain
      /\ Fine(stage) /\ Refers(stage)
  BY <1>1, <1>2, <1>3, ChainFacts DEF Null, ExplorerInv, TablesInv
<1>5. (Once' <=> Once) /\ (FirstTime' <=> FirstTime)
  BY <1>1 DEF Once, FirstTime
<1>6. Executed \subseteq Executed' /\ (q.kind = "block" => q.hash \in Executed')
  <2>1. 1..pos \subseteq 1..(pos + 1) /\ pos + 1 \in 1..(pos + 1)
    BY <1>2, <1>3
  <2> QED  BY <1>1, <2>1 DEF Executed
<1>7. /\ BooksCover(stage) /\ (Once /\ FirstTime => BooksEqual(stage))
      /\ DOMAIN stage.blocks \subseteq DOMAIN db.blocks \cup Executed
  BY <1>1 DEF BooksInv
<1>8. /\ DOMAIN e.blocks \subseteq DOMAIN db.blocks \cup Executed'
      /\ BooksCover(e) /\ (Once /\ FirstTime => BooksEqual(e))
  <2>1. CASE q.kind = "block"
    <3>1. PairedRight(q) /\ Addressed(q)
      BY <1>2, <1>3, <1>4, <2>1 DEF Item, Addressed
    <3>2. FirstTime => q.hash \notin DOMAIN stage.blocks
      BY <1>1, <2>1, NewBlock
    <3> HIDE DEF q
    <3>3. /\ BooksCover(e) /\ DOMAIN e.blocks = DOMAIN stage.blocks \cup {q.hash}
          /\ q.hash \notin DOMAIN stage.blocks /\ BooksEqual(stage) => BooksEqual(e)
      BY <1>2, <1>4, <1>7, <2>1, <3>1, BlockBooks
    <3> HIDE DEF e
    <3>4. DOMAIN e.blocks \subseteq DOMAIN db.blocks \cup Executed'
      BY <1>6, <1>7, <2>1, <3>3
    <3>5. Once /\ FirstTime => BooksEqual(e)
      BY <1>7, <3>2, <3>3
    <3> QED  BY <3>3, <3>4, <3>5
  <2>2. CASE q.kind # "block"
    <3>1. Only(stage, e, {"balances", "pillars", "momentums"})
      <4>1. q.kind \in {"balance", "momentum"}
        BY <1>4, <2>2 DEF Item
      <4> HIDE DEF q
      <4> QED  BY <1>4, <4>1, OtherCalled
    <3> HIDE DEF e, q
    <3>2. SameBooks(stage, e)
      <4>1. CountRows(stage.accounts)
        BY <1>7 DEF BooksCover, CountsCover
      <4> QED  BY <3>1, <4>1, OnlyBooks
    <3>3. BooksCover(e) /\ (BooksEqual(stage) => BooksEqual(e)) /\ e.blocks = stage.blocks
      BY <1>7, <3>2, SameBooksKeep DEF SameBooks
    <3> QED  BY <1>6, <1>7, <3>3
  <2> QED  BY <2>1, <2>2
<1> HIDE DEF e, q
<1>9. \A h : Listed(h)' = Listed(h)
  BY <1>1, OrderFixed
<1>10. (\A x \in DOMAIN db.blocks : \E k \in DOMAIN journal : x \in Listed(journal[k].height))'
  BY <1>1, <1>9 DEF BooksInv
<1>11. (BooksCover(db) /\ (Once => BooksEqual(db)))'
  BY <1>1, <1>5 DEF BooksInv
<1>12. (/\ DOMAIN stage.blocks \subseteq DOMAIN db.blocks \cup Executed
        /\ BooksCover(stage) /\ (Once /\ FirstTime => BooksEqual(stage)))'
  BY <1>1, <1>5, <1>8
<1> QED  BY <1>10, <1>11, <1>12 DEF BooksInv

\* The momentum is committed.
LEMMA CommitBooks ==
  ASSUME ExplorerInv, BalancesInv, BooksInv, Commit
  PROVE  BooksInv'
<1> DEFINE new == Entry
           n == Len(journal)
<1>1. /\ pc = "exec" /\ db' = stage /\ pc' = "idle" /\ world' = world
      /\ journal' = Append(journal, new) /\ pos = Len(batch)
  BY DEF Commit, Idle
<1>2. new.height = height
  BY DEF Entry
<1> HIDE DEF new
<1>3. /\ DOMAIN journal' = DOMAIN journal \cup {n + 1} /\ journal'[n + 1] = new
      /\ \A i \in DOMAIN journal : journal'[i] = journal[i]
      /\ n \in Nat /\ DOMAIN journal = 1..n
  BY <1>1, Appended, SequenceDomain DEF BalancesInv
<1> HIDE DEF n
<1>4. \A h : Listed(h)' = Listed(h)
  BY <1>1, OrderFixed
<1>5. Executed \subseteq Listed(height)
  <2>1. /\ IsSequence(batch)
        /\ \A i \in DOMAIN batch : batch[i].kind = "block" => PairedRight(batch[i])
    BY <1>1 DEF ExplorerInv, ProcessInv, PairsInv
  <2>2. DOMAIN batch = 1..pos
    BY <1>1, <2>1, SequenceDomain
  <2> QED  BY <2>1, <2>2 DEF Executed, PairedRight
<1>6. ASSUME NEW x \in DOMAIN db'.blocks
      PROVE  \E e \in DOMAIN journal' : x \in Listed(journal'[e].height)
  <2>1. CASE x \in DOMAIN db.blocks
    <3>1. PICK e \in DOMAIN journal : x \in Listed(journal[e].height)
      BY <2>1 DEF BooksInv
    <3> QED  BY <1>3, <3>1
  <2>2. CASE x \in Executed
    BY <1>2, <1>3, <1>5, <2>2
  <2>3. x \in DOMAIN db.blocks \cup Executed
    BY <1>1 DEF BooksInv
  <2> QED  BY <2>1, <2>2, <2>3
<1>7. (\A x \in DOMAIN db.blocks : \E e \in DOMAIN journal : x \in Listed(journal[e].height))'
  BY <1>4, <1>6
<1>8. Once' => Once /\ FirstTime
  <2> SUFFICES ASSUME Once' PROVE Once /\ FirstTime
    OBVIOUS
  <2>1. \A i, j \in DOMAIN journal' : i # j => journal'[i].height # journal'[j].height
    BY DEF Once
  <2>2. \A i \in DOMAIN journal : i # n + 1 /\ i \in DOMAIN journal' /\ n + 1 \in DOMAIN journal'
    BY <1>3
  <2>3. Once
    BY <1>3, <2>1, <2>2 DEF Once
  <2>4. FirstTime
    BY <1>2, <1>3, <2>1, <2>2 DEF FirstTime
  <2> QED  BY <2>3, <2>4
<1>9. (BooksCover(db) /\ (Once => BooksEqual(db)))'
  BY <1>1, <1>8 DEF BooksInv
<1> QED  BY <1>1, <1>7, <1>9 DEF BooksInv

\* Every step keeps BooksInv.
LEMMA BooksStep ==
  ExplorerInv /\ BalancesInv /\ OrderInv /\ BooksInv /\ [Next]_vars => BooksInv'
<1> SUFFICES ASSUME ExplorerInv, BalancesInv, OrderInv, BooksInv, [Next]_vars PROVE BooksInv'
  OBVIOUS
<1>0. CountRows(db.accounts)
  BY DEF BooksInv, BooksCover, CountsCover
<1>1. ASSUME LedgerNext PROVE BooksInv'
  <2>1. ASSUME QueueMomentum PROVE BooksInv'
    BY <2>1, BooksBegin
  <2>2. CASE Rollback
    <3>1. pc' # "exec" /\ UNCHANGED <<world, db, journal>>
      BY <2>2 DEF Rollback, Idle
    <3> QED  BY <3>1, BooksQueue
  <2>3. CASE NodeAdvance
    <3>1. UNCHANGED <<world, processing, journal>> /\ db' = db
      BY <2>3 DEF NodeAdvance
    <3>2. SameBooks(db, db')
      BY <1>0, <3>1 DEF SameBooks, SameCounts
    <3> QED  BY <3>1, <3>2, BooksFrame
  <2>4. CASE \/ \E m \in 1..tip : ProcessMomentum(m)
             \/ \E lookup \in BOOLEAN : \E n \in Frontiers \cap height..tip : FetchBlock(lookup, n)
             \/ SkipBlock
    <3>1. pc' # "exec" /\ UNCHANGED <<world, db, journal>>
      BY <2>4 DEF ProcessMomentum, FetchBlock, SkipBlock
    <3> QED  BY <3>1, BooksQueue
  <2> QED  BY <1>1, <2>1, <2>2, <2>3, <2>4, ExecItemBooks, CommitBooks DEF LedgerNext
<1>2. ASSUME Restart PROVE BooksInv'
  <2>1. pc' # "exec" /\ UNCHANGED <<world, db, journal>>
    BY <1>2 DEF Restart, Crash, Idle
  <2> QED  BY <2>1, BooksQueue
<1>3. ASSUME Aside PROVE BooksInv'
  <2>1. UNCHANGED <<world, processing, journal>> /\ Only(db, db', BesideTables)
    BY <1>3 DEF Aside
  <2>2. BesideTables \cap {"blocks", "rewards", "cumulative", "accounts"} = {}
    BY DEF BesideTables
  <2>3. SameBooks(db, db')
    BY <1>0, <2>1, <2>2, OnlyBooks
  <2> QED  BY <2>1, <2>3, BooksFrame
<1>4. ASSUME CachedNext PROVE BooksInv'
  BY <1>1, <1>2, <1>3, <1>4, BesideAside DEF CachedNext
<1>5. ASSUME UNCHANGED cachedVars PROVE BooksInv'
  <2>1. UNCHANGED <<world, processing, journal>> /\ db' = db
    BY <1>5 DEF cachedVars, ledgerVars
  <2>2. SameBooks(db, db')
    BY <1>0, <2>1 DEF SameBooks, SameCounts
  <2> QED  BY <2>1, <2>2, BooksFrame
<1> QED  BY <1>4, <1>5 DEF Next, StartWalk, ReadPage, vars

\* The tables of an empty database balance.
LEMMA EmptyBooks == BooksCover(EmptyDB) /\ BooksEqual(EmptyDB)
<1>1. /\ EmptyDB.accounts = <<>> /\ EmptyDB.blocks = <<>>
      /\ EmptyDB.rewards = <<>> /\ EmptyDB.cumulative = <<>> /\ DOMAIN <<>> = {}
  BY DEF EmptyDB
<1>2. IsFiniteSet({})
  BY FS_EmptySet
<1> QED  BY <1>1, <1>2 DEF BooksCover, BooksEqual, CountsCover, CountRows, CountsEqual,
                           SumsCover, SumsEqual, Rewarded

\* What the API shows of balanced tables.
LEMMA BooksShown ==
  ASSUME BooksInv
  PROVE  BooksBalance
<1> DEFINE shown == UNION {RewardsCumulative(db, a).body : a \in DOMAIN db.accounts}
           keys == {RewardKey(db.rewards[x]) : x \in DOMAIN db.rewards}
           c == db.cumulative
<1>1. /\ CountsCover(db.accounts, db.blocks) /\ SumsCover(db.rewards, c)
      /\ Rewarded(db.rewards, db.accounts)
      /\ Once => CountsEqual(db.accounts, db.blocks) /\ SumsEqual(db.rewards, c)
  BY DEF BooksInv, BooksCover, BooksEqual
<1>2. ASSUME NEW a \in DOMAIN db.accounts
      PROVE  LET r == AccountBlocksByAddress(db, a, Request(1, 1, "", FALSE))
             IN r.total >= Cardinality(r.rows) /\ (Once => r.total = Cardinality(r.rows))
  <2> DEFINE r == AccountBlocksByAddress(db, a, Request(1, 1, "", FALSE))
  <2>1. r.total = db.accounts[a].txCount /\ r.rows = Involving(db.blocks, a)
    BY DEF AccountBlocksByAddress, AccountBlockListByAddress, NewPage, Row, Involving
  <2> HIDE DEF r
  <2>2. db.accounts[a].txCount >= Cardinality(Involving(db.blocks, a))
    BY <1>1 DEF CountsCover
  <2>3. Once => db.accounts[a].txCount = Cardinality(Involving(db.blocks, a))
    BY <1>1 DEF CountsEqual
  <2>4. r.total >= Cardinality(r.rows) /\ (Once => r.total = Cardinality(r.rows))
    BY <2>1, <2>2, <2>3
  <2> QED  BY <2>4 DEF r
<1>3. shown = {k \in DOMAIN c : k[1] \in DOMAIN db.accounts}
  BY DEF RewardsCumulative, CumulativeByAddress, OK
<1>4. \A x \in DOMAIN db.rewards : RewardKey(db.rewards[x])[1] \in DOMAIN db.accounts
  BY <1>1 DEF Rewarded, RewardKey
<1> HIDE DEF shown, c
<1>5. keys \subseteq shown
  BY <1>1, <1>3, <1>4 DEF SumsCover
<1>6. Once => shown = keys
  <2>1. Once => DOMAIN c = keys
    BY <1>1 DEF SumsEqual
  <2> QED  BY <1>3, <1>5, <2>1
<1>7. ASSUME NEW k \in DOMAIN c
      PROVE  c[k] >= RewardSum(db.rewards, k) /\ (Once => c[k] = RewardSum(db.rewards, k))
  BY <1>1 DEF SumsCover, SumsEqual
<1> HIDE DEF keys
<1> QED  BY <1>2, <1>5, <1>6, <1>7 DEF BooksBalance, shown, keys, c

\* In whatever order momentums are processed, an account's transaction count and the
\* cumulative rewards are never below what the rows add up to, and equal to it while no
\* momentum was processed twice.
THEOREM BooksAreBalanced == Spec => []BooksBalance
<1>1. Init => BooksInv
  <2> SUFFICES ASSUME Init PROVE BooksInv
    OBVIOUS
  <2>1. db = EmptyDB /\ pc = "idle"
    BY DEF Init, CachedInit, LedgerInit
  <2>2. DOMAIN EmptyDB.blocks = {}
    BY DEF EmptyDB
  <2> QED  BY <2>1, <2>2, EmptyBooks DEF BooksInv
<1>2. BooksInv => BooksBalance
  BY BooksShown
<1>3. Init => OrderInv /\ BalancesInv
  BY InitOrder
<1> QED  BY <1>1, <1>2, <1>3, Reachable, BalancesStep, OrderStep, BooksStep, PTL DEF Spec

=============================================================================
