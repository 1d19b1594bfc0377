------------------------------ MODULE Explorer ------------------------------
(***************************************************************************)
(* The ledger as its readers see it: the writers of CachedData, the REST   *)
(* API over the same tables, and a client that pages through the momentums *)
(* while they are being written.                                           *)
(***************************************************************************)
EXTENDS CachedData, RestApi

VARIABLE walk    \* the client: the next page, what it is due, what it has seen

vars == <<cachedVars, walk>>

NoWalk == [sort |-> "", page |-> 0, due |-> {}, seen |-> {}, done |-> FALSE]
Request(n, size, sort, all) == [page |-> n, size |-> size, sort |-> sort, all |-> all]

\* The client asks until the pages reach the total of the last answer.
StartWalk(sort) ==
  /\ world.walks /\ walk = NoWalk /\ db.momentums # <<>>
  /\ walk' = [NoWalk EXCEPT !.sort = sort, !.page = 1, !.due = DOMAIN db.momentums]
  /\ UNCHANGED cachedVars

ReadPage ==
  /\ walk.page > 0 /\ ~walk.done
  /\ LET r == MomentumsList(db, Request(walk.page, 1, walk.sort, FALSE))
     IN walk' = [walk EXCEPT !.page = @ + 1, !.seen = @ \cup r.shown.must,
                             !.done = r.page * r.size >= r.total]
  /\ UNCHANGED cachedVars

Init == CachedInit /\ walk = NoWalk

Next ==
  \/ CachedNext /\ UNCHANGED walk
  \/ \E sort \in {"asc", "desc"} : StartWalk(sort)
  \/ ReadPage

Spec == Init /\ [][Next]_vars

-----------------------------------------------------------------------------
(* Properties *)

Found(response) == response.status = 200

\* The control state is of its type, and what the tables refer to can be fetched:
\* a block row's momentum and both its accounts, the block of a reward, mint or
\* burn row, a phase through the project it names.  A pillar's voting activity is
\* at most 1.
TypeOK ==
  /\ tip \in 1..Len(world.chain) /\ pc \in {"idle", "queue", "exec"}
  /\ refresh \in DOMAIN After \cup {"idle"} /\ row <= Len(list)
  /\ pc = "exec" => pos <= Len(batch)
  /\ \A x \in DOMAIN db.blocks :
       /\ Found(MomentumsGetByHeight(db, db.blocks[x].height))
       /\ Found(AccountsGet(db, db.blocks[x].address)) /\ Found(AccountsGet(db, db.blocks[x].to))
  /\ \A x \in DOMAIN db.rewards \cup DOMAIN db.mints \cup DOMAIN db.burns :
       Found(AccountBlocksGet(db, x))
  /\ \A x \in DOMAIN db.phases : x \in ProjectsPhases(db, db.phases[x].project).body
  /\ \A o \in DOMAIN db.pillars : db.pillars[o].votes <= db.pillars[o].votable

-----------------------------------------------------------------------------
(* What the chain says of the blocks that were indexed: the reference the  *)
(* tables are compared with.                                               *)

Items == UNION {journal[e].items : e \in DOMAIN journal}

\* Height and position of a block, which the chain lists once.
Place(hash) ==
  CHOOSE p \in UNION {{h} \X DOMAIN Content(h) : h \in DOMAIN world.chain} :
    Content(p[1])[p[2]] = hash

Earlier(x, y) ==
  LET p == Place(x.hash)  q == Place(y.hash)
  IN p[1] < q[1] \/ (p[1] = q[1] /\ p[2] < q[2])

\* The call a contract's receive block carries out, and who made it.
SendOf(x) == world.blocks[world.blocks[x.hash].from]
Calls(xs, contract, methods) ==
  {x \in xs : /\ world.blocks[x.hash].type = "contractReceive"
              /\ world.blocks[x.hash].address = contract
              /\ SendOf(x).call.method \in methods}

Latest(xs) == {x \in xs : \A y \in xs : y.hash = x.hash \/ Earlier(y, x)}

\* x was indexed again as y: for the same voter, and for the same pillar unless none
\* was known.
Repeats(x, y) == y.hash = x.hash /\ y.voter = x.voter /\ x.owner \in {"", y.owner}

\* The momentum f was committed in order after e: it is a later one, or the same
\* one again with all that was indexed of it.  (With a block skipped the second time,
\* an earlier vote or delegation of the momentum replaces the block's own.)
Follows(e, f) ==
  \/ e.height < f.height
  \/ e.height = f.height /\ \A x \in e.items : \E y \in f.items : Repeats(x, y)

InOrder == \A i, j \in DOMAIN journal : i < j => Follows(journal[i], journal[j])

\* The calls xs name what c made, and none came before it.  (On the chain such a call
\* fails; the indexer takes it for one that succeeds when it is indexed again.)
Since(c, xs) == \A x \in xs : Earlier(c, x)

\* The calls that end the stake or fusion of the call c.
Ends(c, xs) ==
  {x \in xs : SendOf(x).call.id = SendOf(c).hash /\ SendOf(x).address = SendOf(c).address}

\* A stake or fusion is shown open exactly while its cancellation is not indexed.
LocksExact(rows, opened, closed) ==
  /\ DOMAIN rows = {SendOf(x).hash : x \in opened}
  /\ \A c \in opened :
       Since(c, Ends(c, closed)) => (rows[SendOf(c).hash].active <=> Ends(c, closed) = {})

\* The calls that settle the HTLC of the call c, and how.
Settling(c, xs) == {x \in xs : SendOf(x).call.id = SendOf(c).hash}
StatusBy(x) == IF SendOf(x).call.method = "Unlock" THEN "unlocked" ELSE "reclaimed"

HtlcsExact(rows, opened, settled) ==
  /\ DOMAIN rows = {SendOf(x).hash : x \in opened}
  /\ \A c \in opened :
       LET ends == Settling(c, settled) IN
       Since(c, ends) =>
         IF ends = {} THEN rows[SendOf(c).hash].status = "active"
         ELSE \E x \in Latest(ends) : rows[SendOf(c).hash].status = StatusBy(x)

\* A vote that names nothing is not recorded.
VoteKey(x) == <<x.voter, SendOf(x).call.id>>
Cast(xs) == {x \in Calls(xs, "accelerator", {"VoteByName", "VoteByProdAddress"}) :
               SendOf(x).call.id # ""}

VotesExact(rows, cast) ==
  /\ DOMAIN rows = {VoteKey(x) : x \in cast}
  /\ \A k \in DOMAIN rows :
       \E x \in Latest({x \in cast : VoteKey(x) = k}) : rows[k].vote = SendOf(x).call.vote

\* What moves the delegation of a: a Delegate to a known pillar, or an Undelegate.
Moves(xs, a) ==
  {x \in Calls(xs, "pillar", {"Delegate", "Undelegate"}) :
     /\ SendOf(x).address = a
     /\ SendOf(x).call.method = "Delegate" => x.owner # ""}

\* What the open intervals of a say, and what the moves xs say.
Shown(rows, a) == {[pillar |-> rows[i].pillar, since |-> rows[i].started] :
                     i \in OpenIntervals(rows, a)}
Chosen(xs) == {[pillar |-> x.owner, since |-> Place(x.hash)[1]] :
                 x \in {x \in xs : SendOf(x).call.method = "Delegate"}}

DelegationsExact(rows, xs) ==
  \A a \in {SendOf(x).address : x \in Calls(xs, "pillar", {"Delegate", "Undelegate"})} :
    Shown(rows, a) = Chosen(Latest(Moves(xs, a)))

\* Processed in the chain's order, with heights skipped, blocks skipped and
\* momentums processed again, the tables say what the indexed blocks say: stakes
\* and fusions are open until cancelled, an HTLC has its last settlement, a voter
\* its latest vote, a delegator the pillar it moved to last.  A backfilled height
\* breaks the order, and with it what is claimed here.
InOrderExact ==
  pc = "idle" /\ InOrder =>
    /\ LocksExact(db.stakes, Calls(Items, "stake", {"Stake"}), Calls(Items, "stake", {"Cancel"}))
    /\ LocksExact(db.fusions, Calls(Items, "plasma", {"Fuse"}),
                  Calls(Items, "plasma", {"CancelFuse"}))
    /\ HtlcsExact(db.htlcs, Calls(Items, "htlc", {"Create"}),
                  Calls(Items, "htlc", {"Unlock", "Reclaim"}))
    /\ VotesExact(db.votes, Cast(Items))
    /\ DelegationsExact(db.delegations, Items)

-----------------------------------------------------------------------------
Once == \A i, j \in DOMAIN journal : i # j => journal[i].height # journal[j].height

\* The sum of f[x] for x in S.
SumOver(f, S) == MapThenSumSet(LAMBDA x : f[x], S)

RewardKey(r) == <<r.address, r.type, r.token>>
RewardSum(rewards, k) ==
  SumOver([x \in DOMAIN rewards |-> rewards[x].amount],
          {x \in DOMAIN rewards : RewardKey(rewards[x]) = k})

\* Counters kept beside the rows agree with the rows, in whatever order momentums
\* are processed: an account's transaction count (the total its list reports) and
\* the cumulative rewards are never below what the rows add up to, and equal to it
\* while no momentum was processed twice.  (The second time a reward may be
\* classified otherwise: its row stays as it is, the sum goes to the other type.)
BooksBalance ==
  pc = "idle" =>
  /\ \A a \in DOMAIN db.accounts :
       LET r == AccountBlocksByAddress(db, a, Request(1, 1, "", FALSE))
       IN /\ r.total >= Cardinality(r.rows)
          /\ Once => r.total = Cardinality(r.rows)
  /\ LET shown == UNION {RewardsCumulative(db, a).body : a \in DOMAIN db.accounts}
         keys  == {RewardKey(db.rewards[x]) : x \in DOMAIN db.rewards}
     IN keys \subseteq shown /\ (Once => shown = keys)
  /\ \A k \in DOMAIN db.cumulative :
       /\ db.cumulative[k] >= RewardSum(db.rewards, k)
       /\ Once => db.cumulative[k] = RewardSum(db.rewards, k)

\* The indexed block q is the send x or its receive.
Concerns(q, x) == q.hash = x \/ world.blocks[q.hash].from = x

\* The sends last processed as not yet received: by a momentum that asked a node which
\* did not have the receive, and since which neither block was processed.
Unpaired ==
  {x \in DOMAIN world.blocks : \E e \in DOMAIN journal :
     /\ \E q \in journal[e].items : q.hash = x /\ q.pair = ""
     /\ \A f \in DOMAIN journal : f > e => \A q \in journal[f].items : ~Concerns(q, x)}

\* Stored receives name their sends; stored sends their receives, but for those of xs.
PairsAgree(blocks, xs) ==
  \A y \in DOMAIN blocks :
    LET x == world.blocks[y].from IN
    x # "" =>
      /\ blocks[y].paired = x
      /\ x \in DOMAIN blocks => blocks[x].paired = IF x \in xs THEN "" ELSE y

\* A send and its receive, once both are stored, name each other, whichever of
\* their momentums was processed first and whatever the nodes knew at the time, with
\* one exception: when the send was processed last, or again, through a node that did
\* not have the receive, its row overwrites the pair with none (account_block.go) while
\* the receive goes on naming it, until one of the two is processed again.
PairedSymmetric == PairsAgree(db.blocks, Unpaired)

\* No delegator has two open intervals, and an account delegates where its open
\* interval says.
DelegationsAgree(accounts, delegations) ==
  /\ \A i, j \in DOMAIN delegations :
       /\ delegations[i].ended = Null /\ delegations[j].ended = Null
       /\ delegations[i].delegator = delegations[j].delegator
       => i = j
  /\ \A a \in DOMAIN accounts :
       accounts[a].delegate # "" =>
         \E i \in OpenIntervals(delegations, a) : delegations[i].pillar = accounts[a].delegate

\* In any order of processing a delegator has at most one open interval, and an
\* account shown as delegating to a pillar has its open interval there: the
\* delegators the API lists are among those the daily statistics count.
DelegationHistory == DelegationsAgree(db.accounts, db.delegations)

\* The rows that say something is over.
Inactive(t) == {x \in DOMAIN t : ~t[x].active}
Settled(htlcs) == {x \in DOMAIN htlcs : htlcs[x].status # "active"}
Revoked(pillars) == {o \in DOMAIN pillars : pillars[o].revoked}
Ended(delegations) == {i \in DOMAIN delegations : delegations[i].ended # Null}

\* From tables d to tables e.
NothingReopens(d, e) ==
  /\ Inactive(d.stakes) \subseteq Inactive(e.stakes)
  /\ Inactive(d.fusions) \subseteq Inactive(e.fusions)
  /\ Settled(d.htlcs) \subseteq Settled(e.htlcs)
  /\ Inactive(d.sentinels) \subseteq Inactive(e.sentinels)
  /\ Revoked(d.pillars) \subseteq Revoked(e.pillars)
  /\ Ended(d.delegations) \subseteq Ended(e.delegations)
  /\ \A i \in Ended(d.delegations) : e.delegations[i] = d.delegations[i]

\* What is closed stays closed: no momentum processed late or again, no refresh
\* from a stale list reopens or drops a stake, fusion, HTLC, sentinel or delegation
\* interval, or brings a revoked pillar back into the lists.
ClosedStaysClosed == [][NothingReopens(db, db')]_vars

Touched(h) == {world.blocks[Content(h)[i]].address : i \in DOMAIN Content(h)}

\* No momentum committed later, and no later block of the same, read this address.
LastReading(e, i) ==
  \A f \in DOMAIN journal : \A j \in DOMAIN journal[f].readings :
    f > e \/ (f = e /\ j > i) => journal[f].readings[j].address # journal[e].readings[i].address

\* The balances the API shows for an address are those of the last reading committed,
\* and they stay right as long as no momentum above that reading's frontier touches the
\* address, though momentums are processed late and repeatedly and any of the nodes
\* asked may be behind: the balances are current when the last node asked had the last
\* momentum that touches the address, and older than the momentum when it was behind.
BalancesCurrent ==
  pc = "idle" =>
  \A e \in DOMAIN journal : \A i \in DOMAIN journal[e].readings :
    LET a == journal[e].readings[i].address
        n == journal[e].readings[i].asOf
    IN LastReading(e, i) =>
         \A m \in n..tip : (\A h \in (n + 1)..m : a \notin Touched(h)) =>
           \A t \in DOMAIN AccountInfo(a, m) :
             /\ <<a, t>> \in AccountsBalances(db, a).body
             /\ db.balances[<<a, t>>] = safeBigIntToInt64(AccountInfo(a, m)[t])

\* A pillar's history, as its endpoint shows it, has the vote v on votingID.
Said(d, o, votingID, v) ==
  [votingID |-> votingID, vote |-> v] \in PillarsVotingHistory(d, d.pillars[o].name).body.votes

\* One tally of a report and the history of the active pillar o.
TallyAgrees(d, t, o) ==
  LET n == d.pillars[o].name IN
  /\ \A v \in {"yes", "no", "abstain"} : n \in t.shown[v] => Said(d, o, t.votingID, v)
  /\ n \in t.shown["noVote"] => \A v \in {"yes", "no", "abstain"} : n \notin t.shown[v]
  /\ (\A v \in {"yes", "no", "abstain", "noVote"} : n \notin t.shown[v]) =>
       Said(d, o, t.votingID, "unknown")
  /\ n \in t.shown["noVote"] =>
       \A k \in PillarVotingHistory(d, o) :
         k[2] = t.votingID => k[1] \in ActivePillars(d) \ {o}

\* The project's report and the pillars' own histories, two statements with their
\* own joins, agree: an active pillar is listed with the votes its history has, or
\* under no vote, or has a vote of an unknown code; one without a vote has none in
\* its history, unless it was cast by an address that is itself another pillar's
\* owner.
ReportMatchesHistory ==
  pc # "exec" =>
  \A p \in {x \in DOMAIN db.projects \cup {db.phases[y].project : y \in DOMAIN db.phases} :
             Found(ProjectsGet(db, x))} :
  \A t \in ProjectsVotingReport(db, p).body.tallies :
  \A o \in ActivePillars(db) : TallyAgrees(db, t, o)

Exact(r) == r.total = Cardinality(r.rows)

TotalsExact(d, req) ==
  /\ Exact(TokensList(d, req)) /\ Exact(PillarsList(d, req)) /\ Exact(SentinelsList(d, req))
  /\ Exact(ProjectsList(d, req)) /\ Exact(StakesList(d, req)) /\ Exact(FusionsList(d, req))
  /\ Exact(HtlcList(d, ParsePagination(req))) /\ Exact(ListRetrievals(d, ParsePagination(req)))
  /\ \A a \in DOMAIN d.accounts :
       /\ Exact(StakesByAddress(d, a, req)) /\ Exact(FusionsByAddress(d, a, req))
       /\ Exact(RewardsHistory(d, a, req))
  /\ \A c \in {d.momentums[h].producer : h \in DOMAIN d.momentums} :
       Exact(MomentumListByProducer(d, c, ParsePagination(req), "desc"))
  /\ \A t \in DOMAIN d.tokens : Exact(TokensHolders(d, t, req))
  /\ \A x \in DOMAIN d.projects : Exact(ProjectsVotes(d, x, req))
  /\ \A o \in DOMAIN d.pillars : Exact(PillarsDelegators(d, d.pillars[o].name, req).body)

\* A client that pages through the momentums while momentums are stored, late
\* ones included, has seen at the end every momentum that was stored when it
\* began; the total it goes by is the latest height the status reports.  And no
\* other list reports a total other than the number of rows it selects, past its
\* last page too.
PagesComplete ==
  /\ LET total == MomentumsList(db, Request(0, 0, "", FALSE)).total
     IN Status(db).body.latest = total /\ (total > 0 => MomentumsLatest(db).body = {total})
  /\ walk.done => walk.due \subseteq walk.seen
  /\ pc = "idle" => \A n \in 1..2 : \A all \in BOOLEAN :
       TotalsExact(db, Request(n, 1, "", all))

=============================================================================
