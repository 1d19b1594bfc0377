---------------------------- MODULE Repository ----------------------------
(***************************************************************************)
(* The tables the indexer fills and the statements of internal/repository  *)
(* that write and read them.  A table is a function from its primary key   *)
(* to a row, a record with the columns the properties tell apart; the      *)
(* tables without a natural key (delegations, pillar_updates) are          *)
(* sequences in the order of their serial id.  An operator is the statement*)
(* of one method: it takes the table as it is when the statement executes  *)
(* and returns the table it leaves.  The direct and the batched variant of *)
(* a method carry the same statement and are one operator here.            *)
(*                                                                         *)
(* A momentum's timestamp is its height: both grow together.  0 stands for *)
(* SQL's NULL in a timestamp column.                                       *)
(***************************************************************************)
EXTENDS Integers, Sequences, FiniteSets

CONSTANT
  MaxInt64     \* the largest value of a BIGINT column

ASSUME MaxInt64Assumption == MaxInt64 \in Nat \ {0}

Null == 0

\* INSERT ... ON CONFLICT (key) DO UPDATE, and ... DO NOTHING.
Put(t, k, row) == [x \in DOMAIN t \cup {k} |-> IF x = k THEN row ELSE t[x]]
InsertOrIgnore(t, k, row) == IF k \in DOMAIN t THEN t ELSE Put(t, k, row)
\* The row an INSERT ... ON CONFLICT DO UPDATE starts from.
Row(t, k, new) == IF k \in DOMAIN t THEN t[k] ELSE new

\* A *big.Int on its way into a BIGINT column: capped, not wrapped.
safeBigIntToInt64(v) == IF v <= MaxInt64 THEN v ELSE MaxInt64

-----------------------------------------------------------------------------
(* accounts *)

NoSpan == [first |-> Null, last |-> Null]

\* LEAST/GREATEST(COALESCE(old, new), new) of a first/last pair of columns.
Widen(span, ts) ==
  [first |-> IF span.first = Null \/ ts < span.first THEN ts ELSE span.first,
   last  |-> IF ts > span.last THEN ts ELSE span.last]

Flows == {"znn", "qsr"}
NoFlow == [c \in Flows |-> 0]

Account ==
  [blockCount |-> 0, delegate |-> "", since |-> Null, genesis |-> NoFlow,
   sent |-> NoFlow, received |-> NoFlow, active |-> NoSpan, seen |-> NoSpan,
   txCount |-> 0]

\* The column a token's flow is added to: only ZNN and QSR have one.
flowColumn(flow, token, amount) ==
  [c \in Flows |-> IF c = token THEN flow[c] + amount ELSE flow[c]]

AccountUpsert(accounts, a, height) ==
  Put(accounts, a, [Row(accounts, a, Account) EXCEPT !.blockCount = height])

AddSend(accounts, a, token, amount, ts) ==
  Put(accounts, a, [Row(accounts, a, Account) EXCEPT
        !.sent = flowColumn(@, token, amount), !.active = Widen(@, ts)])

AddReceive(accounts, a, token, amount, ts) ==
  Put(accounts, a, [Row(accounts, a, Account) EXCEPT
        !.received = flowColumn(@, token, amount), !.active = Widen(@, ts)])

BumpTxCount(accounts, a, ts) ==
  Put(accounts, a, [Row(accounts, a, Account) EXCEPT
        !.seen = Widen(@, ts), !.txCount = @ + 1])

\* An UPDATE: an address without a row keeps none.
UpdateDelegate(accounts, a, delegate, ts) ==
  [x \in DOMAIN accounts |->
     IF x = a THEN [accounts[x] EXCEPT !.delegate = delegate, !.since = ts]
              ELSE accounts[x]]

SetGenesisBalance(accounts, a, token, balance) ==
  IF token \in Flows
    THEN Put(accounts, a, [Row(accounts, a, Account) EXCEPT !.genesis[token] = balance])
    ELSE accounts

-----------------------------------------------------------------------------
(* delegations: one row per interval, ended = Null while it is open *)

\* Mutant: an interval opened at the same moment is left open.
CloseActiveOlder(delegations, delegator, ts) ==
  [i \in DOMAIN delegations |->
     IF /\ delegations[i].delegator = delegator /\ delegations[i].ended = Null
        /\ delegations[i].started < ts
       THEN [delegations[i] EXCEPT !.ended = ts] ELSE delegations[i]]

CloseActive(delegations, delegator, ts) ==
  [i \in DOMAIN delegations |->
     IF delegations[i].delegator = delegator /\ delegations[i].ended = Null
       THEN [delegations[i] EXCEPT !.ended = ts] ELSE delegations[i]]

OpenDelegation(delegations, delegator, pillar, ts) ==
  Append(delegations, [delegator |-> delegator, pillar |-> pillar,
                       started |-> ts, ended |-> Null])

OpenIntervals(delegations, delegator) ==
  {i \in DOMAIN delegations :
     delegations[i].delegator = delegator /\ delegations[i].ended = Null}

CountActiveByPillar(delegations, pillar) ==
  Cardinality({i \in DOMAIN delegations :
                 delegations[i].pillar = pillar /\ delegations[i].ended = Null})

-----------------------------------------------------------------------------
(* momentums, account_blocks, balances *)

MomentumInsert(momentums, h, txs, producer, owner) ==
  InsertOrIgnore(momentums, h, [txs |-> txs, producer |-> producer, owner |-> owner])

\* On conflict only method, input and the paired hash are replaced.
AccountBlockInsert(blocks, hash, row) ==
  Put(blocks, hash, [Row(blocks, hash, row) EXCEPT
                       !.method = row.method, !.paired = row.paired])

UpdatePairedBlock(blocks, hash, paired) ==
  [x \in DOMAIN blocks |->
     IF x = hash THEN [blocks[x] EXCEPT !.paired = paired] ELSE blocks[x]]

UpdateDescendantOf(blocks, hashes, parent) ==
  [x \in DOMAIN blocks |->
     IF x \in hashes THEN [blocks[x] EXCEPT !.descendantOf = parent] ELSE blocks[x]]

\* Mutant: ON CONFLICT DO NOTHING.
BalanceUpsertOnce(balances, a, info) ==
  [k \in DOMAIN balances \cup ({a} \X DOMAIN info) |->
     IF k \in DOMAIN balances THEN balances[k] ELSE info[k[2]]]

\* One row per token of info, the balances the node reports for the address.
BalanceUpsert(balances, a, info) ==
  [k \in DOMAIN balances \cup ({a} \X DOMAIN info) |->
     IF k[1] = a /\ k[2] \in DOMAIN info THEN info[k[2]] ELSE balances[k]]

GetHolderCount(balances, token) ==
  Cardinality({k \in DOMAIN balances : k[2] = token /\ balances[k] > 0})

-----------------------------------------------------------------------------
(* tokens, token_mints, token_burns *)

Token(supply) == [supply |-> supply, burned |-> 0, updated |-> Null, holders |-> 0, txs |-> 0]

TokenUpsert(tokens, token, supply) ==
  Put(tokens, token, [Row(tokens, token, Token(supply)) EXCEPT !.supply = supply])

UpdateBurnAmount(tokens, token, amount) ==
  [x \in DOMAIN tokens |->
     IF x = token THEN [tokens[x] EXCEPT !.burned = @ + amount] ELSE tokens[x]]

UpdateLastUpdateTimestamp(tokens, token, ts) ==
  [x \in DOMAIN tokens |->
     IF x = token THEN [tokens[x] EXCEPT !.updated = ts] ELSE tokens[x]]

IncrementTransactionCount(tokens, token) ==
  [x \in DOMAIN tokens |->
     IF x = token THEN [tokens[x] EXCEPT !.txs = @ + 1] ELSE tokens[x]]

UpdateHolderCount(tokens, token, count) ==
  [x \in DOMAIN tokens |->
     IF x = token THEN [tokens[x] EXCEPT !.holders = count] ELSE tokens[x]]

InsertMint(mints, hash, token, amount, ts) ==
  InsertOrIgnore(mints, hash, [token |-> token, amount |-> amount, ts |-> ts])

InsertBurn(burns, hash, token, amount, ts) ==
  InsertOrIgnore(burns, hash, [token |-> token, amount |-> amount, ts |-> ts])

-----------------------------------------------------------------------------
(* stakes, fusions, htlcs, swap_retrievals, swap_assets *)

StakeInsert(stakes, id, address, cancelID, ts) ==
  InsertOrIgnore(stakes, id, [address |-> address, cancelID |-> cancelID, started |-> ts,
                              active |-> TRUE])

StakeSetInactive(stakes, cancelID, address) ==
  [x \in DOMAIN stakes |->
     IF stakes[x].cancelID = cancelID /\ stakes[x].address = address
       THEN [stakes[x] EXCEPT !.active = FALSE] ELSE stakes[x]]

FusionInsert(fusions, id, address, beneficiary, cancelID, h) ==
  InsertOrIgnore(fusions, id, [address |-> address, beneficiary |-> beneficiary,
                               cancelID |-> cancelID, height |-> h, active |-> TRUE])

FusionSetInactive(fusions, cancelID, address) ==
  [x \in DOMAIN fusions |->
     IF fusions[x].cancelID = cancelID /\ fusions[x].address = address
       THEN [fusions[x] EXCEPT !.active = FALSE] ELSE fusions[x]]

HtlcInsert(htlcs, id, row) == InsertOrIgnore(htlcs, id, row)

HtlcSettle(htlcs, id, status, ts) ==
  [x \in DOMAIN htlcs |->
     IF x = id THEN [htlcs[x] EXCEPT !.status = status, !.settled = ts] ELSE htlcs[x]]

InsertRetrieval(retrievals, id, address, znn, qsr, h) ==
  InsertOrIgnore(retrievals, id, [address |-> address, znn |-> znn, qsr |-> qsr, height |-> h])

UpsertAsset(assets, key, remaining) == Put(assets, key, remaining)

-----------------------------------------------------------------------------
(* pillars, pillar_updates, sentinels *)

Pillar(name) ==
  [name |-> name, rank |-> 0, producer |-> "", withdraw |-> "", revokedAt |-> Null,
   revoked |-> FALSE, spawned |-> Null, slotCost |-> 0, produced |-> 0,
   votes |-> 0, votable |-> 0]

\* Mutant: the list decides whether the pillar is revoked.
PillarUpsertRevoked(pillars, p) ==
  Put(pillars, p.owner, [Row(pillars, p.owner, Pillar(p.name)) EXCEPT
        !.name = p.name, !.rank = p.rank, !.producer = p.producer,
        !.withdraw = p.withdraw, !.revokedAt = p.revokedAt, !.revoked = p.revokedAt # Null])

\* The list's columns are overwritten; is_revoked, spawn and counters are not.
PillarUpsert(pillars, p) ==
  Put(pillars, p.owner, [Row(pillars, p.owner, Pillar(p.name)) EXCEPT
        !.name = p.name, !.rank = p.rank, !.producer = p.producer,
        !.withdraw = p.withdraw, !.revokedAt = p.revokedAt])

UpdateSpawnInfo(pillars, owner, ts, cost) ==
  [x \in DOMAIN pillars |->
     IF x = owner THEN [pillars[x] EXCEPT !.spawned = ts, !.slotCost = cost] ELSE pillars[x]]

\* Inserts a minimal row when the pillar was never seen.
SetAsRevoked(pillars, owner, name, ts) ==
  Put(pillars, owner, [Row(pillars, owner, Pillar(name)) EXCEPT
                         !.revokedAt = ts, !.revoked = TRUE])

IncrementMomentumCount(pillars, owner) ==
  [x \in DOMAIN pillars |->
     IF x = owner THEN [pillars[x] EXCEPT !.produced = @ + 1] ELSE pillars[x]]

\* voting_activity = votes / votable, kept as the two numbers.
UpdateVotingActivity(pillars, owner, votes, votable) ==
  [x \in DOMAIN pillars |->
     IF x = owner THEN [pillars[x] EXCEPT !.votes = votes, !.votable = votable] ELSE pillars[x]]

GetSpawnTimestampByOwner(pillars, owner) == pillars[owner].spawned

\* "" when no row matches, or one of the owners the query may return.
GetByProducer(pillars, producer) ==
  LET owners == {o \in DOMAIN pillars : pillars[o].producer = producer}
  IN IF owners = {} THEN "" ELSE CHOOSE o \in owners : TRUE

IsWithdrawAddress(pillars, updates, a) ==
  \/ \E o \in DOMAIN pillars : pillars[o].withdraw = a
  \/ \E i \in DOMAIN updates : updates[i].withdraw = a

PillarUpdateInsert(updates, owner, producer, withdraw, name, h) ==
  Append(updates, [owner |-> owner, producer |-> producer, withdraw |-> withdraw,
                   name |-> name, height |-> h])

\* ORDER BY id DESC LIMIT 1: the row inserted last, not the highest momentum.
GetInfoAtHeightByProducer(updates, producer, h) ==
  LET match == {i \in DOMAIN updates :
                  updates[i].producer = producer /\ updates[i].height <= h}
  IN IF match = {} THEN ""
     ELSE updates[CHOOSE i \in match : \A j \in match : j <= i].owner

\* On conflict neither column is touched.
SentinelUpsert(sentinels, owner, registered, active) ==
  InsertOrIgnore(sentinels, owner, [active |-> active, registered |-> registered])

SentinelSetInactive(sentinels, owner) ==
  [x \in DOMAIN sentinels |->
     IF x = owner THEN [sentinels[x] EXCEPT !.active = FALSE] ELSE sentinels[x]]

-----------------------------------------------------------------------------
(* projects, project_phases, votes *)

ProjectUpsert(projects, id, votingID, created, status) ==
  Put(projects, id, [Row(projects, id, [votingID |-> votingID, created |-> created,
                                        status |-> status]) EXCEPT !.status = status])

ProjectPhaseUpsert(phases, id, project, votingID, created, status) ==
  Put(phases, id, [Row(phases, id, [project |-> project, votingID |-> votingID,
                                    created |-> created, status |-> status])
                     EXCEPT !.status = status])

GetIDFromVotingID(projects, votingID) ==
  LET ids == {p \in DOMAIN projects : projects[p].votingID = votingID}
  IN IF ids = {} THEN "" ELSE CHOOSE p \in ids : TRUE

GetProjectAndPhaseIDFromVotingID(phases, votingID) ==
  LET ids == {p \in DOMAIN phases : phases[p].votingID = votingID}
  IN IF ids = {} THEN <<"", "">>
     ELSE LET p == CHOOSE p \in ids : TRUE IN <<phases[p].project, p>>

ProjectIDsCreatedAtOrAfter(projects, ts) == {p \in DOMAIN projects : projects[p].created >= ts}

PhaseIDsCreatedAtOrAfter(phases, ts) == {p \in DOMAIN phases : phases[p].created >= ts}

\* Mutant: the first vote stays.
VoteInsertOnce(votes, voter, votingID, row) == InsertOrIgnore(votes, <<voter, votingID>>, row)

\* On conflict the vote and its momentum are replaced, the ids are not.
VoteInsert(votes, voter, votingID, row) ==
  Put(votes, <<voter, votingID>>,
      [Row(votes, <<voter, votingID>>, row) EXCEPT !.vote = row.vote, !.height = row.height])

\* The projects the voter voted on themselves, and the phases.
VotedProjects(votes, voter, ids) ==
  {p \in ids : \E k \in DOMAIN votes :
                 k[1] = voter /\ votes[k].project = p /\ votes[k].phase = ""}
VotedPhases(votes, voter, ids) ==
  {p \in ids : \E k \in DOMAIN votes : k[1] = voter /\ votes[k].phase = p}

\* COUNT(DISTINCT ...).
GetVoteCountForProjects(votes, voter, ids) == Cardinality(VotedProjects(votes, voter, ids))

GetVoteCountForPhases(votes, voter, ids) == Cardinality(VotedPhases(votes, voter, ids))

-----------------------------------------------------------------------------
(* reward_transactions, cumulative_rewards *)

InsertRewardTransaction(rewards, hash, row) == InsertOrIgnore(rewards, hash, row)

UpdateCumulativeRewards(cumulative, a, type, token, amount) ==
  Put(cumulative, <<a, type, token>>, Row(cumulative, <<a, type, token>>, 0) + amount)

=============================================================================
