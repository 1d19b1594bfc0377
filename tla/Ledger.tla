------------------------------ MODULE Ledger ------------------------------
(***************************************************************************)
(* What one momentum writes: processMomentum (internal/indexer/processor.go*)
(* embedded.go, rewards.go, decoder.go) over the tables of Repository.     *)
(*                                                                         *)
(* A momentum is processed in two phases.  First its account blocks are    *)
(* fetched one by one from the node, decoded, and their statements queued; *)
(* a block that cannot be fetched is skipped.  Everything the code looks up*)
(* while it queues (the pillar cache, project ids, withdraw addresses) is  *)
(* read at that time from the committed tables.  Then the queue is executed*)
(* in one transaction: `stage` is the image only this transaction sees, a  *)
(* statement that fails drops it, Commit publishes it.  The other writers  *)
(* of the tables wait while a queue executes: their single-statement writes*)
(* are ordered before or after the transaction.                            *)
(*                                                                         *)
(* MomentumSync shows which heights are processed when (catch-up, live     *)
(* subscription with gaps, backfill); here any height the chain has may    *)
(* come next, in any order and repeatedly.  The client is loaded anew for  *)
(* every request, so each answer may come from another node, and that node *)
(* may be behind what was read before: `tip` is the highest frontier, and  *)
(* an answer is as of any frontier up to it.  So are the answers a second  *)
(* process got before it commits; its transaction comes before or after    *)
(* the others.                                                             *)
(***************************************************************************)
EXTENDS Repository, FiniteSetsExt

CONSTANTS
  Worlds,        \* chains the node may serve, and the bounds explored on each
  BalanceLimit   \* genesisBalanceUpdateThreshold

ASSUME LedgerAssumption == BalanceLimit \in Nat

\* What the node vouches for: momentums list blocks by their hashes, each once; every
\* block has an address, a recipient (the empty address is one) and an amount; a send
\* is received at most once, by a block that is not itself a send; and a contract
\* receives what was sent to it.
ASSUME WorldsAssumption ==
  \A w \in Worlds :
    /\ w.chain \in Seq([producer : STRING, content : Seq(DOMAIN w.blocks)])
    /\ w.chain # <<>>
    /\ \A g, h \in DOMAIN w.chain :
         \A i \in DOMAIN w.chain[g].content, j \in DOMAIN w.chain[h].content :
           w.chain[g].content[i] = w.chain[h].content[j] => g = h /\ i = j
    /\ \A x \in DOMAIN w.blocks :
         /\ x # "" /\ w.blocks[x].hash = x /\ w.blocks[x].to # "" /\ w.blocks[x].amount \in Nat
         /\ w.blocks[x].type = "contractReceive" =>
              w.blocks[x].from # "" /\ w.blocks[w.blocks[x].from].to = w.blocks[x].address
         /\ w.blocks[x].from # "" =>
              /\ w.blocks[x].from \in DOMAIN w.blocks
              /\ w.blocks[w.blocks[x].from].from = ""
              /\ \A y \in DOMAIN w.blocks : w.blocks[y].from = w.blocks[x].from => x = y

VARIABLES
  world,     \* the chain and the node's lists, fixed for a behaviour
  tip,       \* the highest frontier of a node
  db,        \* the committed tables
  cache,     \* Indexer.pillarNameToOwner, published by updatePillarCache
  pc,        \* processMomentum: "idle", "queue" or "exec"
  height,    \* the momentum being processed
  pos,       \* blocks fetched ("queue"), queue entries executed ("exec")
  batch,     \* the queued statements, grouped by what queued them
  stage,     \* the transaction's image of the tables
  journal,   \* history: what each committed momentum wrote
  extras     \* faults, answers of nodes behind, refreshes and cron statements so far

processing == <<pc, height, pos, batch, stage>>
ledgerVars == <<world, tip, db, cache, processing, journal, extras>>

-----------------------------------------------------------------------------
(* Node: world.chain[h] has the momentum's producer and the hashes of its  *)
(* blocks, world.blocks the blocks.  A block names in `from` the send it   *)
(* receives.                                                               *)

NoCall == [method |-> "", name |-> "", id |-> "", vote |-> 0, token |-> "", amount |-> 0,
           address |-> "", producer |-> "", withdraw |-> ""]
NoBlock == [hash |-> ""]
NoInfo == [token |-> "", supply |-> 0]

Sends    == {"userSend", "contractSend"}
Receives == {"userReceive", "contractReceive", "genesisReceive"}

Content(h) == world.chain[h].content
Confirmed(n) == UNION {{Content(h)[i] : i \in DOMAIN Content(h)} : h \in 1..n}

\* The answer of a node at frontier n: a send is paired once the node has its receive.
GetAccountBlockByHash(hash, n) ==
  LET b     == world.blocks[hash]
      recvs == {x \in Confirmed(n) : world.blocks[x].from = hash}
      other == IF b.from # "" THEN {b.from} ELSE recvs
  IN [block  |-> b,
      paired |-> IF other = {} THEN NoBlock ELSE world.blocks[CHOOSE x \in other : TRUE]]

\* What an address holds after its own blocks.
Tokens == {"znn", "qsr"}
Holdings(blocks, own) ==
  LET In(x)   == IF blocks[x].from # "" THEN blocks[blocks[x].from] ELSE blocks[x]
      Gain(t) == MapThenSumSet(LAMBDA x : In(x).amount,
                   {x \in own : blocks[x].type \in Receives /\ In(x).token = t})
      Loss(t) == MapThenSumSet(LAMBDA x : blocks[x].amount,
                   {x \in own : blocks[x].type \in Sends /\ blocks[x].token = t})
      Net     == [t \in Tokens |-> Gain(t) - Loss(t)]
  IN [t \in {t \in Tokens : Net[t] \in Nat} |-> Net[t]]

\* GetAccountInfoByAddress: what the address holds at the node's frontier n.
AccountInfo(a, n) ==
  Holdings(world.blocks, {x \in Confirmed(n) : world.blocks[x].address = a})

-----------------------------------------------------------------------------
(* decoder.go *)

Embedded == {"plasma", "pillar", "token", "sentinel", "stake", "accelerator",
             "swap", "liquidity", "bridge", "htlc", "spork"}

CommonAbi == {"CollectReward", "DepositQsr", "WithdrawQsr", "Donate"}
ContractAbi(contract) ==
  CASE contract = "pillar" -> {"Register", "RegisterLegacy", "UpdatePillar", "Delegate",
                               "Undelegate", "Revoke"}
    [] contract = "stake" -> {"Stake", "Cancel"}
    [] contract = "sentinel" -> {"Register", "Revoke"}
    [] contract = "plasma" -> {"Fuse", "CancelFuse"}
    [] contract = "accelerator" -> {"CreateProject", "AddPhase", "UpdatePhase", "VoteByName",
                                    "VoteByProdAddress"}
    [] contract = "token" -> {"IssueToken", "Mint", "Burn", "UpdateToken"}
    [] contract = "htlc" -> {"Create", "Unlock", "Reclaim"}
    [] contract = "swap" -> {"RetrieveAssets"}
    [] OTHER -> {}

tryDecodeFromAbi(call, abi) == IF call.method \in abi THEN call ELSE NoCall

\* NoCall when the block calls no contract or no method of it.
tryDecodeTxData(b) ==
  IF b.to \notin Embedded THEN NoCall
  ELSE LET common == tryDecodeFromAbi(b.call, CommonAbi)
       IN IF common # NoCall THEN common ELSE tryDecodeFromAbi(b.call, ContractAbi(b.to))

\* The SDK's ABI calls: a packed call, and the arguments unpacked from it.
EncodeFunction(method, args) == [method |-> method, args |-> args]
DecodeFunction(data) == data.args
getVotingID(id)       == DecodeFunction(EncodeFunction("VoteByName", <<id, "", 0>>))[1]
getFusionCancelID(id) == DecodeFunction(EncodeFunction("CancelFuse", <<id>>))[1]
getStakeCancelID(id)  == DecodeFunction(EncodeFunction("Cancel", <<id>>))[1]

-----------------------------------------------------------------------------
(* Reads made while queueing *)

getPillarOwnerAddress(name) == IF name \in DOMAIN cache THEN cache[name] ELSE ""

getPillarInfoForProducer(d, producer, h) ==
  LET owner == GetInfoAtHeightByProducer(d.updates, producer, h)
  IN IF owner # "" THEN owner ELSE GetByProducer(d.pillars, producer)

\* lookup = FALSE: the withdraw-address query failed.
classifyReward(d, source, receiver, lookup) ==
  CASE source = "sentinel"  -> "Sentinel"
    [] source = "stake"     -> "Stake"
    [] source = "liquidity" -> "Liquidity"
    [] source = "pillar"    -> IF lookup => IsWithdrawAddress(d.pillars, d.updates, receiver)
                                 THEN "Pillar" ELSE "Delegation"
    [] OTHER                -> "Unknown"

\* <<project, phase>> a voting id stands for; a failed query finds nothing.
VotedOn(d, votingID, lookup) ==
  LET project == GetIDFromVotingID(d.projects, votingID)
  IN IF ~lookup THEN <<"", "">>
     ELSE IF project # "" THEN <<project, "">>
     ELSE GetProjectAndPhaseIDFromVotingID(d.phases, votingID)

\* The owner's vote when the call names a cached pillar, else the sender's.
Voter(call, sender) ==
  LET owner == getPillarOwnerAddress(call.name)
  IN IF call.method = "VoteByName" /\ owner # "" THEN owner ELSE sender

\* A block fetched from a node at n, with everything its statements are built from.
Queued(hash, lookup, n) ==
  LET got  == GetAccountBlockByHash(hash, n)
      call == IF got.paired = NoBlock THEN NoCall ELSE tryDecodeTxData(got.paired)
  IN [kind |-> "block", hash |-> hash, block |-> got.block, paired |-> got.paired,
      method |-> tryDecodeTxData(got.block).method, call |-> call,
      pillarOwner |-> getPillarOwnerAddress(call.name),
      voter |-> IF got.paired = NoBlock THEN "" ELSE Voter(call, got.paired.address),
      votedOn |-> VotedOn(db, call.id, lookup),
      reward |-> IF got.paired = NoBlock THEN "Unknown"
                 ELSE classifyReward(db, got.paired.address, got.block.address, lookup)]

-----------------------------------------------------------------------------
(* embedded.go: d is the image, q the queued block, ts the momentum's height *)

Descendants(b) == {b.descendants[i] : i \in DOMAIN b.descendants}

indexPillarContract(d, q, ts) ==
  LET c == q.call   sender == q.paired.address   ds == q.block.descendants
      cost == world.blocks[ds[1]]
  IN CASE c.method \in {"Register", "RegisterLegacy"} /\ c.name # "" ->
            [d EXCEPT
               !.updates = PillarUpdateInsert(@, sender, c.producer, c.withdraw, c.name, ts),
               !.pillars = IF ds # <<>> /\ cost.to = "token"
                             THEN UpdateSpawnInfo(@, sender, ts, safeBigIntToInt64(cost.amount))
                             ELSE @]
       [] c.method = "Delegate" /\ q.pillarOwner # "" ->
            [d EXCEPT
               !.accounts = UpdateDelegate(@, sender, q.pillarOwner, ts),
               !.delegations = OpenDelegation(CloseActive(@, sender, ts),
                                              sender, q.pillarOwner, ts)]
       [] c.method = "Undelegate" ->
            [d EXCEPT !.accounts = UpdateDelegate(@, sender, "", Null),
                      !.delegations = CloseActive(@, sender, ts)]
       [] c.method = "Revoke" /\ c.name # "" ->
            [d EXCEPT !.pillars = SetAsRevoked(@, sender, c.name, ts)]
       [] OTHER -> d  \* UpdatePillar too: its pillarOwner input is never set

indexStakeContract(d, q, ts) ==
  CASE q.call.method = "Stake" ->
         [d EXCEPT !.stakes = StakeInsert(@, q.paired.hash, q.paired.address,
                                          getStakeCancelID(q.paired.hash), ts)]
    [] q.call.method = "Cancel" /\ q.call.id # "" ->
         [d EXCEPT !.stakes = StakeSetInactive(@, getStakeCancelID(q.call.id), q.paired.address)]
    [] OTHER -> d

indexSentinelContract(d, q) ==
  IF q.call.method = "Revoke"
    THEN [d EXCEPT !.sentinels = SentinelSetInactive(@, q.paired.address)] ELSE d

indexPlasmaContract(d, q, ts) ==
  CASE q.call.method = "Fuse" ->
         [d EXCEPT !.fusions = FusionInsert(@, q.paired.hash, q.paired.address,
            IF q.call.address = "" THEN q.paired.address ELSE q.call.address,
            getFusionCancelID(q.paired.hash), ts)]
    [] q.call.method = "CancelFuse" /\ q.call.id # "" ->
         [d EXCEPT !.fusions = FusionSetInactive(@, getFusionCancelID(q.call.id), q.paired.address)]
    [] OTHER -> d

indexAcceleratorContract(d, q, ts) ==
  IF q.call.method \in {"VoteByName", "VoteByProdAddress"} /\ q.call.id # ""
    THEN [d EXCEPT !.votes = VoteInsert(@, q.voter, q.call.id,
            [project |-> q.votedOn[1], phase |-> q.votedOn[2],
             vote |-> q.call.vote, height |-> ts])]
    ELSE d

\* Mutant: a mint is keyed by the call, not by the block that carried it out.
indexTokenContractBySend(d, q, ts) ==
  CASE q.call.method = "Mint" /\ q.call.amount <= MaxInt64 ->
         [d EXCEPT !.mints = InsertMint(@, q.paired.hash, q.call.token, q.call.amount, ts)]
    [] OTHER -> d

\* Mint takes token and amount from the call, Burn from the paired send; a mint
\* amount that is no int64 is not recorded.
indexTokenContract(d, q, ts) ==
  CASE q.call.method = "Mint" /\ q.call.amount <= MaxInt64 ->
         [d EXCEPT !.mints = InsertMint(@, q.hash, q.call.token, q.call.amount, ts)]
    [] q.call.method = "Burn" ->
         LET amount == safeBigIntToInt64(q.paired.amount)
         IN [d EXCEPT !.burns = InsertBurn(@, q.hash, q.paired.token, amount, ts),
                      !.tokens = UpdateBurnAmount(@, q.paired.token, amount)]
    [] q.call.method = "UpdateToken" /\ q.call.token # "" ->
         [d EXCEPT !.tokens = UpdateLastUpdateTimestamp(@, q.call.token, ts)]
    [] OTHER -> d

\* What the claim pays out: the descendants' Mint calls in that token.
Payout(b, token) ==
  LET mints == {x \in Descendants(b) :
                  LET c == tryDecodeFromAbi(world.blocks[x].call, ContractAbi("token"))
                  IN c.method = "Mint" /\ c.token = token}
  IN MapThenSumSet(LAMBDA x : safeBigIntToInt64(world.blocks[x].call.amount), mints)

indexSwapContract(d, q, ts) ==
  IF q.call.method = "RetrieveAssets"
    THEN [d EXCEPT !.retrievals = InsertRetrieval(@, q.paired.hash, q.paired.address,
            Payout(q.block, "znn"), Payout(q.block, "qsr"), ts)]
    ELSE d

\* The entry's id is the Create send; Unlock and Reclaim name it.
indexHtlcContract(d, q, ts) ==
  CASE q.call.method = "Create" ->
         [d EXCEPT !.htlcs = HtlcInsert(@, q.paired.hash,
            [status |-> "active", locked |-> q.paired.address, created |-> ts, settled |-> Null])]
    [] q.call.method = "Unlock" /\ q.call.id # "" ->
         [d EXCEPT !.htlcs = HtlcSettle(@, q.call.id, "unlocked", ts)]
    [] q.call.method = "Reclaim" /\ q.call.id # "" ->
         [d EXCEPT !.htlcs = HtlcSettle(@, q.call.id, "reclaimed", ts)]
    [] OTHER -> d

indexEmbeddedContracts(d, q, ts) ==
  CASE q.block.address = "pillar"      -> indexPillarContract(d, q, ts)
    [] q.block.address = "stake"       -> indexStakeContract(d, q, ts)
    [] q.block.address = "sentinel"    -> indexSentinelContract(d, q)
    [] q.block.address = "plasma"      -> indexPlasmaContract(d, q, ts)
    [] q.block.address = "accelerator" -> indexAcceleratorContract(d, q, ts)
    [] q.block.address = "token"       -> indexTokenContract(d, q, ts)
    [] q.block.address = "htlc"        -> indexHtlcContract(d, q, ts)
    [] q.block.address = "swap"        -> indexSwapContract(d, q, ts)
    [] OTHER                           -> d

-----------------------------------------------------------------------------
(* rewards.go *)

RecordReward(d, q, type, ts) ==
  LET amount == safeBigIntToInt64(q.paired.amount)
  IN [d EXCEPT
        !.rewards = InsertRewardTransaction(@, q.hash,
           [address |-> q.block.address, type |-> type, token |-> q.paired.token,
            amount |-> amount, height |-> ts]),
        !.cumulative = UpdateCumulativeRewards(@, q.block.address, type, q.paired.token, amount)]

indexLiquidityReward(d, q, ts) == RecordReward(d, q, "Liquidity", ts)

indexReceivedReward(d, q, ts) ==
  IF q.reward = "Unknown" THEN d ELSE RecordReward(d, q, q.reward, ts)

-----------------------------------------------------------------------------
(* processor.go: the statements one block queues, in their order *)

\* Mutant: only the block's own address is counted.
AccountWritesOwn(accounts, q, ts) ==
  BumpTxCount(AccountUpsert(accounts, q.block.address, q.block.height), q.block.address, ts)

\* The account rows: the block's own address, its flow, and everyone it counts for.
AccountWrites(accounts, q, ts) ==
  LET b      == q.block
      amount == safeBigIntToInt64(b.amount)
      own    == AccountUpsert(accounts, b.address, b.height)
      flow   == CASE b.type \in Sends -> AddSend(own, b.address, b.token, amount, ts)
                  [] b.type \in Receives -> AddReceive(own, b.address, b.token, amount, ts)
                  [] OTHER -> own
      seeded == IF b.type = "genesisReceive" /\ ts = 1
                  THEN SetGenesisBalance(flow, b.address, b.token, amount) ELSE flow
      bumped == BumpTxCount(seeded, b.address, ts)
  IN IF b.to \notin {"", b.address} THEN BumpTxCount(bumped, b.to, ts) ELSE bumped

\* Mutant: the paired block's row is not updated.
BlockWritesOneSided(blocks, q, ts) ==
  LET row == [height |-> ts, address |-> q.block.address, to |-> q.block.to, method |-> q.method,
              paired |-> q.paired.hash, descendantOf |-> ""]
  IN UpdateDescendantOf(AccountBlockInsert(blocks, q.hash, row), Descendants(q.block), q.hash)

BlockWrites(blocks, q, ts) ==
  LET b   == q.block
      row == [height |-> ts, address |-> b.address, to |-> b.to, method |-> q.method,
              paired |-> q.paired.hash, descendantOf |-> ""]
      ins == AccountBlockInsert(blocks, q.hash, row)
      mut == IF q.paired = NoBlock THEN ins ELSE UpdatePairedBlock(ins, q.paired.hash, q.hash)
  IN UpdateDescendantOf(mut, Descendants(b), q.hash)

TokenWrites(tokens, info) ==
  IncrementTransactionCount(TokenUpsert(tokens, info.token, safeBigIntToInt64(info.supply)),
                            info.token)

IsReward(q) ==
  /\ q.paired.type = "contractSend"
  /\ q.block.to = "empty" /\ q.block.token = "empty"

RowsWritten(d, q, ts) ==
  [d EXCEPT !.accounts = AccountWrites(@, q, ts), !.blocks = BlockWrites(@, q, ts)]

CallWritten(d, q, ts) ==
  IF /\ q.block.type = "contractReceive" /\ q.paired # NoBlock
     /\ q.block.address \in Embedded /\ q.call # NoCall
    THEN indexEmbeddedContracts(d, q, ts) ELSE d

RewardWritten(d, q, ts) ==
  IF q.paired = NoBlock \/ q.block.type # "userReceive" THEN d
  ELSE IF q.paired.address = "treasury" THEN indexLiquidityReward(d, q, ts)
  ELSE IF IsReward(q) THEN indexReceivedReward(d, q, ts)
  ELSE d

TokenWritten(d, q) ==
  IF q.block.info = NoInfo THEN d ELSE [d EXCEPT !.tokens = TokenWrites(@, q.block.info)]

processAccountBlocks(d, q, ts) ==
  TokenWritten(RewardWritten(CallWritten(RowsWritten(d, q, ts), q, ts), q, ts), q)

Execute(d, q, ts) ==
  CASE q.kind = "block"    -> processAccountBlocks(d, q, ts)
    [] q.kind = "balance"  -> [d EXCEPT !.balances = BalanceUpsert(@, q.address, q.info)]
    [] q.kind = "momentum" -> [d EXCEPT !.pillars = IncrementMomentumCount(@, q.owner),
                                        !.momentums = MomentumInsert(@, ts, q.txs, q.producer, q.owner)]

\* Postgres refuses a BIGINT sum it cannot hold: the statement fails.
OutOfRange(d) ==
  \/ \E a \in DOMAIN d.accounts : \E c \in Flows :
        d.accounts[a].sent[c] > MaxInt64 \/ d.accounts[a].received[c] > MaxInt64
  \/ \E t \in DOMAIN d.tokens : d.tokens[t].burned > MaxInt64
  \/ \E k \in DOMAIN d.cumulative : d.cumulative[k] > MaxInt64

-----------------------------------------------------------------------------
(* The processing of one momentum *)

EmptyDB ==
  [momentums |-> <<>>, accounts |-> <<>>, blocks |-> <<>>, balances |-> <<>>,
   tokens |-> <<>>, mints |-> <<>>, burns |-> <<>>, stakes |-> <<>>, fusions |-> <<>>,
   htlcs |-> <<>>, retrievals |-> <<>>, assets |-> <<>>, pillars |-> <<>>,
   updates |-> <<>>, sentinels |-> <<>>, projects |-> <<>>, phases |-> <<>>,
   votes |-> <<>>, delegations |-> <<>>, rewards |-> <<>>, cumulative |-> <<>>,
   stats |-> <<>>]

LedgerInit ==
  /\ world \in Worlds
  /\ tip = 1
  /\ db = EmptyDB
  /\ cache = <<>>
  /\ pc = "idle" /\ height = 0 /\ pos = 0 /\ batch = <<>> /\ stage = EmptyDB
  /\ journal = <<>>
  /\ extras = 0

\* bound: the world says how many faults, answers that differ from those of a node at
\* the tip, refreshes and cron statements it has.
Extras(k) == extras + k <= world.maxExtras /\ extras' = extras + k
Extra == Extras(1)

\* The frontiers answers may come from.
\* bound: the world says how far a node may be behind.
Frontiers == {n \in 1..tip : n + world.behind >= tip}

\* The nodes' highest frontier rises; others may be behind it at any time.
NodeAdvance ==
  /\ tip < Len(world.chain)
  /\ tip' = tip + 1
  /\ UNCHANGED <<world, db, cache, processing, journal, extras>>

\* Also before the pillar cache was ever published: a start-up backfill looks up
\* names in an empty one.
ProcessMomentum(h) ==
  /\ pc = "idle"
  /\ Len(journal) < world.maxCommits
  /\ pc' = "queue" /\ height' = h /\ pos' = 0 /\ batch' = <<>>
  /\ UNCHANGED <<world, tip, db, cache, stage, journal, extras>>

\* The node at n has the momentum, and perhaps not what follows.  lookup = FALSE: the
\* database reads made for this block fail.
FetchBlock(lookup, n) ==
  /\ pc = "queue" /\ pos < Len(Content(height))
  /\ LET hash == Content(height)[pos + 1]
         q    == Queued(hash, lookup, n)
     IN /\ batch' = Append(batch, q)
        /\ IF q = Queued(hash, TRUE, tip) THEN UNCHANGED extras ELSE Extra
  /\ pos' = pos + 1
  /\ UNCHANGED <<world, tip, db, cache, pc, height, stage, journal>>

\* The node does not return the block: it is skipped, the momentum goes on.
SkipBlock ==
  /\ pc = "queue" /\ pos < Len(Content(height))
  /\ Extra
  /\ pos' = pos + 1
  /\ UNCHANGED <<world, tip, db, cache, pc, height, batch, stage, journal>>

\* The blocks whose addresses' balances are read: none of the genesis momentum's, and
\* none when there are many.
Asked(h) == IF h > 1 /\ Len(Content(h)) < BalanceLimit THEN DOMAIN Content(h) ELSE {}

\* One group of statements per such block: the address's balances, capped, as of the
\* frontier of the node asked then, not as of the momentum.  at[i] = 0: they cannot be
\* read.
updateBalances(h, at) ==
  LET Address(i)  == world.blocks[Content(h)[i]].address
      Balances(i) == AccountInfo(Address(i), at[i])
  IN [i \in Asked(h) |->
        [kind |-> "balance", address |-> Address(i), asOf |-> at[i],
         info |-> IF at[i] = 0 THEN <<>>
                  ELSE [t \in DOMAIN Balances(i) |-> safeBigIntToInt64(Balances(i)[t])]]]

MomentumItem(h) ==
  [kind |-> "momentum", txs |-> Len(Content(h)), producer |-> world.chain[h].producer,
   owner |-> getPillarInfoForProducer(db, world.chain[h].producer, h)]

\* The balances of the i-th block are read from a node at the frontier at[i].
QueueMomentum ==
  /\ pc = "queue" /\ pos = Len(Content(height))
  /\ \E at \in [Asked(height) -> Frontiers \cup {0}] :
       /\ Extras(Cardinality({i \in Asked(height) : at[i] # tip}))
       /\ batch' = batch \o updateBalances(height, at) \o <<MomentumItem(height)>>
  /\ pc' = "exec" /\ pos' = 0 /\ stage' = db
  /\ UNCHANGED <<world, tip, db, cache, height, journal>>

ExecItem ==
  /\ pc = "exec" /\ pos < Len(batch)
  /\ ~OutOfRange(Execute(stage, batch[pos + 1], height))
  /\ stage' = Execute(stage, batch[pos + 1], height)
  /\ pos' = pos + 1
  /\ UNCHANGED <<world, tip, db, cache, pc, height, batch, journal, extras>>

Idle == pc' = "idle" /\ height' = 0 /\ pos' = 0 /\ batch' = <<>> /\ stage' = EmptyDB

\* Any failed statement, or the commit itself, rolls the whole momentum back.
Rollback ==
  /\ pc = "exec"
  /\ IF pos < Len(batch) /\ OutOfRange(Execute(stage, batch[pos + 1], height))
       THEN UNCHANGED extras ELSE Extra
  /\ Idle
  /\ UNCHANGED <<world, tip, db, cache, journal>>

\* What the committed momentum was built from.
ItemOf(q) == [hash |-> q.hash, pair |-> q.paired.hash, owner |-> q.pillarOwner,
              voter |-> q.voter]
BalancesRead == {i \in DOMAIN batch : batch[i].kind = "balance" /\ batch[i].info # <<>>}
Entry ==
  [height |-> height,
   items |-> {ItemOf(batch[i]) : i \in {i \in DOMAIN batch : batch[i].kind = "block"}},
   readings |-> [i \in BalancesRead |->
                   [address |-> batch[i].address, asOf |-> batch[i].asOf]]]

Commit ==
  /\ pc = "exec" /\ pos = Len(batch)
  /\ db' = stage
  /\ journal' = Append(journal, Entry)
  /\ Idle
  /\ UNCHANGED <<world, tip, cache, extras>>

\* The process stops: what is not committed and the cache are gone.
Crash ==
  /\ Extra
  /\ cache' = <<>>
  /\ Idle
  /\ UNCHANGED <<world, tip, db, journal>>

LedgerNext ==
  \/ NodeAdvance
  \/ \E h \in 1..tip : ProcessMomentum(h)
  \/ \E lookup \in BOOLEAN : \E n \in Frontiers \cap height..tip : FetchBlock(lookup, n)
  \/ SkipBlock
  \/ QueueMomentum
  \/ ExecItem
  \/ Rollback
  \/ Commit

=============================================================================
