------------------------------ MODULE Queries ------------------------------
(***************************************************************************)
(* The read side: the list and lookup statements of internal/repository    *)
(* and the REST handlers over them (internal/api/handlers, httpx, dto).    *)
(* d is the database a request reads.                                      *)
(*                                                                         *)
(* ORDER BY a column that is not unique leaves rows of one value in any    *)
(* order, a different one for each request.  A page is therefore given by  *)
(* two sets: the rows that may be on it and those that must be.            *)
(***************************************************************************)
EXTENDS Repository

CONSTANTS DefaultPageSize, MaxPageSize

ASSUME PageSizeAssumption ==
  /\ DefaultPageSize \in Nat \ {0} /\ MaxPageSize \in Nat
  /\ DefaultPageSize <= MaxPageSize

-----------------------------------------------------------------------------
(* httpx/query.go and list.go *)

\* A request: 0 stands for a page or a size that is absent or no number.
ParsePagination(req) ==
  [page |-> IF req.page > 0 THEN req.page ELSE 1,
   size |-> CASE req.size <= 0          -> DefaultPageSize
              [] req.size > MaxPageSize -> MaxPageSize
              [] OTHER                  -> req.size]

\* Mutant: pages counted from 0.
OffsetFromZero(p) == p.page * p.size

Offset(p) == (p.page - 1) * p.size

ParseSort(req, def) == IF req.sort \in {"asc", "desc"} THEN req.sort ELSE def

\* The sign of the sort key: anything but "asc" is descending.
orderClause(sort) == IF sort = "asc" THEN 1 ELSE -1

\* COUNT(*) of the separate statement's own WHERE.
fallbackCount(rows) == Cardinality(rows)

\* LIMIT size OFFSET offset of rows ordered by key.
Slice(rows, key, p) ==
  LET First(x) == Cardinality({y \in rows : key[y] < key[x]})
      Last(x)  == Cardinality({y \in rows : key[y] <= key[x]}) - 1
      lo == Offset(p)   hi == Offset(p) + p.size - 1
  IN [may  |-> {x \in rows : First(x) <= hi /\ Last(x) >= lo},
      must |-> {x \in rows : First(x) >= lo /\ Last(x) <= hi}]

NewPage(rows, key, p, total) ==
  [rows |-> rows, shown |-> Slice(rows, key, p), page |-> p.page, size |-> p.size, total |-> total]

\* COUNT(*) OVER () travels with the rows; an empty page beyond the first one
\* asks again.
Counted(rows, key, p, counted) ==
  NewPage(rows, key, p,
          IF Slice(rows, key, p).may # {} THEN Cardinality(rows)
          ELSE IF Offset(p) > 0 THEN fallbackCount(counted) ELSE 0)

Desc(rows, K(_)) == [x \in rows |-> -K(x)]
Asc(rows, K(_))  == [x \in rows |-> K(x)]

-----------------------------------------------------------------------------
(* momentums, account_blocks, accounts, balances, tokens *)

\* MAX(height) as total: an upper bound where heights are missing.
MomentumList(d, p, sort) ==
  LET rows == DOMAIN d.momentums
  IN NewPage(rows, [h \in rows |-> orderClause(sort) * h], p,
             IF rows = {} THEN 0 ELSE CHOOSE h \in rows : \A g \in rows : g <= h)

MomentumListByProducer(d, producer, p, sort) ==
  LET rows == {h \in DOMAIN d.momentums : d.momentums[h].producer = producer}
  IN Counted(rows, [h \in rows |-> orderClause(sort) * h], p,
             {h \in DOMAIN d.momentums : d.momentums[h].producer = producer})

GetLatest(d) ==
  {h \in DOMAIN d.momentums : \A g \in DOMAIN d.momentums : g <= h}

AccountBlockListByAddress(d, a, p, sort) ==
  LET rows == {x \in DOMAIN d.blocks : d.blocks[x].address = a \/ d.blocks[x].to = a}
  IN NewPage(rows, [x \in rows |-> orderClause(sort) * d.blocks[x].height], p,
             Row(d.accounts, a, Account).txCount)

BalanceListByAddress(d, a) == {k \in DOMAIN d.balances : k[1] = a}

BalanceListByToken(d, token, p) ==
  LET rows == {k \in DOMAIN d.balances : k[2] = token /\ d.balances[k] > 0}
  IN Counted(rows, Desc(rows, LAMBDA k : d.balances[k]), p,
             {k \in DOMAIN d.balances : k[2] = token /\ d.balances[k] > 0})

\* The token standard breaks ties; a fixed order is among those allowed here.
TokenList(d, p) ==
  Counted(DOMAIN d.tokens, Desc(DOMAIN d.tokens, LAMBDA t : d.tokens[t].holders), p,
          DOMAIN d.tokens)

-----------------------------------------------------------------------------
(* stakes, fusions, htlcs, swap_retrievals, rewards *)

StakeList(d, activeOnly, p) ==
  LET rows == {x \in DOMAIN d.stakes : activeOnly => d.stakes[x].active}
  IN Counted(rows, Desc(rows, LAMBDA x : d.stakes[x].started), p, rows)

StakeListByAddress(d, a, activeOnly, p) ==
  LET rows == {x \in DOMAIN d.stakes :
                 d.stakes[x].address = a /\ (activeOnly => d.stakes[x].active)}
  IN Counted(rows, Desc(rows, LAMBDA x : d.stakes[x].started), p, rows)

FusionList(d, activeOnly, p) ==
  LET rows == {x \in DOMAIN d.fusions : activeOnly => d.fusions[x].active}
  IN Counted(rows, Desc(rows, LAMBDA x : d.fusions[x].height), p, rows)

FusionListByAddress(d, a, activeOnly, p) ==
  LET rows == {x \in DOMAIN d.fusions :
                 /\ d.fusions[x].address = a \/ d.fusions[x].beneficiary = a
                 /\ activeOnly => d.fusions[x].active}
  IN Counted(rows, Desc(rows, LAMBDA x : d.fusions[x].height), p, rows)

HtlcList(d, p) ==
  Counted(DOMAIN d.htlcs, Desc(DOMAIN d.htlcs, LAMBDA x : d.htlcs[x].created), p, DOMAIN d.htlcs)

ListRetrievals(d, p) ==
  Counted(DOMAIN d.retrievals, Desc(DOMAIN d.retrievals, LAMBDA x : d.retrievals[x].height), p,
          DOMAIN d.retrievals)

CumulativeByAddress(d, a) == {k \in DOMAIN d.cumulative : k[1] = a}

HistoryByAddress(d, a, p) ==
  LET rows == {x \in DOMAIN d.rewards : d.rewards[x].address = a}
  IN Counted(rows, Desc(rows, LAMBDA x : d.rewards[x].height), p,
             {x \in DOMAIN d.rewards : d.rewards[x].address = a})

-----------------------------------------------------------------------------
(* pillars, sentinels, projects, votes *)

PillarList(d, includeRevoked, p) ==
  LET rows == {o \in DOMAIN d.pillars : includeRevoked \/ ~d.pillars[o].revoked}
  IN Counted(rows, Asc(rows, LAMBDA o : d.pillars[o].rank), p, rows)

\* The owners of pillars that go by the name; the statement takes one of them.
GetByName(d, name) == {o \in DOMAIN d.pillars : d.pillars[o].name = name}

ListDelegators(d, owner, p) ==
  LET rows == {a \in DOMAIN d.accounts : d.accounts[a].delegate = owner}
  IN Counted(rows, Asc(rows, LAMBDA a : d.accounts[a].since), p,
             {a \in DOMAIN d.accounts : d.accounts[a].delegate = owner})

SentinelList(d, activeOnly, p) ==
  LET rows == {o \in DOMAIN d.sentinels : activeOnly => d.sentinels[o].active}
  IN Counted(rows, Desc(rows, LAMBDA o : d.sentinels[o].registered), p, rows)

ProjectList(d, p) ==
  Counted(DOMAIN d.projects, Desc(DOMAIN d.projects, LAMBDA x : d.projects[x].created), p,
          DOMAIN d.projects)

PhasesByProject(d, project) == {x \in DOMAIN d.phases : d.phases[x].project = project}

VoteListByProject(d, project, p) ==
  LET rows == {k \in DOMAIN d.votes : d.votes[k].project = project}
  IN Counted(rows, Desc(rows, LAMBDA k : d.votes[k].height), p,
             {k \in DOMAIN d.votes : d.votes[k].project = project})

=============================================================================
