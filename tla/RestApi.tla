------------------------------ MODULE RestApi ------------------------------
(***************************************************************************)
(* The voting report and the REST endpoints over the tables of the ledger. *)
(* A request has page, size and sort as ParsePagination and ParseSort read *)
(* them, and the flag `all` for include_inactive / include_revoked.  A     *)
(* request that names nothing (an empty path parameter) is refused before  *)
(* the tables are read and is left out.                                    *)
(***************************************************************************)
EXTENDS Queries

\* writeRepoError: pgx.ErrNoRows.
NotFound == [status |-> 404]
OK(body) == [status |-> 200, body |-> body]

GetItem(t, k) == IF k \in DOMAIN t THEN OK(t[k]) ELSE NotFound

-----------------------------------------------------------------------------
(* vote.go: who a vote is counted for *)

ActivePillars(d) == {o \in DOMAIN d.pillars : ~d.pillars[o].revoked}

loadActivePillarNames(d) == {d.pillars[o].name : o \in ActivePillars(d)}

loadPhaseMetas(d, project) == {[id |-> x, votingID |-> d.phases[x].votingID] :
                                 x \in PhasesByProject(d, project)}

\* Mutant: votes are counted for owners only.
CreditedToOwner(d, k) == {k[1]} \cap ActivePillars(d)

\* An active owner votes for himself; else the pillar the producer address had
\* at the vote's height; only when it had none, the one that has it now.
CreditedTo(d, k) ==
  LET hist == GetInfoAtHeightByProducer(d.updates, k[1], d.votes[k].height)
      now  == {o \in ActivePillars(d) : d.pillars[o].producer = k[1]}
  IN CASE k[1] \in ActivePillars(d) -> {k[1]}
       [] k[1] \notin ActivePillars(d) /\ hist # "" -> {hist} \cap ActivePillars(d)
       [] OTHER -> {o \in now : \A p \in now : d.pillars[o].rank <= d.pillars[p].rank}

\* The pillars counted for a voting id.  Two rows of one pillar, cast by name
\* and by producer, overwrite each other in no fixed order: both votes are kept.
loadVotesByVotingID(d, votingID) ==
  LET voted == {k \in DOMAIN d.votes : k[2] = votingID /\ CreditedTo(d, k) # {}}
      Names(k) == {d.pillars[o].name : o \in CreditedTo(d, k)}
  IN [n \in UNION {Names(k) : k \in voted} |-> {d.votes[k].vote : k \in {k \in voted : n \in Names(k)}}]

SetNoVote(byPillar, names) == names \ DOMAIN byPillar

Tally(d, votingID) ==
  LET byPillar == loadVotesByVotingID(d, votingID)
  IN [votingID |-> votingID, byPillar |-> byPillar,
      noVote |-> SetNoVote(byPillar, loadActivePillarNames(d))]

ProjectVotingReport(d, project) ==
  [activePillars |-> Cardinality(ActivePillars(d)),
   tallies |-> {Tally(d, v) : v \in {d.projects[project].votingID} \cup
                                     {m.votingID : m \in loadPhaseMetas(d, project)}}]

PillarVotingHistory(d, owner) ==
  {k \in DOMAIN d.votes :
     LET hist == GetInfoAtHeightByProducer(d.updates, k[1], d.votes[k].height)
     IN \/ k[1] = owner
        \/ hist = owner
        \/ k[1] = d.pillars[owner].producer /\ hist = ""}

-----------------------------------------------------------------------------
(* dto/voting_report.go *)

VoteCodeToString(code) ==
  CASE code = 0 -> "yes" [] code = 1 -> "no" [] code = 2 -> "abstain" [] OTHER -> "unknown"

\* A code outside the enum is in none of the lists.
FromProposalTally(t) ==
  [v \in {"yes", "no", "abstain", "noVote"} |->
     IF v = "noVote" THEN t.noVote
     ELSE {n \in DOMAIN t.byPillar : \E c \in t.byPillar[n] : VoteCodeToString(c) = v}]

FromPillarVotingHistory(d, ks) ==
  [total |-> Cardinality(ks),
   votes |-> {[votingID |-> k[2], vote |-> VoteCodeToString(d.votes[k].vote)] : k \in ks}]

-----------------------------------------------------------------------------
(* handlers *)

MomentumsList(d, req) == MomentumList(d, ParsePagination(req), ParseSort(req, "desc"))
MomentumsLatest(d) == LET h == GetLatest(d) IN IF h = {} THEN NotFound ELSE OK(h)
MomentumsGetByHeight(d, h) == GetItem(d.momentums, h)
\* 200 with zeroes while the table is empty.
Status(d) ==
  OK([latest |-> IF GetLatest(d) = {} THEN 0 ELSE CHOOSE h \in GetLatest(d) : TRUE])

AccountBlocksGet(d, hash) == GetItem(d.blocks, hash)
AccountBlocksByAddress(d, a, req) ==
  AccountBlockListByAddress(d, a, ParsePagination(req), ParseSort(req, "desc"))

AccountsGet(d, a) == GetItem(d.accounts, a)
AccountsBalances(d, a) == OK(BalanceListByAddress(d, a))

TokensList(d, req) == TokenList(d, ParsePagination(req))
TokensHolders(d, t, req) == BalanceListByToken(d, t, ParsePagination(req))

PillarsList(d, req) == PillarList(d, req.all, ParsePagination(req))
PillarsGetByName(d, n) == IF GetByName(d, n) = {} THEN NotFound ELSE OK(GetByName(d, n))
PillarsDelegators(d, n, req) ==
  LET owner == CHOOSE o \in GetByName(d, n) : TRUE
  IN IF PillarsGetByName(d, n) = NotFound THEN NotFound
     ELSE OK(ListDelegators(d, owner, ParsePagination(req)))
PillarsVotingHistory(d, n) ==
  LET owner == CHOOSE o \in GetByName(d, n) : TRUE
  IN IF GetByName(d, n) = {} THEN NotFound
     ELSE OK(FromPillarVotingHistory(d, PillarVotingHistory(d, owner)))
SentinelsList(d, req) == SentinelList(d, ~req.all, ParsePagination(req))

ProjectsList(d, req) == ProjectList(d, ParsePagination(req))
ProjectsGet(d, id) == GetItem(d.projects, id)
ProjectsPhases(d, id) == OK(PhasesByProject(d, id))
ProjectsVotes(d, id, req) == VoteListByProject(d, id, ParsePagination(req))
projectVotingReportToDTO(r) ==
  [activePillars |-> r.activePillars,
   tallies |-> {[votingID |-> t.votingID, shown |-> FromProposalTally(t)] : t \in r.tallies}]
ProjectsVotingReport(d, id) ==
  IF id \in DOMAIN d.projects THEN OK(projectVotingReportToDTO(ProjectVotingReport(d, id)))
                              ELSE NotFound

StakesList(d, req) == StakeList(d, ~req.all, ParsePagination(req))
StakesByAddress(d, a, req) == StakeListByAddress(d, a, ~req.all, ParsePagination(req))
FusionsList(d, req) == FusionList(d, ~req.all, ParsePagination(req))
FusionsByAddress(d, a, req) == FusionListByAddress(d, a, ~req.all, ParsePagination(req))
RewardsCumulative(d, a) == OK(CumulativeByAddress(d, a))
RewardsHistory(d, a, req) == HistoryByAddress(d, a, ParsePagination(req))

=============================================================================
