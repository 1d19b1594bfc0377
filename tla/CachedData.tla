---------------------------- MODULE CachedData ----------------------------
(***************************************************************************)
(* The writers beside processMomentum: updateCachedData, which copies the  *)
(* node's pillars, sentinels, accelerator projects and swap assets into the*)
(* tables and publishes the pillar cache, and the cron jobs, which derive  *)
(* figures from the tables.  Both run while momentums are processed: a list*)
(* is fetched, then its rows are written one statement at a time, so the   *)
(* list may be older than the momentums committed in between.              *)
(*                                                                         *)
(* updatePillarCache is run by sync() alone and by the refresh loop as the *)
(* first part of updateCachedData; here one of them runs at a time.        *)
(***************************************************************************)
EXTENDS Ledger

CONSTANTS
  PageSize,      \* sentinelPageSize, projectPageSize
  DayLength      \* momentums of one day

ASSUME CachedDataAssumption ==
  PageSize \in Nat \ {0} /\ DayLength \in Nat \ {0}

\* A sequence, of whatever it holds.
IsSequence(s) == s \in Seq({s[i] : i \in DOMAIN s})

\* The node has the four lists at every height; rank, registration and creation
\* are numbers.
ASSUME ListsAssumption ==
  \A w \in Worlds : \A h \in DOMAIN w.chain :
    /\ IsSequence(w.pillars[h]) /\ IsSequence(w.sentinels[h])
    /\ IsSequence(w.projects[h]) /\ IsSequence(w.assets[h])
    /\ \A i \in DOMAIN w.pillars[h] : w.pillars[h][i].rank \in Int
    /\ \A i \in DOMAIN w.sentinels[h] : w.sentinels[h][i].registered \in Int
    /\ \A i \in DOMAIN w.projects[h] : w.projects[h][i].created \in Int

VARIABLES
  refresh,   \* the list being copied, or "idle"
  full,      \* updateCachedData, not only updatePillarCache
  fetched,   \* the list, or its page, was fetched
  list,      \* its rows
  row,       \* rows written, with everything that belongs to them
  sub,       \* statements of the next row written: a project has one per phase too
  page       \* page index

refreshVars == <<refresh, full, fetched, list, row, sub, page>>
cachedVars == <<ledgerVars, refreshVars>>

-----------------------------------------------------------------------------
(* updatePillarCache and updateCachedData *)

Paged == {"sentinels", "projects"}
After == [pillars |-> "sentinels", sentinels |-> "projects", projects |-> "assets",
          assets |-> "idle"]

\* What a node at frontier n answers: world has the four lists as of each height.
NodeList(what, n) ==
  CASE what = "pillars"   -> world.pillars[n]
    [] what = "sentinels" -> world.sentinels[n]
    [] what = "projects"  -> world.projects[n]
    [] what = "assets"    -> world.assets[n]

PageOf(what, i, n) ==
  LET all  == NodeList(what, n)
      last == (i + 1) * PageSize
  IN IF what \in Paged
       THEN SubSeq(all, i * PageSize + 1, IF last < Len(all) THEN last ELSE Len(all))
       ELSE all

PhasesOf(what, r) == IF what = "projects" THEN r.phases ELSE <<>>

\* The k-th statement of the row r: a project's own is followed by its phases'.
StoreRow(d, what, r, k) ==
  CASE what = "pillars"   -> [d EXCEPT !.pillars = PillarUpsert(@, r)]
    [] what = "sentinels" -> [d EXCEPT !.sentinels = SentinelUpsert(@, r.owner, r.registered,
                                                                         r.active)]
    [] what = "projects"  ->
         IF k = 0
           THEN [d EXCEPT !.projects = ProjectUpsert(@, r.id, getVotingID(r.id), r.created,
                                                     r.status)]
           ELSE LET p == r.phases[k]
                IN [d EXCEPT !.phases = ProjectPhaseUpsert(@, p.id, r.id, getVotingID(p.id),
                                                           p.created, p.status)]
    [] what = "assets"    -> [d EXCEPT !.assets = UpsertAsset(@, r.key,
                                [c \in Flows |-> safeBigIntToInt64(r.left[c])])]

StartList(what) ==
  refresh' = what /\ fetched' = FALSE /\ list' = <<>> /\ row' = 0 /\ sub' = 0 /\ page' = 0

StartRefresh(all) ==
  /\ refresh = "idle"
  /\ Extra
  /\ StartList("pillars")
  /\ full' = all
  /\ UNCHANGED <<world, tip, db, cache, processing, journal>>

\* The list, or its next page, from a node that may be behind.
FetchList(n) ==
  /\ refresh # "idle" /\ ~fetched
  /\ fetched' = TRUE /\ list' = PageOf(refresh, page, n) /\ row' = 0 /\ sub' = 0
  /\ IF list' = PageOf(refresh, page, tip) THEN UNCHANGED extras ELSE Extra
  /\ UNCHANGED <<world, tip, db, cache, processing, journal, refresh, full, page>>

\* Without pillars the pass is given up; any other list is left for the next.
FetchFails ==
  /\ refresh # "idle" /\ ~fetched
  /\ Extra
  /\ StartList(IF refresh = "pillars" THEN "idle" ELSE After[refresh])
  /\ UNCHANGED <<world, tip, db, cache, processing, journal, full>>

\* A statement that fails is logged and left out.
WriteRow(ok) ==
  /\ pc # "exec"
  /\ fetched /\ row < Len(list)
  /\ IF sub < Len(PhasesOf(refresh, list[row + 1]))
       THEN row' = row /\ sub' = sub + 1
       ELSE row' = row + 1 /\ sub' = 0
  /\ IF ok THEN db' = StoreRow(db, refresh, list[row + 1], sub) /\ UNCHANGED extras
           ELSE Extra /\ UNCHANGED db
  /\ UNCHANGED <<world, tip, cache, processing, journal, refresh, full, fetched,
                 list, page>>

Names(l) == {l[i].name : i \in DOMAIN l}

\* The cache is replaced as a whole, by the list that was fetched.
PublishPillars ==
  /\ refresh = "pillars" /\ fetched /\ row = Len(list)
  /\ cache' = [n \in Names(list) |->
                 list[CHOOSE i \in DOMAIN list : list[i].name = n].owner]
  /\ StartList(IF full THEN After["pillars"] ELSE "idle")
  /\ UNCHANGED <<world, tip, db, processing, journal, extras, full>>

\* A full page is followed by the next one, a short one by the next list.
PageDone ==
  /\ refresh # "pillars" /\ fetched /\ row = Len(list)
  /\ IF refresh \in Paged /\ Len(list) = PageSize
       THEN /\ fetched' = FALSE /\ list' = <<>> /\ row' = 0 /\ sub' = 0 /\ page' = page + 1
            /\ UNCHANGED refresh
       ELSE StartList(After[refresh])
  /\ UNCHANGED <<ledgerVars, full>>

-----------------------------------------------------------------------------
(* cron.go: the day of the momentum at the frontier stands for today *)

Day(ts) == (ts - 1) \div DayLength
Today(ts) == ts # Null /\ Day(ts) = Day(tip)

\* The owners the cache holds: the jobs loop over GetPillars.
GetPillars == {cache[n] : n \in DOMAIN cache}

\* One statement of a job; the tables are read by statements just before it.
Cron(d) ==
  /\ pc # "exec"
  /\ Extra
  /\ db' = d
  /\ UNCHANGED <<world, tip, cache, processing, journal, refreshVars>>

runVotingActivity(owner) ==
  LET since    == GetSpawnTimestampByOwner(db.pillars, owner)
      projects == ProjectIDsCreatedAtOrAfter(db.projects, since)
      phases   == PhaseIDsCreatedAtOrAfter(db.phases, since)
      voted    == GetVoteCountForProjects(db.votes, owner, projects)
                    + GetVoteCountForPhases(db.votes, owner, phases)
  IN /\ owner \in DOMAIN db.pillars
     /\ Cron([db EXCEPT !.pillars = UpdateVotingActivity(@, owner, voted,
                                      Cardinality(projects) + Cardinality(phases))])

runTokenHolderCounts(token) ==
  Cron([db EXCEPT !.tokens = UpdateHolderCount(@, token, GetHolderCount(db.balances, token))])

snapshotNetworkStats ==
  LET Active(a) == db.accounts[a].active
      Txs(hs)   == MapThenSumSet(LAMBDA h : db.momentums[h].txs, hs)
      stat == [totalTx |-> Txs(DOMAIN db.momentums),
               dailyTx |-> Txs({h \in DOMAIN db.momentums : Today(h)}),
               addresses |-> Cardinality(DOMAIN db.accounts),
               newAddresses |-> Cardinality({a \in DOMAIN db.accounts : Today(Active(a).first)}),
               activeAddresses |-> Cardinality({a \in DOMAIN db.accounts : Today(Active(a).last)}),
               tokens |-> Cardinality(DOMAIN db.tokens),
               stakes |-> Cardinality(DOMAIN db.stakes),
               newStakes |-> Cardinality({x \in DOMAIN db.stakes : Today(db.stakes[x].started)}),
               fusions |-> Cardinality(DOMAIN db.fusions),
               newFusions |-> Cardinality({x \in DOMAIN db.fusions : Today(db.fusions[x].height)}),
               pillars |-> Cardinality({o \in DOMAIN db.pillars : ~db.pillars[o].revoked}),
               sentinels |-> Cardinality({o \in DOMAIN db.sentinels : db.sentinels[o].active})]
  IN Cron([db EXCEPT !.stats = Put(@, <<"network", Day(tip), "">>, stat)])

SumDailyMintsBurns(token) ==
  LET Sum(t) == MapThenSumSet(LAMBDA x : t[x].amount,
                              {x \in DOMAIN t : t[x].token = token /\ Today(t[x].ts)})
  IN <<Sum(db.mints), Sum(db.burns)>>

snapshotTokenStats(token) ==
  LET t == db.tokens[token]
  IN Cron([db EXCEPT !.stats = Put(@, <<"token", Day(tip), token>>,
             [daily |-> SumDailyMintsBurns(token), supply |-> t.supply,
              holders |-> t.holders, txs |-> t.txs])])

\* counted = FALSE: the count fails, and the snapshot says there are none.
snapshotPillarStats(owner, counted) ==
  Cron([db EXCEPT !.stats = Put(@, <<"pillar", Day(tip), owner>>,
          [delegators |-> IF counted THEN CountActiveByPillar(db.delegations, owner) ELSE 0])])

-----------------------------------------------------------------------------
CachedInit ==
  /\ LedgerInit
  /\ refresh = "idle" /\ full = FALSE /\ fetched = FALSE /\ list = <<>> /\ row = 0 /\ sub = 0 /\ page = 0

\* Everything in memory is lost.
Restart ==
  /\ Crash
  /\ StartList("idle") /\ full' = FALSE

CachedNext ==
  \/ LedgerNext /\ UNCHANGED refreshVars
  \/ \E all \in BOOLEAN : StartRefresh(all)
  \/ \E n \in Frontiers : FetchList(n)
  \/ FetchFails
  \/ \E ok \in BOOLEAN : WriteRow(ok)
  \/ PublishPillars
  \/ PageDone
  \/ \E o \in GetPillars : runVotingActivity(o)
  \/ \E t \in DOMAIN db.tokens : runTokenHolderCounts(t)
  \/ snapshotNetworkStats
  \/ \E t \in DOMAIN db.tokens : snapshotTokenStats(t)
  \/ \E o \in GetPillars : \E counted \in BOOLEAN : snapshotPillarStats(o, counted)
  \/ Restart

=============================================================================
