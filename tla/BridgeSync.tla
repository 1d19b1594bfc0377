----------------------------- MODULE BridgeSync -----------------------------
(***************************************************************************)
(* The bridge synchronisation: runBridgeSyncLoop and syncBridgeData of     *)
(* internal/indexer/indexer.go against a node whose requests and           *)
(* configuration change under it.                                          *)
(*                                                                         *)
(* A pass brings the wrap requests, the unwrap requests and then the       *)
(* configuration up to date.  Requests are paged newest first down to a    *)
(* stop height; every row is upserted by a statement of its own, and a     *)
(* statement or a call that fails is logged and passed over.  The process  *)
(* may stop between any two statements.                                    *)
(*                                                                         *)
(* Request i of a kind is the i-th the node has accepted.                  *)
(***************************************************************************)
EXTENDS BridgeTables

CONSTANTS
  Budgets,     \* bound: how many requests of a kind, changes of the configuration,
               \* and failed calls, failed statements and crashes there are
  RecipientOf, \* number of a request -> its to_address
  Confs,       \* confirmations_to_finality of a new wrap request
  Config,      \* version -> the node's bridge configuration
  PageLen,     \* requests per page (100 in the code)
  NetPageLen   \* networks per page (50 in the code)

ASSUME BridgeAssumption ==
  /\ \A b \in Budgets : b \in [{"wrap", "unwrap", "config", "faults"} -> Nat]
  /\ Confs \in Nat \ {0} /\ PageLen \in Nat \ {0} /\ NetPageLen \in Nat \ {0}

\* The node lists every network once.
ASSUME ConfigAssumption ==
  /\ \A b \in Budgets : 0..b["config"] \subseteq DOMAIN Config
  /\ \A v \in DOMAIN Config :
       LET nets == Config[v].networks IN
       /\ nets \in Seq({nets[i] : i \in DOMAIN nets})
       /\ \A i, j \in DOMAIN nets : nets[i].id = nets[j].id => i = j

VARIABLES
  budget,   \* the member of Budgets this behaviour has
  node,     \* kind -> the node's requests, oldest first
  version,  \* of the node's configuration
  stored,   \* kind -> table of requests
  tables,   \* the tables of the configuration
  pass,     \* where the loop is, and its local variables
  faults,   \* how much has gone wrong
  clean,    \* nothing has in this part of the pass (history)
  mark      \* what there was when it started (history)

nodeVars == <<budget, node, version>>
history  == <<faults, clean, mark>>
vars     == <<nodeVars, stored, tables, pass, history>>

NoTables ==
  [admin |-> <<>>, security |-> <<>>, guardians |-> <<>>, orchestrator |-> <<>>,
   networks |-> <<>>, tokens |-> <<>>, challenges |-> <<>>]

\* rows: of the page, still to be upserted; hit: reachedStopHeight; todo:
\* names still to be upserted; soft, adm: the delays; keep: as in the code.
NoPass ==
  [at |-> "idle", kind |-> "wrap", stop |-> 0, index |-> 0, rows |-> <<>>, short |-> FALSE,
   hit |-> FALSE, nets |-> <<>>, todo |-> {}, soft |-> 0, adm |-> 0, list |-> <<>>,
   keep |-> {}]

NoMark == [list |-> <<>>, newest |-> 0, open |-> {}, version |-> 0]

Init ==
  /\ budget \in Budgets
  /\ node = [k \in Kinds |-> <<>>] /\ version = 0
  /\ stored = [k \in Kinds |-> <<>>] /\ tables = NoTables
  /\ pass = NoPass /\ faults = 0 /\ clean = TRUE /\ mark = NoMark

-----------------------------------------------------------------------------
(***************************************************************************)
(* The node                                                                *)
(***************************************************************************)

LastHeight(list) == IF list = <<>> THEN 0 ELSE list[Len(list)].height

NewRow(kind, height, to) ==
  IF kind = "wrap" THEN [height |-> height, to |-> to, confs |-> Confs]
  ELSE [height |-> height, to |-> to, redeemed |-> FALSE, revoked |-> FALSE]

\* A momentum carries n more requests of a kind.
NewRequests(kind, n) ==
  LET have == Len(node[kind])
      height == LastHeight(node[kind]) + 1
  IN
  /\ have + n <= budget[kind]
  /\ node' = [node EXCEPT ![kind] =
       @ \o [j \in 1..n |-> NewRow(kind, height, RecipientOf[have + j])]]
  /\ UNCHANGED <<budget, version, stored, tables, pass, history>>

\* A wrap gains a confirmation; an unwrap is redeemed or revoked.
Progress(kind, i) ==
  /\ ~Final(kind, node[kind][i])
  /\ \/ /\ kind = "wrap"
        /\ node' = [node EXCEPT ![kind][i].confs = @ - 1]
     \/ kind = "unwrap" /\ node' = [node EXCEPT ![kind][i].redeemed = TRUE]
     \/ kind = "unwrap" /\ node' = [node EXCEPT ![kind][i].revoked = TRUE]
  /\ UNCHANGED <<budget, version, stored, tables, pass, history>>

Reconfigure ==
  /\ version < budget["config"]
  /\ version' = version + 1
  /\ UNCHANGED <<budget, node, stored, tables, pass, history>>

\* Page index of the requests, newest first, as the node has them now.
GetAllRequests(kind, index) ==
  LET n == Len(node[kind])
      first == n - index * PageLen
      Max0(x) == IF x > 0 THEN x ELSE 0
  IN [j \in 1..(Max0(first) - Max0(first - PageLen)) |->
        [id |-> first - j + 1, row |-> node[kind][first - j + 1]]]

GetAllNetworks(index) ==
  LET all == Config[version].networks
      last == (index + 1) * NetPageLen
  IN SubSeq(all, index * NetPageLen + 1, IF last < Len(all) THEN last ELSE Len(all))

-----------------------------------------------------------------------------
(***************************************************************************)
(* A pass                                                                  *)
(***************************************************************************)

\* A call or a statement succeeds or, within the bound, fails.
Fault == faults < budget["faults"] /\ faults' = faults + 1

FirstOutcome(ok) ==
  /\ clean' = ok
  /\ IF ok THEN faults' = faults ELSE Fault

Outcome(ok) ==
  /\ clean' = (clean /\ ok)
  /\ IF ok THEN faults' = faults ELSE Fault

At(step) == pass' = [NoPass EXCEPT !.at = step]

\* The start of the loop, a tick, or the start after a crash.
runBridgeSyncLoop ==
  /\ pass.at = "idle"
  /\ At("stop")
  /\ UNCHANGED <<nodeVars, stored, tables, history>>

\* What syncBridgeData does after a part, failed or not.
NextPart ==
  IF pass.kind = "wrap" THEN [NoPass EXCEPT !.at = "stop", !.kind = "unwrap"]
  ELSE [NoPass EXCEPT !.at = "config"]

\* updateBridgeWrapRequests, updateBridgeUnwrapRequests: the stop height, ...
ReadStopHeight(ok) ==
  LET t == stored[pass.kind] IN
  /\ pass.at = "stop"
  /\ FirstOutcome(ok)
  /\ IF ok
     THEN /\ pass' = [pass EXCEPT !.at = "fetch", !.stop = SyncStopHeight(pass.kind, t)]
          /\ mark' = [NoMark EXCEPT !.list = node[pass.kind], !.newest = NewestKnown(t),
                        !.open = {i \in DOMAIN t : ~Final(pass.kind, t[i])}]
     ELSE pass' = NextPart /\ mark' = NoMark
  /\ UNCHANGED <<nodeVars, stored, tables>>

\* Mutant: an empty page does not end the loop.
FetchPageForever(ok) ==
  LET page == GetAllRequests(pass.kind, pass.index) IN
  /\ pass.at = "fetch"
  /\ Outcome(ok)
  /\ IF ~ok THEN pass' = NextPart
     ELSE IF page = <<>> THEN pass' = [pass EXCEPT !.index = @ + 1]
     ELSE pass' = [pass EXCEPT !.at = "rows", !.rows = page,
                     !.short = Len(page) < PageLen, !.hit = FALSE]
  /\ mark' = IF pass' = NextPart THEN NoMark ELSE mark
  /\ UNCHANGED <<nodeVars, stored, tables>>

\* ... a page, ...
FetchPage(ok) ==
  LET page == GetAllRequests(pass.kind, pass.index) IN
  /\ pass.at = "fetch"
  /\ Outcome(ok)
  /\ pass' = IF ~ok \/ page = <<>> THEN NextPart
             ELSE [pass EXCEPT !.at = "rows", !.rows = page,
                     !.short = Len(page) < PageLen, !.hit = FALSE]
  /\ mark' = IF pass' = NextPart THEN NoMark ELSE mark
  /\ UNCHANGED <<nodeVars, stored, tables>>

\* Mutant: a full page is taken for the last one.
PageDoneAtOnce(hit) == hit \/ Len(GetAllRequests(pass.kind, pass.index)) <= PageLen

\* After the last row of a page: the stop height is reached, or there is no
\* other page.
PageDone(hit) == hit \/ pass.short

\* ... and its rows.  One whose upsert fails still counts against the stop
\* height.
UpsertRequest(ok) ==
  LET r == Head(pass.rows)
      hit == pass.hit \/ (pass.stop > 0 /\ r.row.height <= pass.stop)
  IN
  /\ pass.at = "rows"
  /\ Outcome(ok)
  /\ stored' = IF ok THEN [stored EXCEPT ![pass.kind] = Upsert(pass.kind, @, r.id, r.row)]
               ELSE stored
  /\ pass' = IF Len(pass.rows) > 1 THEN [pass EXCEPT !.rows = Tail(@), !.hit = hit]
             ELSE IF PageDone(hit) THEN NextPart
             ELSE [pass EXCEPT !.at = "fetch", !.index = @ + 1, !.rows = <<>>,
                     !.hit = FALSE, !.short = FALSE]
  /\ mark' = IF pass' = NextPart THEN NoMark ELSE mark
  /\ UNCHANGED <<nodeVars, tables>>

-----------------------------------------------------------------------------
(***************************************************************************)
(* updateBridgeConfig                                                      *)
(***************************************************************************)

\* now: a second that no earlier pass has used, or a fault.
ReadClock(moved) ==
  LET g == tables.guardians IN
  /\ pass.at = "config"
  /\ FirstOutcome(moved)
  /\ tables' = IF moved THEN [tables EXCEPT !.guardians =
                                [x \in DOMAIN g |-> [g[x] EXCEPT !.stamp = "older"]]]
               ELSE tables
  /\ mark' = [NoMark EXCEPT !.version = version]
  /\ At("admin")
  /\ UNCHANGED <<nodeVars, stored>>

\* GetBridgeInfo and its row; one or the other may fail.
UpdateAdmin(ok) ==
  /\ pass.at = "admin"
  /\ Outcome(ok)
  /\ tables' = IF ok THEN [tables EXCEPT !.admin = UpsertAdmin(@, Config[version].admin)]
               ELSE tables
  /\ At("security")
  /\ UNCHANGED <<nodeVars, stored, mark>>

\* GetSecurityInfo: without it the delays stay 0 and no guardian is touched.
GetSecurityInfoFails ==
  /\ pass.at = "security"
  /\ Outcome(FALSE)
  /\ At("orchestrator")
  /\ UNCHANGED <<nodeVars, stored, tables, mark>>

UpdateSecurity(ok) ==
  LET c == Config[version] IN
  /\ pass.at = "security"
  /\ Outcome(ok)
  /\ tables' = IF ok THEN [tables EXCEPT !.security =
                             UpsertSecurityInfo(@, [soft |-> c.soft, adm |-> c.adm])]
               ELSE tables
  /\ pass' = [NoPass EXCEPT !.at = "guardians", !.soft = c.soft, !.adm = c.adm,
                !.list = <<c.nominated, c.voted>>, !.todo = c.nominated \cup c.voted]
  /\ UNCHANGED <<nodeVars, stored, mark>>

\* The guardians of a map, in any order, ...
UpdateGuardian(g, ok) ==
  /\ pass.at = "guardians"
  /\ Outcome(ok)
  /\ tables' = IF ok THEN [tables EXCEPT !.guardians =
                             UpsertGuardian(@, g, g \in pass.list[1], g \in pass.list[2])]
               ELSE tables
  /\ pass' = [pass EXCEPT !.todo = @ \ {g}]
  /\ UNCHANGED <<nodeVars, stored, mark>>

\* ... then those that were not among them.
SweepGuardians(ok) ==
  /\ pass.at = "guardians" /\ pass.todo = {}
  /\ Outcome(ok)
  /\ tables' = IF ok THEN [tables EXCEPT !.guardians = MarkGuardiansAbsent(@)] ELSE tables
  /\ pass' = [pass EXCEPT !.at = "orchestrator", !.list = <<>>]
  /\ UNCHANGED <<nodeVars, stored, mark>>

UpdateOrchestrator(ok) ==
  /\ pass.at = "orchestrator"
  /\ Outcome(ok)
  /\ tables' = IF ok THEN [tables EXCEPT !.orchestrator =
                             UpsertOrchestratorInfo(@, Config[version].orchestrator)]
               ELSE tables
  /\ pass' = [pass EXCEPT !.at = "networks"]
  /\ UNCHANGED <<nodeVars, stored, mark>>

ToChallenges == [pass EXCEPT !.at = "challenges", !.index = 0, !.nets = <<>>, !.todo = {},
                   !.short = FALSE]

FetchNetworks(ok) ==
  LET page == GetAllNetworks(pass.index) IN
  /\ pass.at = "networks"
  /\ Outcome(ok)
  /\ pass' = IF ~ok \/ page = <<>> THEN ToChallenges
             ELSE [pass EXCEPT !.at = "network", !.nets = page,
                     !.short = Len(page) < NetPageLen]
  /\ UNCHANGED <<nodeVars, stored, tables, mark>>

\* To the next network of the page, the next page, or the next part.
NetworkDone ==
  IF Len(pass.nets) > 1 THEN [pass EXCEPT !.at = "network", !.nets = Tail(@), !.todo = {}]
  ELSE IF pass.short THEN ToChallenges
  ELSE [pass EXCEPT !.at = "networks", !.nets = <<>>, !.index = @ + 1, !.todo = {}]

\* A network; the token pairs of one that fails are skipped.
UpdateNetwork(ok) ==
  LET n == Head(pass.nets) IN
  /\ pass.at = "network"
  /\ Outcome(ok)
  /\ tables' = IF ok THEN [tables EXCEPT !.networks = UpsertNetwork(@, n.id, n.row)]
               ELSE tables
  /\ pass' = IF ~ok \/ DOMAIN n.tokens = {} THEN NetworkDone
             ELSE [pass EXCEPT !.at = "tokens", !.todo = DOMAIN n.tokens]
  /\ UNCHANGED <<nodeVars, stored, mark>>

UpdateNetworkToken(token, ok) ==
  LET n == Head(pass.nets) IN
  /\ pass.at = "tokens"
  /\ Outcome(ok)
  /\ tables' = IF ok THEN [tables EXCEPT !.tokens =
                             UpsertNetworkToken(@, n.id, token, safeBigIntToInt64(n.tokens[token]))]
               ELSE tables
  /\ pass' = IF pass.todo = {token} THEN NetworkDone ELSE [pass EXCEPT !.todo = @ \ {token}]
  /\ UNCHANGED <<nodeVars, stored, mark>>

GetTimeChallengesInfo(ok) ==
  LET list == Config[version].challenges IN
  /\ pass.at = "challenges"
  /\ Outcome(ok)
  /\ pass' = IF ok THEN [pass EXCEPT !.at = "challenge", !.list = list, !.todo = DOMAIN list]
             ELSE NoPass
  /\ mark' = IF ok THEN mark ELSE NoMark
  /\ UNCHANGED <<nodeVars, stored, tables>>

AdminMethods == {"ChangeAdministrator", "NominateGuardians"}

DelayOf(method, soft, adm) == IF method \in AdminMethods THEN adm ELSE soft

UpdateTimeChallenge(m, ok) ==
  /\ pass.at = "challenge"
  /\ Outcome(ok)
  /\ tables' = IF ok THEN [tables EXCEPT !.challenges =
                             UpsertTimeChallenge(@, m, pass.list[m], DelayOf(m, pass.soft, pass.adm))]
               ELSE tables
  /\ pass' = [pass EXCEPT !.todo = @ \ {m}, !.keep = IF ok THEN @ \cup {m} ELSE @]
  /\ UNCHANGED <<nodeVars, stored, mark>>

PruneTimeChallenges(ok) ==
  /\ pass.at = "challenge" /\ pass.todo = {}
  /\ Outcome(ok)
  /\ tables' = IF ok THEN [tables EXCEPT !.challenges =
                             DeleteTimeChallengesNotIn(@, pass.keep)]
               ELSE tables
  /\ pass' = NoPass /\ mark' = NoMark
  /\ UNCHANGED <<nodeVars, stored>>

-----------------------------------------------------------------------------

\* The process stops; its next start begins with a pass.
Crash ==
  /\ pass.at # "idle"
  /\ Fault
  /\ pass' = NoPass /\ clean' = FALSE /\ mark' = NoMark
  /\ UNCHANGED <<nodeVars, stored, tables>>

Pass ==
  \/ runBridgeSyncLoop
  \/ \E ok \in BOOLEAN :
       \/ ReadStopHeight(ok) \/ FetchPage(ok) \/ UpsertRequest(ok)
       \/ ReadClock(ok) \/ UpdateAdmin(ok) \/ UpdateSecurity(ok)
       \/ \E g \in pass.todo : UpdateGuardian(g, ok)
       \/ SweepGuardians(ok) \/ UpdateOrchestrator(ok)
       \/ FetchNetworks(ok) \/ UpdateNetwork(ok)
       \/ \E token \in pass.todo : UpdateNetworkToken(token, ok)
       \/ GetTimeChallengesInfo(ok)
       \/ \E m \in pass.todo : UpdateTimeChallenge(m, ok)
       \/ PruneTimeChallenges(ok)
  \/ GetSecurityInfoFails

Node ==
  \/ \E kind \in Kinds :
       \/ \E n \in 1..budget[kind] : NewRequests(kind, n)
       \/ \E i \in DOMAIN node[kind] : Progress(kind, i)
  \/ Reconfigure

Next == Node \/ Pass \/ Crash

\* The ticker keeps the loop going.  Nothing is assumed of the node.
Spec == Init /\ [][Next]_vars /\ WF_vars(Pass)
-----------------------------------------------------------------------------
(***************************************************************************)
(* Properties                                                              *)
(***************************************************************************)

Steps == {"idle", "stop", "fetch", "rows", "config", "admin", "security", "guardians",
          "orchestrator", "networks", "network", "tokens", "challenges", "challenge"}

\* The request and page counters keep their range: a pass never asks for a
\* page beyond the first empty one, and stores no request the node never had.
TypeOK ==
  /\ pass.at \in Steps /\ pass.kind \in Kinds
  /\ pass.stop \in 0..LastHeight(node[pass.kind])
  /\ pass.at \in {"fetch", "rows"} =>
       pass.index \in 0..(Len(node[pass.kind]) \div PageLen)
  /\ \A k \in Kinds : DOMAIN stored[k] \subseteq DOMAIN node[k]
  /\ \A k \in Kinds : \A i \in DOMAIN stored[k] :
       stored[k][i].height = node[k][i].height /\ stored[k][i].to = node[k][i].to
  /\ faults \in 0..budget["faults"] /\ clean \in BOOLEAN

Alone(list, i) == \A j \in DOMAIN list \ {i} : list[j].height # list[i].height

\* t holds every request of from that is newer than all that was known, and
\* what was final is final in t, for those and for each open request that
\* shares its height with no other.
Refreshed(kind, from, t) ==
  \A i \in DOMAIN from.list :
    LET new == from.list[i].height > from.newest IN
    /\ new => i \in DOMAIN t
    /\ new \/ (i \in from.open /\ Alone(from.list, i)) =>
         (Final(kind, from.list[i]) => Final(kind, t[i]))

\* c is what the configuration tables show.
ConfigShown(c, t) ==
  /\ t.admin = <<c.admin>> /\ t.orchestrator = <<c.orchestrator>>
  /\ t.security = <<[soft |-> c.soft, adm |-> c.adm]>>
  /\ {g \in DOMAIN t.guardians : t.guardians[g].nominated} = c.nominated
  /\ {g \in DOMAIN t.guardians : t.guardians[g].accepted} = c.voted
  /\ \A j \in DOMAIN c.networks :
       LET n == c.networks[j] IN
       /\ n.id \in DOMAIN t.networks /\ t.networks[n.id] = n.row
       /\ \A token \in DOMAIN n.tokens :
            /\ <<n.id, token>> \in DOMAIN t.tokens
            /\ t.tokens[<<n.id, token>>] = safeBigIntToInt64(n.tokens[token])
  /\ DOMAIN t.challenges = DOMAIN c.challenges
  /\ \A m \in DOMAIN c.challenges :
       t.challenges[m].end = c.challenges[m] + DelayOf(m, c.soft, c.adm) + 1

\* A part of a pass in which nothing failed leaves its tables as fresh as the
\* node was when it started, although requests arrive and shift the pages,
\* statements of earlier passes have failed, and the configuration is read by
\* five calls.  (A configuration that changed meanwhile is left to the next
\* pass; a request that shares its height with another may be cut off by the
\* page.)
CleanPartRefreshes ==
  [][/\ pass.at \in {"fetch", "rows"} /\ pass' = NextPart /\ clean'
          => Refreshed(pass.kind, mark, stored'[pass.kind])
     /\ pass.at = "challenge" /\ pass'.at = "idle" /\ clean' /\ version = mark.version
          => ConfigShown(Config[version], tables')]_vars

\* All that the pages of the REST lists may show, for everyone or an address.
Reported(kind) ==
  UNION {(IF kind = "wrap" THEN BridgeWraps(stored[kind], [page |-> n, size |-> 0])
          ELSE BridgeUnwraps(stored[kind], [page |-> n, size |-> 0])).shown.may :
           n \in 1..(Cardinality(DOMAIN stored[kind]) + 1)}

ReportedTo(kind, a) ==
  UNION {(IF kind = "wrap" THEN BridgeWrapsByAddress(stored[kind], a, [page |-> n, size |-> 0])
          ELSE BridgeUnwrapsByAddress(stored[kind], a, [page |-> n, size |-> 0])).shown.may :
           n \in 1..(Cardinality(DOMAIN stored[kind]) + 1)}

NoThreeShare(list) ==
  \A i \in DOMAIN list : i + 2 \in DOMAIN list => list[i].height # list[i + 2].height

\* As long as nothing has ever failed, the requests listed between two passes
\* have no hole: everything older than a listed request is listed, and listed
\* under its recipient.  (Of three requests of one height the pages of a pass may
\* reach the first, and the next pass stop at the third.)
NoHoles ==
  \A k \in Kinds :
    faults = 0 /\ NoThreeShare(node[k]) /\ ~(pass.kind = k /\ pass.at \in {"fetch", "rows"}) =>
      \A i \in DOMAIN node[k] :
        (\E j \in Reported(k) : i <= j) =>
          i \in Reported(k) /\ i \in ReportedTo(k, node[k][i].to)

\* However calls and statements fail and the process crashes, once the node is
\* quiet the tables settle on what it has: a request stored while it was open
\* is stored as final when the node has finalized it, unless another shares its
\* height, and the configuration is the node's.
Settled ==
  /\ \A k \in Kinds : \A i \in DOMAIN stored[k] :
       Final(k, node[k][i]) /\ Alone(node[k], i) => Final(k, stored[k][i])
  /\ ConfigShown(Config[version], tables)

Converges == <>[]Settled
=============================================================================
