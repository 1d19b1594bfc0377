---------------------------- MODULE BridgeTables ----------------------------
(***************************************************************************)
(* The bridge's tables: the statements of internal/repository/bridge.go    *)
(* and bridge_config.go, and the four REST lists over the requests         *)
(* (internal/api/handlers/bridge.go).  t is the table a statement works on.*)
(*                                                                         *)
(* A wrap request is [height, to, confs], an unwrap request [height, to,   *)
(* redeemed, revoked]: the columns that say where it is and whether it may *)
(* still change.  A table with one row (row_id = 1) is a function on a     *)
(* subset of {1}.                                                          *)
(***************************************************************************)
EXTENDS Queries

-----------------------------------------------------------------------------
(* wrap_token_requests and unwrap_token_requests *)

UpsertWrapRequest(t, i, w) ==
  Put(t, i, [Row(t, i, w) EXCEPT !.confs = w.confs])

UpsertUnwrapRequest(t, i, u) ==
  Put(t, i, [Row(t, i, u) EXCEPT !.redeemed = u.redeemed, !.revoked = u.revoked])

IsWrapRequestFinalized(w) == w.confs = 0

IsUnwrapRequestFinalized(u) == u.redeemed \/ u.revoked

Kinds == {"wrap", "unwrap"}

Upsert(kind, t, i, row) ==
  IF kind = "wrap" THEN UpsertWrapRequest(t, i, row) ELSE UpsertUnwrapRequest(t, i, row)

Final(kind, row) ==
  IF kind = "wrap" THEN IsWrapRequestFinalized(row) ELSE IsUnwrapRequestFinalized(row)

HeightsOf(t, S) == {t[i].height : i \in S}
Oldest(S) == CHOOSE h \in S : \A g \in S : h <= g
Newest(S) == CHOOSE h \in S : \A g \in S : g <= h

\* ORDER BY height DESC LIMIT 1 over all rows; 0 without one.
NewestKnown(t) == IF DOMAIN t = {} THEN 0 ELSE Newest(HeightsOf(t, DOMAIN t))

GetWrapSyncStopHeight(t) ==
  LET open == {i \in DOMAIN t : t[i].confs > 0}
  IN IF open # {} THEN Oldest(HeightsOf(t, open)) ELSE NewestKnown(t)

GetUnwrapSyncStopHeight(t) ==
  LET open == {i \in DOMAIN t : ~t[i].redeemed /\ ~t[i].revoked}
  IN IF open # {} THEN Oldest(HeightsOf(t, open)) ELSE NewestKnown(t)

\* Mutant: the newest known height, open requests or not.
SyncStopHeightNewest(kind, t) == NewestKnown(t)

SyncStopHeight(kind, t) ==
  IF kind = "wrap" THEN GetWrapSyncStopHeight(t) ELSE GetUnwrapSyncStopHeight(t)

-----------------------------------------------------------------------------
(* The lists of requests *)

ListWraps(t, p) ==
  LET rows == DOMAIN t
  IN Counted(rows, Desc(rows, LAMBDA i : t[i].height), p, rows)

ListWrapsByAddress(t, a, p) ==
  LET rows == {i \in DOMAIN t : t[i].to = a}
  IN Counted(rows, Desc(rows, LAMBDA i : t[i].height), p, rows)

ListUnwraps(t, p) ==
  LET rows == DOMAIN t
  IN Counted(rows, Desc(rows, LAMBDA i : t[i].height), p, rows)

ListUnwrapsByAddress(t, a, p) ==
  LET rows == {i \in DOMAIN t : t[i].to = a}
  IN Counted(rows, Desc(rows, LAMBDA i : t[i].height), p, rows)

BridgeWraps(t, req)              == ListWraps(t, ParsePagination(req))
BridgeWrapsByAddress(t, a, req)  == ListWrapsByAddress(t, a, ParsePagination(req))
BridgeUnwraps(t, req)            == ListUnwraps(t, ParsePagination(req))
BridgeUnwrapsByAddress(t, a, req) == ListUnwrapsByAddress(t, a, ParsePagination(req))

-----------------------------------------------------------------------------
(* The cached configuration *)

UpsertNetwork(t, n, row) == Put(t, n, row)
UpsertNetworkToken(t, n, token, row) == Put(t, <<n, token>>, row)
UpsertAdmin(t, row) == Put(t, 1, row)
UpsertOrchestratorInfo(t, row) == Put(t, 1, row)
UpsertSecurityInfo(t, row) == Put(t, 1, row)

\* last_updated_timestamp matters only against the current pass: stamp says
\* whether it is this pass's now.
UpsertGuardian(t, g, nominated, accepted) ==
  Put(t, g, [nominated |-> nominated, accepted |-> accepted, stamp |-> "now"])

MarkGuardiansAbsent(t) ==
  [g \in DOMAIN t |-> IF t[g].stamp = "now" THEN t[g]
                      ELSE [t[g] EXCEPT !.nominated = FALSE, !.accepted = FALSE]]

UpsertTimeChallenge(t, method, start, delay) ==
  Put(t, method, [start |-> start, delay |-> delay, end |-> start + delay + 1])

\* Mutant: an empty keep set is taken for "nothing to delete".
DeleteTimeChallengesNotInEmpty(t, keep) ==
  IF keep = {} THEN t ELSE [m \in DOMAIN t \cap keep |-> t[m]]

DeleteTimeChallengesNotIn(t, keep) == [m \in DOMAIN t \cap keep |-> t[m]]

=============================================================================
