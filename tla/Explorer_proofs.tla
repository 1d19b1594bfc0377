-------------------------- MODULE Explorer_proofs --------------------------
(***************************************************************************)
(* Proofs about the tables: whatever chain the node serves, in whatever    *)
(* order its momentums are processed, skipped, repeated or rolled back and *)
(* whatever lists a refresh copies meanwhile, delegations agree, nothing   *)
(* that is over is reopened, paired blocks name each other, rows refer to  *)
(* rows that exist and balances are of the last reading.  And of those who *)
(* read them: pages leave nothing out while rows are added, totals are the *)
(* numbers of rows, and the voting report agrees with the histories.       *)
(*                                                                         *)
(* The argument is per statement, then per group of statements, then per   *)
(* transaction.  `Fine` is what every image of the tables satisfies, the   *)
(* committed one and the one a transaction is building; NothingReopens is  *)
(* a preorder, so the steps of a transaction add up to one step of the     *)
(* committed tables.                                                       *)
(***************************************************************************)
EXTENDS Explorer, NatOrder, FiniteSetTheorems, SequenceTheorems, TLAPS

-----------------------------------------------------------------------------
(* The columns the statements below read and write *)

\* The columns a proof needs of the rows of each table.
LockRows(t) == \A x \in DOMAIN t : "active" \in DOMAIN t[x]
HtlcRows(t) == \A x \in DOMAIN t : "status" \in DOMAIN t[x]
AccountRows(t) == \A a \in DOMAIN t : "delegate" \in DOMAIN t[a]
DelegationRow(r) == {"delegator", "pillar", "started", "ended"} \subseteq DOMAIN r
PillarRows(t) ==
  \A o \in DOMAIN t : /\ {"revoked", "votes", "votable"} \subseteq DOMAIN t[o]
                      /\ t[o].votes <= t[o].votable

\* The delegations as a sequence of rows.
DelegationRows(s) == IsSequence(s) /\ \A i \in DOMAIN s : DelegationRow(s[i])

-----------------------------------------------------------------------------
(* What each statement does to what is over *)

\* INSERT ... ON CONFLICT DO NOTHING and UPDATE ... SET active = FALSE.
LEMMA StakeStatements ==
  ASSUME NEW t, LockRows(t), NEW k, NEW a, NEW c, NEW ts
  PROVE  /\ LockRows(StakeInsert(t, k, a, c, ts))
         /\ Inactive(t) \subseteq Inactive(StakeInsert(t, k, a, c, ts))
         /\ LockRows(StakeSetInactive(t, c, a))
         /\ Inactive(t) \subseteq Inactive(StakeSetInactive(t, c, a))
BY DEF LockRows, Inactive, StakeInsert, StakeSetInactive, InsertOrIgnore, Put

\* Neither inserting nor cancelling a fusion reopens one.
LEMMA FusionStatements ==
  ASSUME NEW t, LockRows(t), NEW k, NEW a, NEW b, NEW c, NEW h
  PROVE  /\ LockRows(FusionInsert(t, k, a, b, c, h))
         /\ Inactive(t) \subseteq Inactive(FusionInsert(t, k, a, b, c, h))
         /\ LockRows(FusionSetInactive(t, c, a))
         /\ Inactive(t) \subseteq Inactive(FusionSetInactive(t, c, a))
BY DEF LockRows, Inactive, FusionInsert, FusionSetInactive, InsertOrIgnore, Put

\* The refresh inserts a sentinel once; its flag is only ever cleared.
LEMMA SentinelStatements ==
  ASSUME NEW t, LockRows(t), NEW o, NEW r, NEW b
  PROVE  /\ LockRows(SentinelUpsert(t, o, r, b))
         /\ Inactive(t) \subseteq Inactive(SentinelUpsert(t, o, r, b))
         /\ LockRows(SentinelSetInactive(t, o))
         /\ Inactive(t) \subseteq Inactive(SentinelSetInactive(t, o))
BY DEF LockRows, Inactive, SentinelUpsert, SentinelSetInactive, InsertOrIgnore, Put

\* A settlement replaces a settlement, by something other than "active".
LEMMA HtlcStatements ==
  ASSUME NEW t, HtlcRows(t), NEW k, NEW ts, NEW new, "status" \in DOMAIN new,
         NEW s, s # "active"
  PROVE  /\ HtlcRows(HtlcInsert(t, k, new))
         /\ Settled(t) \subseteq Settled(HtlcInsert(t, k, new))
         /\ HtlcRows(HtlcSettle(t, k, s, ts))
         /\ Settled(t) \subseteq Settled(HtlcSettle(t, k, s, ts))
BY DEF HtlcRows, Settled, HtlcInsert, HtlcSettle, InsertOrIgnore, Put

\* The columns of a new pillar row.
LEMMA NewPillar ==
  ASSUME NEW t, PillarRows(t), NEW o, NEW n
  PROVE  LET r == Row(t, o, Pillar(n))
         IN /\ {"revoked", "votes", "votable"} \subseteq DOMAIN r /\ r.votes <= r.votable
            /\ o \in DOMAIN t => r = t[o]
<1>1. CASE o \in DOMAIN t
  BY <1>1 DEF Row, PillarRows
<1>2. CASE o \notin DOMAIN t
  <2>1. Row(t, o, Pillar(n)) = Pillar(n)
    BY <1>2 DEF Row
  <2>2. /\ {"revoked", "votes", "votable"} \subseteq DOMAIN Pillar(n)
        /\ Pillar(n).votes = 0 /\ Pillar(n).votable = 0
    BY DEF Pillar
  <2> QED  BY <1>2, <2>1, <2>2
<1> QED  BY <1>1, <1>2

\* The list of a refresh overwrites revokedAt and never the flag.
LEMMA PillarUpsertStatement ==
  ASSUME NEW t, PillarRows(t), NEW p
  PROVE  PillarRows(PillarUpsert(t, p)) /\ Revoked(t) \subseteq Revoked(PillarUpsert(t, p))
<1> DEFINE r == Row(t, p.owner, Pillar(p.name))
           s == [r EXCEPT !.name = p.name, !.rank = p.rank, !.producer = p.producer,
                          !.withdraw = p.withdraw, !.revokedAt = p.revokedAt]
           u == Put(t, p.owner, s)
<1>1. /\ {"revoked", "votes", "votable"} \subseteq DOMAIN r /\ r.votes <= r.votable
      /\ p.owner \in DOMAIN t => r = t[p.owner]
  BY NewPillar
<1>2. /\ DOMAIN s = DOMAIN r /\ s.revoked = r.revoked
      /\ s.votes = r.votes /\ s.votable = r.votable
  <2> HIDE DEF r
  <2> QED  BY <1>1
<1>3. PillarRows(u)
  <2> HIDE DEF s, r
  <2> QED  BY <1>1, <1>2 DEF PillarRows, Put
<1>4. Revoked(t) \subseteq Revoked(u)
  <2> HIDE DEF s, r
  <2> QED  BY <1>1, <1>2 DEF Revoked, Put
<1> QED  BY <1>3, <1>4 DEF PillarUpsert

\* Revoking a pillar reopens none.
LEMMA RevokeStatement ==
  ASSUME NEW t, PillarRows(t), NEW o, NEW n, NEW ts
  PROVE  /\ PillarRows(SetAsRevoked(t, o, n, ts))
         /\ Revoked(t) \subseteq Revoked(SetAsRevoked(t, o, n, ts))
<1> DEFINE r == Row(t, o, Pillar(n))
           s == [r EXCEPT !.revokedAt = ts, !.revoked = TRUE]
           u == Put(t, o, s)
<1>1. {"revoked", "votes", "votable"} \subseteq DOMAIN r /\ r.votes <= r.votable
  BY NewPillar
<1>2. DOMAIN s = DOMAIN r /\ s.revoked /\ s.votes = r.votes /\ s.votable = r.votable
  <2> HIDE DEF r
  <2> QED  BY <1>1
<1>3. PillarRows(u) /\ Revoked(t) \subseteq Revoked(u)
  <2> HIDE DEF s, r
  <2> QED  BY <1>1, <1>2 DEF PillarRows, Revoked, Put
<1> QED  BY <1>3 DEF SetAsRevoked

\* The UPDATEs of spawn columns, counters and voting activity keep the flag.
LEMMA PillarUpdates ==
  ASSUME NEW t, PillarRows(t), NEW o, NEW ts, NEW cost, NEW votes, NEW votable
  PROVE  /\ PillarRows(UpdateSpawnInfo(t, o, ts, cost))
         /\ Revoked(t) \subseteq Revoked(UpdateSpawnInfo(t, o, ts, cost))
         /\ PillarRows(IncrementMomentumCount(t, o))
         /\ Revoked(t) \subseteq Revoked(IncrementMomentumCount(t, o))
         /\ votes <= votable => PillarRows(UpdateVotingActivity(t, o, votes, votable))
         /\ Revoked(t) \subseteq Revoked(UpdateVotingActivity(t, o, votes, votable))
<1>1. PillarRows(UpdateSpawnInfo(t, o, ts, cost))
  BY DEF PillarRows, UpdateSpawnInfo
<1>2. Revoked(t) \subseteq Revoked(UpdateSpawnInfo(t, o, ts, cost))
  BY DEF PillarRows, Revoked, UpdateSpawnInfo
<1>3. PillarRows(IncrementMomentumCount(t, o))
  BY DEF PillarRows, IncrementMomentumCount
<1>4. Revoked(t) \subseteq Revoked(IncrementMomentumCount(t, o))
  BY DEF PillarRows, Revoked, IncrementMomentumCount
<1>5. votes <= votable => PillarRows(UpdateVotingActivity(t, o, votes, votable))
  BY DEF PillarRows, UpdateVotingActivity
<1>6. Revoked(t) \subseteq Revoked(UpdateVotingActivity(t, o, votes, votable))
  BY DEF PillarRows, Revoked, UpdateVotingActivity
<1> QED  BY <1>1, <1>2, <1>3, <1>4, <1>5, <1>6

-----------------------------------------------------------------------------
(* accounts and delegations *)

\* The statements of AccountWrites: rows are added, with no delegate, and those
\* there are keep theirs.
KeepsDelegates(t, u) ==
  /\ AccountRows(u)
  /\ DOMAIN t \subseteq DOMAIN u
  /\ \A a \in DOMAIN u :
       u[a].delegate = IF a \in DOMAIN t THEN t[a].delegate ELSE ""

\* Keeping the delegates is transitive.
LEMMA KeepsDelegatesTrans ==
  ASSUME NEW t, NEW u, NEW v, KeepsDelegates(t, u), KeepsDelegates(u, v)
  PROVE  KeepsDelegates(t, v)
BY DEF KeepsDelegates

\* A row made by an upsert of an unknown account has no delegate.
LEMMA NewAccount ==
  ASSUME NEW t, AccountRows(t), NEW a
  PROVE  LET r == Row(t, a, Account)
         IN /\ "delegate" \in DOMAIN r
            /\ r.delegate = IF a \in DOMAIN t THEN t[a].delegate ELSE ""
BY DEF Row, AccountRows, Account

\* Put of a row that has the delegate it had.
LEMMA PutAccount ==
  ASSUME NEW t, AccountRows(t), NEW a, NEW s,
         "delegate" \in DOMAIN s, s.delegate = Row(t, a, Account).delegate
  PROVE  KeepsDelegates(t, Put(t, a, s)) /\ a \in DOMAIN Put(t, a, s)
<1>1. s.delegate = IF a \in DOMAIN t THEN t[a].delegate ELSE ""
  BY NewAccount
<1> QED  BY <1>1 DEF KeepsDelegates, AccountRows, Put

\* The counters of an account are written without touching its delegate.
LEMMA AccountStatements ==
  ASSUME NEW t, AccountRows(t), NEW a, NEW h, NEW token, NEW amount, NEW ts
  PROVE  /\ KeepsDelegates(t, AccountUpsert(t, a, h)) /\ a \in DOMAIN AccountUpsert(t, a, h)
         /\ KeepsDelegates(t, AddSend(t, a, token, amount, ts))
         /\ KeepsDelegates(t, AddReceive(t, a, token, amount, ts))
         /\ KeepsDelegates(t, SetGenesisBalance(t, a, token, amount))
         /\ KeepsDelegates(t, BumpTxCount(t, a, ts)) /\ a \in DOMAIN BumpTxCount(t, a, ts)
<1> DEFINE r == Row(t, a, Account)
<1>0. "delegate" \in DOMAIN r
  BY NewAccount
<1> HIDE DEF r
<1>1. KeepsDelegates(t, AccountUpsert(t, a, h)) /\ a \in DOMAIN AccountUpsert(t, a, h)
  <2> DEFINE s == [r EXCEPT !.blockCount = h]
  <2>1. "delegate" \in DOMAIN s /\ s.delegate = r.delegate
    BY <1>0
  <2> HIDE DEF s
  <2>2. KeepsDelegates(t, Put(t, a, s)) /\ a \in DOMAIN Put(t, a, s)
    BY <2>1, PutAccount DEF r
  <2> QED  BY <2>2 DEF AccountUpsert, s, r
<1>2. KeepsDelegates(t, AddSend(t, a, token, amount, ts))
  <2> DEFINE s == [r EXCEPT !.sent = flowColumn(@, token, amount), !.active = Widen(@, ts)]
  <2>1. "delegate" \in DOMAIN s /\ s.delegate = r.delegate
    BY <1>0
  <2> HIDE DEF s
  <2>2. KeepsDelegates(t, Put(t, a, s))
    BY <2>1, PutAccount DEF r
  <2> QED  BY <2>2 DEF AddSend, s, r
<1>3. KeepsDelegates(t, AddReceive(t, a, token, amount, ts))
  <2> DEFINE s == [r EXCEPT !.received = flowColumn(@, token, amount), !.active = Widen(@, ts)]
  <2>1. "delegate" \in DOMAIN s /\ s.delegate = r.delegate
    BY <1>0
  <2> HIDE DEF s
  <2>2. KeepsDelegates(t, Put(t, a, s))
    BY <2>1, PutAccount DEF r
  <2> QED  BY <2>2 DEF AddReceive, s, r
<1>4. KeepsDelegates(t, SetGenesisBalance(t, a, token, amount))
  <2> DEFINE s == [r EXCEPT !.genesis[token] = amount]
  <2>1. "delegate" \in DOMAIN s /\ s.delegate = r.delegate
    BY <1>0
  <2> HIDE DEF s
  <2>2. KeepsDelegates(t, Put(t, a, s))
    BY <2>1, PutAccount DEF r
  <2>3. KeepsDelegates(t, t)
    BY DEF KeepsDelegates
  <2> QED  BY <2>2, <2>3 DEF SetGenesisBalance, s, r
<1>5. KeepsDelegates(t, BumpTxCount(t, a, ts)) /\ a \in DOMAIN BumpTxCount(t, a, ts)
  <2> DEFINE s == [r EXCEPT !.seen = Widen(@, ts), !.txCount = @ + 1]
  <2>1. "delegate" \in DOMAIN s /\ s.delegate = r.delegate
    BY <1>0
  <2> HIDE DEF s
  <2>2. KeepsDelegates(t, Put(t, a, s)) /\ a \in DOMAIN Put(t, a, s)
    BY <2>1, PutAccount DEF r
  <2> QED  BY <2>2 DEF BumpTxCount, s, r
<1> QED  BY <1>1, <1>2, <1>3, <1>4, <1>5

\* A sequence as a function on its positions.
LEMMA SequenceDomain ==
  ASSUME NEW s, IsSequence(s)
  PROVE  Len(s) \in Nat /\ DOMAIN s = 1..Len(s)
BY DEF IsSequence

\* A function on 1..n is a sequence.
LEMMA SequenceOf ==
  ASSUME NEW s, NEW n \in Nat, s = [i \in 1..n |-> s[i]]
  PROVE  IsSequence(s)
<1> DEFINE R == {s[i] : i \in DOMAIN s}
<1>1. DOMAIN s = 1..n
  OBVIOUS
<1>2. s \in [1..n -> R]
  BY <1>1
<1> QED  BY <1>2 DEF IsSequence

\* Every interval keeps its delegator and pillar; those that are open and the
\* delegator's end now, the others stay as they are.
Closes(c, s, a, ts) ==
  /\ DelegationRows(c) /\ DOMAIN c = DOMAIN s
  /\ \A i \in DOMAIN s :
       /\ c[i].delegator = s[i].delegator /\ c[i].pillar = s[i].pillar
       /\ IF s[i].delegator = a /\ s[i].ended = Null
            THEN c[i].ended = ts ELSE c[i] = s[i]

\* Closing ends the open delegations of one delegator and leaves the others.
LEMMA CloseStatement ==
  ASSUME NEW s, DelegationRows(s), NEW a, NEW ts
  PROVE  Closes(CloseActive(s, a, ts), s, a, ts)
<1> DEFINE c == CloseActive(s, a, ts)
           n == Len(s)
<1>0. n \in Nat /\ DOMAIN s = 1..n
  BY SequenceDomain DEF DelegationRows
<1>1. DOMAIN c = DOMAIN s /\ c = [i \in 1..n |-> c[i]]
  <2> HIDE DEF n
  <2> QED  BY <1>0 DEF CloseActive
<1>2. IsSequence(c)
  <2> HIDE DEF c, n
  <2> QED  BY <1>0, <1>1, SequenceOf
<1>3. ASSUME NEW i \in DOMAIN s
      PROVE  /\ DelegationRow(c[i])
             /\ c[i].delegator = s[i].delegator /\ c[i].pillar = s[i].pillar
             /\ IF s[i].delegator = a /\ s[i].ended = Null
                  THEN c[i].ended = ts ELSE c[i] = s[i]
  <2>1. DelegationRow(s[i])
    BY DEF DelegationRows
  <2>2. c[i] = IF s[i].delegator = a /\ s[i].ended = Null
                 THEN [s[i] EXCEPT !.ended = ts] ELSE s[i]
    BY DEF CloseActive
  <2> HIDE DEF c
  <2>3. CASE s[i].delegator = a /\ s[i].ended = Null
    <3>1. c[i] = [s[i] EXCEPT !.ended = ts]
      BY <2>2, <2>3
    <3> QED  BY <2>1, <2>3, <3>1 DEF DelegationRow
  <2>4. CASE ~(s[i].delegator = a /\ s[i].ended = Null)
    BY <2>1, <2>2, <2>4
  <2> QED  BY <2>3, <2>4
<1>4. DelegationRows(c)
  BY <1>1, <1>2, <1>3 DEF DelegationRows
<1> HIDE DEF c
<1>5. Closes(c, s, a, ts)
  BY <1>1, <1>3, <1>4 DEF Closes
<1> QED  BY <1>5 DEF c

\* One more interval, at n, is open.
Opens(o, s, n, a, p) ==
  /\ DelegationRows(o) /\ DOMAIN o = DOMAIN s \cup {n} /\ n \notin DOMAIN s
  /\ \A i \in DOMAIN s : o[i] = s[i]
  /\ o[n].delegator = a /\ o[n].pillar = p /\ o[n].ended = Null

\* Opening adds one open row at the end, and nothing else.
LEMMA OpenStatement ==
  ASSUME NEW s, DelegationRows(s), NEW a, NEW p, NEW ts
  PROVE  \E n : Opens(OpenDelegation(s, a, p, ts), s, n, a, p)
<1> DEFINE new == [delegator |-> a, pillar |-> p, started |-> ts, ended |-> Null]
           R == {s[i] : i \in DOMAIN s} \cup {new}
           o == Append(s, new)
           n == Len(s)
<1>0. n \in Nat /\ DOMAIN s = 1..n
  BY SequenceDomain DEF DelegationRows
<1>1. s \in Seq(R) /\ new \in R
  <2> HIDE DEF new
  <2>1. s \in Seq({s[i] : i \in DOMAIN s})
    BY DEF DelegationRows, IsSequence
  <2> QED  BY <2>1
<1>2. /\ DOMAIN o = 1..(n + 1) /\ o[n + 1] = new
      /\ \A i \in 1..n : o[i] = s[i]
      /\ o \in Seq(R)
  <2> HIDE DEF new, R
  <2> QED  BY <1>1
<1>3. o = [i \in 1..(n + 1) |-> o[i]]
  <2> HIDE DEF new, R, n, o
  <2>1. o \in [1..Len(o) -> R] /\ DOMAIN o = 1..Len(o)
    BY <1>2
  <2> QED  BY <1>2, <2>1
<1>4. IsSequence(o)
  <2> HIDE DEF o, n, new, R
  <2>1. n + 1 \in Nat
    BY <1>0
  <2> QED  BY <2>1, <1>3, SequenceOf
<1>5. DelegationRow(new) /\ new.delegator = a /\ new.pillar = p /\ new.ended = Null
  BY DEF DelegationRow
<1>6. DelegationRows(o)
  <2> SUFFICES ASSUME NEW i \in DOMAIN o PROVE DelegationRow(o[i])
    BY <1>4 DEF DelegationRows
  <2> HIDE DEF o, n, new, R
  <2>1. CASE i \in 1..n
    BY <1>0, <1>2, <2>1 DEF DelegationRows
  <2>2. CASE i = n + 1
    BY <1>2, <1>5, <2>2
  <2> QED  BY <1>0, <1>2, <2>1, <2>2
<1>7. OpenDelegation(s, a, p, ts) = o
  BY DEF OpenDelegation
<1>8. DOMAIN o = DOMAIN s \cup {n + 1} /\ n + 1 \notin DOMAIN s
  <2> HIDE DEF o, n, new, R
  <2> QED  BY <1>0, <1>2
<1>9. Opens(o, s, n + 1, a, p)
  <2> HIDE DEF o, n, new, R
  <2> QED  BY <1>0, <1>2, <1>5, <1>6, <1>8 DEF Opens
<1> QED  BY <1>7, <1>9

\* An UPDATE: no row is added, the address's own row gets the delegate.
Points(u, t, a, p) ==
  /\ AccountRows(u) /\ DOMAIN u = DOMAIN t
  /\ \A x \in DOMAIN t : u[x].delegate = IF x = a THEN p ELSE t[x].delegate

\* UpdateDelegate changes the delegate of one account.
LEMMA UpdateDelegateStatement ==
  ASSUME NEW t, AccountRows(t), NEW a, NEW p, NEW ts
  PROVE  Points(UpdateDelegate(t, a, p, ts), t, a, p)
BY DEF UpdateDelegate, AccountRows, Points

\* Ended intervals stay, as they are.
EndedStay(s, o) ==
  /\ Ended(s) \subseteq Ended(o)
  /\ \A i \in Ended(s) : o[i] = s[i]

\* Statements that keep the delegates keep accounts and delegations in agreement.
LEMMA KeptAgree ==
  ASSUME NEW t, NEW s, NEW u, DelegationsAgree(t, s), KeepsDelegates(t, u)
  PROVE  DelegationsAgree(u, s)
BY DEF DelegationsAgree, KeepsDelegates

\* Undelegate: the account's delegate is cleared with the interval it stood for.
LEMMA UndelegateAgree ==
  ASSUME NEW t, AccountRows(t), NEW s, DelegationRows(s), DelegationsAgree(t, s),
         NEW a, NEW ts, ts # Null
  PROVE  LET u == UpdateDelegate(t, a, "", Null)
             c == CloseActive(s, a, ts)
         IN DelegationRows(c) /\ EndedStay(s, c) /\ DelegationsAgree(u, c)
<1> DEFINE u == UpdateDelegate(t, a, "", Null)
           c == CloseActive(s, a, ts)
<1>1. Points(u, t, a, "")
  BY UpdateDelegateStatement
<1>2. Closes(c, s, a, ts)
  BY CloseStatement
<1> HIDE DEF u, c
<1>3. EndedStay(s, c)
  BY <1>2 DEF EndedStay, Ended, Closes
<1>4. ASSUME NEW i \in DOMAIN c, NEW j \in DOMAIN c,
             c[i].ended = Null, c[j].ended = Null, c[i].delegator = c[j].delegator
      PROVE  i = j
  <2>1. c[i] = s[i] /\ c[j] = s[j]
    BY <1>2, <1>4 DEF Closes
  <2> QED  BY <1>2, <1>4, <2>1 DEF DelegationsAgree, Closes
<1>5. ASSUME NEW x \in DOMAIN u, u[x].delegate # ""
      PROVE  \E i \in OpenIntervals(c, x) : c[i].pillar = u[x].delegate
  <2>1. x # a /\ x \in DOMAIN t /\ u[x].delegate = t[x].delegate
    BY <1>1, <1>5 DEF Points
  <2>2. PICK i \in OpenIntervals(s, x) : s[i].pillar = t[x].delegate
    BY <1>5, <2>1 DEF DelegationsAgree
  <2>3. i \in DOMAIN s /\ s[i].delegator = x /\ s[i].ended = Null
    BY DEF OpenIntervals
  <2>4. c[i] = s[i]
    BY <1>2, <2>1, <2>3 DEF Closes
  <2> QED  BY <1>2, <2>1, <2>2, <2>3, <2>4 DEF OpenIntervals, Closes
<1>6. DelegationsAgree(u, c)
  BY <1>4, <1>5 DEF DelegationsAgree
<1> QED  BY <1>2, <1>3, <1>6 DEF u, c, Closes

\* Delegate: the intervals the delegator had open end, one opens where the account
\* now points.
LEMMA DelegateAgree ==
  ASSUME NEW t, AccountRows(t), NEW s, DelegationRows(s), DelegationsAgree(t, s),
         NEW a, NEW p, NEW ts, ts # Null
  PROVE  LET u == UpdateDelegate(t, a, p, ts)
             o == OpenDelegation(CloseActive(s, a, ts), a, p, ts)
         IN DelegationRows(o) /\ EndedStay(s, o) /\ DelegationsAgree(u, o)
<1> DEFINE u == UpdateDelegate(t, a, p, ts)
           c == CloseActive(s, a, ts)
           o == OpenDelegation(c, a, p, ts)
<1>1. Points(u, t, a, p)
  BY UpdateDelegateStatement
<1>2. Closes(c, s, a, ts)
  BY CloseStatement
<1>3. PICK n : Opens(o, c, n, a, p)
  BY <1>2, OpenStatement DEF Closes, Closes
<1> HIDE DEF u, c, o
<1>4. EndedStay(s, o)
  BY <1>2, <1>3 DEF EndedStay, Ended, Closes, Opens
<1>5. ASSUME NEW i \in DOMAIN s, o[i].ended = Null
      PROVE  o[i] = s[i] /\ s[i].delegator # a
  BY <1>2, <1>3, <1>5 DEF Closes, Opens
<1>6. ASSUME NEW i \in DOMAIN o, NEW j \in DOMAIN o,
             o[i].ended = Null, o[j].ended = Null, o[i].delegator = o[j].delegator
      PROVE  i = j
  <2>1. CASE i \in DOMAIN s /\ j \in DOMAIN s
    <3>1. o[i] = s[i] /\ o[j] = s[j]
      BY <1>5, <1>6, <2>1
    <3> QED  BY <1>6, <2>1, <3>1 DEF DelegationsAgree
  <2>2. CASE i = n \/ j = n
    BY <1>2, <1>3, <1>5, <1>6, <2>2 DEF Closes, Opens
  <2> QED  BY <1>2, <1>3, <2>1, <2>2 DEF Closes, Opens
<1>7. ASSUME NEW x \in DOMAIN u, u[x].delegate # ""
      PROVE  \E i \in OpenIntervals(o, x) : o[i].pillar = u[x].delegate
  <2>1. CASE x = a
    <3>1. u[x].delegate = p
      BY <1>1, <2>1 DEF Points
    <3> QED  BY <1>3, <2>1, <3>1 DEF OpenIntervals, Opens
  <2>2. CASE x # a
    <3>1. x \in DOMAIN t /\ u[x].delegate = t[x].delegate
      BY <1>1, <2>2 DEF Points
    <3>2. PICK i \in OpenIntervals(s, x) : s[i].pillar = t[x].delegate
      BY <1>7, <3>1 DEF DelegationsAgree
    <3>3. i \in DOMAIN s /\ s[i].delegator = x /\ s[i].ended = Null
      BY DEF OpenIntervals
    <3>4. o[i] = s[i] /\ i \in DOMAIN o
      BY <1>2, <1>3, <2>2, <3>3 DEF Closes, Opens
    <3> QED  BY <3>1, <3>2, <3>3, <3>4 DEF OpenIntervals
  <2> QED  BY <2>1, <2>2
<1>8. DelegationsAgree(u, o)
  BY <1>6, <1>7 DEF DelegationsAgree
<1> QED  BY <1>3, <1>4, <1>8 DEF u, c, o, Opens

-----------------------------------------------------------------------------
(* Images of the tables *)

\* The tables, and for those with closed rows what a statement may do to them.
Tables == DOMAIN EmptyDB

\* The blocks that rewards, mints and burns are keyed by.
Events(d) == DOMAIN d.rewards \cup DOMAIN d.mints \cup DOMAIN d.burns

\* What every image of the tables satisfies.
Fine(d) ==
  /\ DOMAIN d = Tables
  /\ LockRows(d.stakes) /\ LockRows(d.fusions) /\ LockRows(d.sentinels)
  /\ HtlcRows(d.htlcs) /\ PillarRows(d.pillars) /\ AccountRows(d.accounts)
  /\ DelegationRows(d.delegations) /\ DelegationsAgree(d.accounts, d.delegations)
  /\ IsFiniteSet(DOMAIN d.projects) /\ IsFiniteSet(DOMAIN d.phases)

\* Rows keep their columns and closed rows stay closed, table by table.
LockStep(t, u) == LockRows(u) /\ Inactive(t) \subseteq Inactive(u)
HtlcStep(t, u) == HtlcRows(u) /\ Settled(t) \subseteq Settled(u)
PillarStep(t, u) == PillarRows(u) /\ Revoked(t) \subseteq Revoked(u)

\* What the statements queued for the contract call, the reward and the token of
\* one block do: the block and account rows are there already.
Writes(d, e, hash) ==
  /\ DOMAIN e = Tables
  /\ LockStep(d.stakes, e.stakes) /\ LockStep(d.fusions, e.fusions)
  /\ LockStep(d.sentinels, e.sentinels)
  /\ HtlcStep(d.htlcs, e.htlcs) /\ PillarStep(d.pillars, e.pillars)
  /\ AccountRows(e.accounts) /\ DOMAIN e.accounts = DOMAIN d.accounts
  /\ DelegationRows(e.delegations) /\ EndedStay(d.delegations, e.delegations)
  /\ DelegationsAgree(e.accounts, e.delegations)
  /\ e.blocks = d.blocks /\ e.momentums = d.momentums /\ e.balances = d.balances
  /\ e.projects = d.projects /\ e.phases = d.phases
  /\ Events(e) \subseteq Events(d) \cup {hash}

\* A group of statements that Writes keeps the tables fine and reopens nothing.
LEMMA WritesFine ==
  ASSUME NEW d, Fine(d), NEW e, NEW hash, Writes(d, e, hash)
  PROVE  Fine(e) /\ NothingReopens(d, e)
BY DEF Fine, Writes, NothingReopens, LockStep, HtlcStep, PillarStep, EndedStay

\* Two groups of one block make a group.
LEMMA WritesTrans ==
  ASSUME NEW d, NEW e, NEW f, NEW hash, Writes(d, e, hash), Writes(e, f, hash)
  PROVE  Writes(d, f, hash)
BY DEF Writes, LockStep, HtlcStep, PillarStep, EndedStay

\* Reopening nothing is transitive.
LEMMA NothingReopensTrans ==
  ASSUME NEW d, NEW e, NEW f, NothingReopens(d, e), NothingReopens(e, f)
  PROVE  NothingReopens(d, f)
BY DEF NothingReopens

\* The statements write the tables of F.
Only(d, e, F) == DOMAIN e = Tables /\ \A t \in Tables \ F : e[t] = d[t]

\* A group that writes the tables F leaves the others as they were.
LEMMA OnlyTables ==
  ASSUME NEW d, NEW e, NEW F, Only(d, e, F)
  PROVE  /\ DOMAIN e = Tables
         /\ "stakes" \notin F => e.stakes = d.stakes
         /\ "fusions" \notin F => e.fusions = d.fusions
         /\ "sentinels" \notin F => e.sentinels = d.sentinels
         /\ "htlcs" \notin F => e.htlcs = d.htlcs
         /\ "pillars" \notin F => e.pillars = d.pillars
         /\ "accounts" \notin F => e.accounts = d.accounts
         /\ "delegations" \notin F => e.delegations = d.delegations
         /\ "blocks" \notin F => e.blocks = d.blocks
         /\ "momentums" \notin F => e.momentums = d.momentums
         /\ "balances" \notin F => e.balances = d.balances
         /\ "projects" \notin F => e.projects = d.projects
         /\ "phases" \notin F => e.phases = d.phases
         /\ "rewards" \notin F => e.rewards = d.rewards
         /\ "mints" \notin F => e.mints = d.mints
         /\ "burns" \notin F => e.burns = d.burns
BY DEF Only, Tables, EmptyDB

\* It is enough to look at the tables that are written.
LEMMA OnlyWrites ==
  ASSUME NEW d, Fine(d), NEW e, NEW F, Only(d, e, F), NEW hash,
         "balances" \notin F, "blocks" \notin F, "momentums" \notin F, "projects" \notin F, "phases" \notin F,
         "stakes" \in F => LockStep(d.stakes, e.stakes),
         "fusions" \in F => LockStep(d.fusions, e.fusions),
         "sentinels" \in F => LockStep(d.sentinels, e.sentinels),
         "htlcs" \in F => HtlcStep(d.htlcs, e.htlcs),
         "pillars" \in F => PillarStep(d.pillars, e.pillars),
         "accounts" \in F \/ "delegations" \in F =>
           /\ AccountRows(e.accounts) /\ DOMAIN e.accounts = DOMAIN d.accounts
           /\ DelegationRows(e.delegations) /\ EndedStay(d.delegations, e.delegations)
           /\ DelegationsAgree(e.accounts, e.delegations),
         "rewards" \in F => DOMAIN e.rewards \subseteq DOMAIN d.rewards \cup {hash},
         "mints" \in F => DOMAIN e.mints \subseteq DOMAIN d.mints \cup {hash},
         "burns" \in F => DOMAIN e.burns \subseteq DOMAIN d.burns \cup {hash}
  PROVE  Writes(d, e, hash)
<1>1. /\ DOMAIN e = Tables
      /\ e.blocks = d.blocks /\ e.momentums = d.momentums /\ e.balances = d.balances
      /\ e.projects = d.projects /\ e.phases = d.phases
  BY OnlyTables
<1>2. /\ LockStep(d.stakes, e.stakes) /\ LockStep(d.fusions, e.fusions)
      /\ LockStep(d.sentinels, e.sentinels)
  BY OnlyTables DEF Fine, LockStep
<1>3. HtlcStep(d.htlcs, e.htlcs) /\ PillarStep(d.pillars, e.pillars)
  BY OnlyTables DEF Fine, HtlcStep, PillarStep
<1>4. /\ AccountRows(e.accounts) /\ DOMAIN e.accounts = DOMAIN d.accounts
      /\ DelegationRows(e.delegations) /\ EndedStay(d.delegations, e.delegations)
      /\ DelegationsAgree(e.accounts, e.delegations)
  <2>1. CASE "accounts" \in F \/ "delegations" \in F
    BY <2>1
  <2>2. CASE "accounts" \notin F /\ "delegations" \notin F
    BY <2>2, OnlyTables DEF Fine, EndedStay
  <2> QED  BY <2>1, <2>2
<1>5. Events(e) \subseteq Events(d) \cup {hash}
  BY OnlyTables DEF Events
<1> QED  BY <1>1, <1>2, <1>3, <1>4, <1>5 DEF Writes

\* An empty group.
LEMMA NoWrites ==
  ASSUME NEW d, Fine(d), NEW hash
  PROVE  Writes(d, d, hash)
<1>1. Only(d, d, {})
  BY DEF Only, Fine
<1> QED  BY <1>1, OnlyWrites

-----------------------------------------------------------------------------
(* What the statements of a contract call write *)

\* Register, revoke, delegate and undelegate.
LEMMA PillarContract ==
  ASSUME NEW d, Fine(d), NEW q, NEW ts, ts # Null
  PROVE  Writes(d, indexPillarContract(d, q, ts), q.hash)
<1> DEFINE c == q.call
           sender == q.paired.address
           ds == q.block.descendants
           cost == world.blocks[ds[1]]
           spawned == ds # <<>> /\ cost.to = "token"
           amount == safeBigIntToInt64(cost.amount)
           ups == PillarUpdateInsert(d.updates, sender, c.producer, c.withdraw, c.name, ts)
           pil == IF spawned THEN UpdateSpawnInfo(d.pillars, sender, ts, amount)
                  ELSE d.pillars
           e1 == [d EXCEPT !.updates = ups, !.pillars = pil]
           acc == UpdateDelegate(d.accounts, sender, q.pillarOwner, ts)
           del == OpenDelegation(CloseActive(d.delegations, sender, ts), sender, q.pillarOwner, ts)
           e2 == [d EXCEPT !.accounts = acc, !.delegations = del]
           acc3 == UpdateDelegate(d.accounts, sender, "", Null)
           del3 == CloseActive(d.delegations, sender, ts)
           e3 == [d EXCEPT !.accounts = acc3, !.delegations = del3]
           pil4 == SetAsRevoked(d.pillars, sender, c.name, ts)
           e4 == [d EXCEPT !.pillars = pil4]
<1>0. indexPillarContract(d, q, ts) \in {e1, e2, e3, e4, d}
  <2>1. CASE c.method \in {"Register", "RegisterLegacy"} /\ c.name # ""
    <3>1. indexPillarContract(d, q, ts) = e1
      BY <2>1 DEF indexPillarContract
    <3> QED  BY <3>1
  <2>2. CASE c.method = "Delegate"
    <3>1. indexPillarContract(d, q, ts) \in {e2, d}
      BY <2>2 DEF indexPillarContract
    <3> QED  BY <3>1
  <2>3. CASE c.method = "Undelegate"
    <3>1. indexPillarContract(d, q, ts) = e3
      BY <2>3 DEF indexPillarContract
    <3> QED  BY <3>1
  <2>4. CASE c.method = "Revoke"
    <3>1. indexPillarContract(d, q, ts) \in {e4, d}
      BY <2>4 DEF indexPillarContract
    <3> QED  BY <3>1
  <2>5. CASE /\ ~(c.method \in {"Register", "RegisterLegacy"} /\ c.name # "")
             /\ c.method \notin {"Delegate", "Undelegate", "Revoke"}
    <3>1. indexPillarContract(d, q, ts) = d
      BY <2>5 DEF indexPillarContract
    <3> QED  BY <3>1
  <2> QED  BY <2>1, <2>2, <2>3, <2>4, <2>5
<1>1. Writes(d, e1, q.hash)
  <2>1. PillarStep(d.pillars, pil)
    BY PillarUpdates DEF Fine, PillarStep
  <2> HIDE DEF ups, pil
  <2>2. Only(d, e1, {"updates", "pillars"}) /\ e1.pillars = pil
    BY DEF Only, Fine, Tables, EmptyDB
  <2> HIDE DEF e1
  <2> QED  BY <2>1, <2>2, OnlyWrites
<1>2. Writes(d, e2, q.hash)
  <2>1. Points(acc, d.accounts, sender, q.pillarOwner)
    BY UpdateDelegateStatement DEF Fine
  <2>2. /\ DelegationRows(del) /\ EndedStay(d.delegations, del)
        /\ DelegationsAgree(acc, del)
    BY DelegateAgree DEF Fine
  <2> HIDE DEF acc, del
  <2>3. Only(d, e2, {"accounts", "delegations"}) /\ e2.accounts = acc /\ e2.delegations = del
    BY DEF Only, Fine, Tables, EmptyDB
  <2> HIDE DEF e2
  <2> QED  BY <2>1, <2>2, <2>3, OnlyWrites DEF Points
<1>3. Writes(d, e3, q.hash)
  <2>0. Points(acc3, d.accounts, sender, "")
    BY UpdateDelegateStatement DEF Fine
  <2>1. AccountRows(acc3) /\ DOMAIN acc3 = DOMAIN d.accounts
    BY <2>0 DEF Points
  <2>2. /\ DelegationRows(del3) /\ EndedStay(d.delegations, del3)
        /\ DelegationsAgree(acc3, del3)
    BY UndelegateAgree DEF Fine
  <2> HIDE DEF acc3, del3
  <2>3. /\ Only(d, e3, {"accounts", "delegations"})
        /\ e3.accounts = acc3 /\ e3.delegations = del3
    BY DEF Only, Fine, Tables, EmptyDB
  <2> HIDE DEF e3
  <2> QED  BY <2>1, <2>2, <2>3, OnlyWrites
<1>4. Writes(d, e4, q.hash)
  <2>1. PillarStep(d.pillars, pil4)
    BY RevokeStatement DEF Fine, PillarStep
  <2> HIDE DEF pil4
  <2>2. Only(d, e4, {"pillars"}) /\ e4.pillars = pil4
    BY DEF Only, Fine, Tables, EmptyDB
  <2> HIDE DEF e4
  <2> QED  BY <2>1, <2>2, OnlyWrites
<1>5. Writes(d, d, q.hash)
  BY NoWrites
<1> HIDE DEF e1, e2, e3, e4
<1> QED  BY <1>0, <1>1, <1>2, <1>3, <1>4, <1>5

\* Stakes are inserted open and closed by a cancel.
LEMMA StakeContract ==
  ASSUME NEW d, Fine(d), NEW q, NEW ts
  PROVE  Writes(d, indexStakeContract(d, q, ts), q.hash)
<1> DEFINE ins == StakeInsert(d.stakes, q.paired.hash, q.paired.address,
                              getStakeCancelID(q.paired.hash), ts)
           off == StakeSetInactive(d.stakes, getStakeCancelID(q.call.id), q.paired.address)
<1>0. indexStakeContract(d, q, ts) \in {[d EXCEPT !.stakes = ins], [d EXCEPT !.stakes = off], d}
  BY DEF indexStakeContract
<1>1. LockStep(d.stakes, ins) /\ LockStep(d.stakes, off)
  BY StakeStatements DEF LockStep, Fine
<1> HIDE DEF ins, off
<1>2. ASSUME NEW u, LockStep(d.stakes, u)
      PROVE  Writes(d, [d EXCEPT !.stakes = u], q.hash)
  <2> DEFINE e == [d EXCEPT !.stakes = u]
  <2>1. Only(d, e, {"stakes"}) /\ e.stakes = u
    BY DEF Only, Fine, Tables, EmptyDB
  <2> HIDE DEF e
  <2>2. Writes(d, e, q.hash)
    BY <1>2, <2>1, OnlyWrites
  <2> QED  BY <2>2 DEF e
<1> QED  BY <1>0, <1>1, <1>2, NoWrites

\* Revoking a sentinel.
LEMMA SentinelContract ==
  ASSUME NEW d, Fine(d), NEW q
  PROVE  Writes(d, indexSentinelContract(d, q), q.hash)
<1> DEFINE off == SentinelSetInactive(d.sentinels, q.paired.address)
           e == [d EXCEPT !.sentinels = off]
<1>0. indexSentinelContract(d, q) \in {e, d}
  BY DEF indexSentinelContract
<1>1. LockStep(d.sentinels, off)
  BY SentinelStatements DEF LockStep, Fine
<1> HIDE DEF off
<1>2. Only(d, e, {"sentinels"}) /\ e.sentinels = off
  BY DEF Only, Fine, Tables, EmptyDB
<1> HIDE DEF e
<1> QED  BY <1>0, <1>1, <1>2, OnlyWrites, NoWrites

\* Fusions are inserted open and closed by a cancel.
LEMMA PlasmaContract ==
  ASSUME NEW d, Fine(d), NEW q, NEW ts
  PROVE  Writes(d, indexPlasmaContract(d, q, ts), q.hash)
<1> DEFINE to  == IF q.call.address = "" THEN q.paired.address ELSE q.call.address
           ins == FusionInsert(d.fusions, q.paired.hash, q.paired.address, to,
                               getFusionCancelID(q.paired.hash), ts)
           off == FusionSetInactive(d.fusions, getFusionCancelID(q.call.id), q.paired.address)
<1>0. indexPlasmaContract(d, q, ts)
        \in {[d EXCEPT !.fusions = ins], [d EXCEPT !.fusions = off], d}
  BY DEF indexPlasmaContract
<1>1. LockStep(d.fusions, ins) /\ LockStep(d.fusions, off)
  <2> HIDE DEF to
  <2> QED  BY FusionStatements DEF LockStep, Fine
<1> HIDE DEF ins, off
<1>2. ASSUME NEW u, LockStep(d.fusions, u)
      PROVE  Writes(d, [d EXCEPT !.fusions = u], q.hash)
  <2> DEFINE e == [d EXCEPT !.fusions = u]
  <2>1. Only(d, e, {"fusions"}) /\ e.fusions = u
    BY DEF Only, Fine, Tables, EmptyDB
  <2> HIDE DEF e
  <2>2. Writes(d, e, q.hash)
    BY <1>2, <2>1, OnlyWrites
  <2> QED  BY <2>2 DEF e
<1> QED  BY <1>0, <1>1, <1>2, NoWrites

\* Votes touch none of the closed tables.
LEMMA AcceleratorContract ==
  ASSUME NEW d, Fine(d), NEW q, NEW ts
  PROVE  Writes(d, indexAcceleratorContract(d, q, ts), q.hash)
<1> DEFINE v == VoteInsert(d.votes, q.voter, q.call.id,
                  [project |-> q.votedOn[1], phase |-> q.votedOn[2],
                   vote |-> q.call.vote, height |-> ts])
           e == [d EXCEPT !.votes = v]
<1>0. indexAcceleratorContract(d, q, ts) \in {e, d}
  BY DEF indexAcceleratorContract
<1> HIDE DEF v
<1>1. Only(d, e, {"votes"})
  BY DEF Only, Fine, Tables, EmptyDB
<1> HIDE DEF e
<1> QED  BY <1>0, <1>1, OnlyWrites, NoWrites

\* Issues, mints, burns and updates touch none of the closed tables.
LEMMA TokenContract ==
  ASSUME NEW d, Fine(d), NEW q, NEW ts
  PROVE  Writes(d, indexTokenContract(d, q, ts), q.hash)
<1> DEFINE m  == InsertMint(d.mints, q.hash, q.call.token, q.call.amount, ts)
           e1 == [d EXCEPT !.mints = m]
           amount == safeBigIntToInt64(q.paired.amount)
           b  == InsertBurn(d.burns, q.hash, q.paired.token, amount, ts)
           k  == UpdateBurnAmount(d.tokens, q.paired.token, amount)
           e2 == [d EXCEPT !.burns = b, !.tokens = k]
           u  == UpdateLastUpdateTimestamp(d.tokens, q.call.token, ts)
           e3 == [d EXCEPT !.tokens = u]
<1>0. indexTokenContract(d, q, ts) \in {e1, e2, e3, d}
  <2>1. CASE q.call.method = "Mint" /\ q.call.amount <= MaxInt64
    <3>1. indexTokenContract(d, q, ts) = e1
      BY <2>1 DEF indexTokenContract
    <3> QED  BY <3>1
  <2>2. CASE q.call.method = "Burn"
    <3>1. indexTokenContract(d, q, ts) = e2
      BY <2>2 DEF indexTokenContract
    <3> QED  BY <3>1
  <2>3. CASE q.call.method = "UpdateToken"
    <3>1. indexTokenContract(d, q, ts) \in {e3, d}
      BY <2>3 DEF indexTokenContract
    <3> QED  BY <3>1
  <2>4. CASE /\ ~(q.call.method = "Mint" /\ q.call.amount <= MaxInt64)
             /\ q.call.method \notin {"Burn", "UpdateToken"}
    <3>1. indexTokenContract(d, q, ts) = d
      BY <2>4 DEF indexTokenContract
    <3> QED  BY <3>1
  <2> QED  BY <2>1, <2>2, <2>3, <2>4
<1>1. DOMAIN m \subseteq DOMAIN d.mints \cup {q.hash}
  BY DEF InsertMint, InsertOrIgnore, Put
<1>2. DOMAIN b \subseteq DOMAIN d.burns \cup {q.hash}
  BY DEF InsertBurn, InsertOrIgnore, Put
<1> HIDE DEF m, b, k, u
<1>3. Only(d, e1, {"mints"}) /\ e1.mints = m
  BY DEF Only, Fine, Tables, EmptyDB
<1>4. Only(d, e2, {"burns", "tokens"}) /\ e2.burns = b
  BY DEF Only, Fine, Tables, EmptyDB
<1>5. Only(d, e3, {"tokens"})
  BY DEF Only, Fine, Tables, EmptyDB
<1> HIDE DEF e1, e2, e3
<1>6. Writes(d, e1, q.hash)
  BY <1>1, <1>3, OnlyWrites
<1>7. Writes(d, e2, q.hash)
  BY <1>2, <1>4, OnlyWrites
<1>8. Writes(d, e3, q.hash)
  BY <1>5, OnlyWrites
<1> QED  BY <1>0, <1>6, <1>7, <1>8, NoWrites

\* Swap claims touch none of the closed tables.
LEMMA SwapContract ==
  ASSUME NEW d, Fine(d), NEW q, NEW ts
  PROVE  Writes(d, indexSwapContract(d, q, ts), q.hash)
<1> DEFINE r == InsertRetrieval(d.retrievals, q.paired.hash, q.paired.address,
                                Payout(q.block, "znn"), Payout(q.block, "qsr"), ts)
           e == [d EXCEPT !.retrievals = r]
<1>0. indexSwapContract(d, q, ts) \in {e, d}
  BY DEF indexSwapContract
<1> HIDE DEF r
<1>1. Only(d, e, {"retrievals"})
  BY DEF Only, Fine, Tables, EmptyDB
<1> HIDE DEF e
<1> QED  BY <1>0, <1>1, OnlyWrites, NoWrites

\* HTLCs are inserted open and closed by an unlock or a reclaim.
LEMMA HtlcContract ==
  ASSUME NEW d, Fine(d), NEW q, NEW ts
  PROVE  Writes(d, indexHtlcContract(d, q, ts), q.hash)
<1> DEFINE new == [status |-> "active", locked |-> q.paired.address, created |-> ts,
                   settled |-> Null]
           t1 == HtlcInsert(d.htlcs, q.paired.hash, new)
           t2 == HtlcSettle(d.htlcs, q.call.id, "unlocked", ts)
           t3 == HtlcSettle(d.htlcs, q.call.id, "reclaimed", ts)
<1>0. indexHtlcContract(d, q, ts) \in {[d EXCEPT !.htlcs = t1], [d EXCEPT !.htlcs = t2],
                                       [d EXCEPT !.htlcs = t3], d}
  BY DEF indexHtlcContract
<1>1. HtlcStep(d.htlcs, t1)
  <2>1. "status" \in DOMAIN new /\ "unlocked" # "active"
    OBVIOUS
  <2> HIDE DEF new
  <2> QED  BY <2>1, HtlcStatements DEF HtlcStep, Fine
<1>2. HtlcStep(d.htlcs, t2) /\ HtlcStep(d.htlcs, t3)
  <2>1. "status" \in DOMAIN new /\ "unlocked" # "active" /\ "reclaimed" # "active"
    OBVIOUS
  <2> HIDE DEF new
  <2> QED  BY <2>1, HtlcStatements DEF HtlcStep, Fine
<1> HIDE DEF t1, t2, t3
<1>3. ASSUME NEW u, HtlcStep(d.htlcs, u)
      PROVE  Writes(d, [d EXCEPT !.htlcs = u], q.hash)
  <2> DEFINE e == [d EXCEPT !.htlcs = u]
  <2>1. Only(d, e, {"htlcs"}) /\ e.htlcs = u
    BY DEF Only, Fine, Tables, EmptyDB
  <2> HIDE DEF e
  <2>2. Writes(d, e, q.hash)
    BY <1>3, <2>1, OnlyWrites
  <2> QED  BY <2>2 DEF e
<1> QED  BY <1>0, <1>1, <1>2, <1>3, NoWrites

\* The handler of whatever contract was called.
LEMMA EmbeddedContracts ==
  ASSUME NEW d, Fine(d), NEW q, NEW ts, ts # Null
  PROVE  Writes(d, indexEmbeddedContracts(d, q, ts), q.hash)
BY PillarContract, StakeContract, SentinelContract, PlasmaContract, AcceleratorContract,
   TokenContract, SwapContract, HtlcContract, NoWrites DEF indexEmbeddedContracts

\* rewards.go: the row of the receiving block, and the running sum.
LEMMA RewardWrites ==
  ASSUME NEW d, Fine(d), NEW q, NEW type, NEW ts
  PROVE  Writes(d, RecordReward(d, q, type, ts), q.hash)
<1> DEFINE amount == safeBigIntToInt64(q.paired.amount)
           new == [address |-> q.block.address, type |-> type, token |-> q.paired.token,
                   amount |-> amount, height |-> ts]
           r == InsertRewardTransaction(d.rewards, q.hash, new)
           c == UpdateCumulativeRewards(d.cumulative, q.block.address, type, q.paired.token,
                                        amount)
           e == [d EXCEPT !.rewards = r, !.cumulative = c]
<1>0. RecordReward(d, q, type, ts) = e
  BY DEF RecordReward
<1>1. DOMAIN r \subseteq DOMAIN d.rewards \cup {q.hash}
  <2> HIDE DEF new
  <2> QED  BY DEF InsertRewardTransaction, InsertOrIgnore, Put
<1> HIDE DEF r, c
<1>2. Only(d, e, {"rewards", "cumulative"}) /\ e.rewards = r
  BY DEF Only, Fine, Tables, EmptyDB
<1> HIDE DEF e
<1> QED  BY <1>0, <1>1, <1>2, OnlyWrites

-----------------------------------------------------------------------------
(* The statements of one block *)

\* The account statements of a block keep the delegates and create both accounts.
LEMMA AccountWritesKeep ==
  ASSUME NEW t, AccountRows(t), NEW q, NEW ts
  PROVE  /\ KeepsDelegates(t, AccountWrites(t, q, ts))
         /\ q.block.address \in DOMAIN AccountWrites(t, q, ts)
         /\ q.block.to # "" => q.block.to \in DOMAIN AccountWrites(t, q, ts)
<1> DEFINE b      == q.block
           amount == safeBigIntToInt64(b.amount)
           own    == AccountUpsert(t, b.address, b.height)
           flow   == CASE b.type \in Sends -> AddSend(own, b.address, b.token, amount, ts)
                       [] b.type \in Receives -> AddReceive(own, b.address, b.token, amount, ts)
                       [] OTHER -> own
           seeded == IF b.type = "genesisReceive" /\ ts = 1
                       THEN SetGenesisBalance(flow, b.address, b.token, amount) ELSE flow
           bumped == BumpTxCount(seeded, b.address, ts)
           all    == IF b.to \notin {"", b.address} THEN BumpTxCount(bumped, b.to, ts)
                     ELSE bumped
<1>0. AccountWrites(t, q, ts) = all
  BY DEF AccountWrites
<1>1. KeepsDelegates(t, own)
  BY AccountStatements
<1>2. KeepsDelegates(own, flow)
  <2>1. AccountRows(own) /\ KeepsDelegates(own, own)
    BY <1>1 DEF KeepsDelegates
  <2> HIDE DEF own, amount
  <2>2. /\ KeepsDelegates(own, AddSend(own, b.address, b.token, amount, ts))
        /\ KeepsDelegates(own, AddReceive(own, b.address, b.token, amount, ts))
    BY <2>1, AccountStatements
  <2> QED  BY <2>1, <2>2
<1> HIDE DEF own
<1>3. KeepsDelegates(flow, seeded)
  <2> HIDE DEF flow, amount
  <2>1. AccountRows(flow) /\ KeepsDelegates(flow, flow)
    BY <1>2 DEF KeepsDelegates
  <2>2. KeepsDelegates(flow, SetGenesisBalance(flow, b.address, b.token, amount))
    BY <2>1, AccountStatements
  <2> QED  BY <2>1, <2>2
<1> HIDE DEF flow, amount
<1>4. KeepsDelegates(seeded, bumped) /\ b.address \in DOMAIN bumped
  <2>1. AccountRows(seeded)
    BY <1>3 DEF KeepsDelegates
  <2> HIDE DEF seeded
  <2> QED  BY <2>1, AccountStatements
<1> HIDE DEF seeded
<1>5. /\ KeepsDelegates(bumped, all) /\ b.address \in DOMAIN all
      /\ b.to # "" => b.to \in DOMAIN all
  <2>1. AccountRows(bumped) /\ KeepsDelegates(bumped, bumped)
    BY <1>4 DEF KeepsDelegates
  <2> HIDE DEF bumped
  <2>2. /\ KeepsDelegates(bumped, BumpTxCount(bumped, b.to, ts))
        /\ b.to \in DOMAIN BumpTxCount(bumped, b.to, ts)
    BY <2>1, AccountStatements
  <2>3. CASE b.to \in {"", b.address}
    BY <1>4, <2>1, <2>3
  <2>4. CASE b.to \notin {"", b.address}
    <3>1. all = BumpTxCount(bumped, b.to, ts)
      BY <2>4
    <3> HIDE DEF all
    <3> QED  BY <1>4, <2>2, <3>1 DEF KeepsDelegates
  <2> QED  BY <2>3, <2>4
<1> HIDE DEF bumped, all
<1>6. KeepsDelegates(t, all)
  <2>1. KeepsDelegates(t, flow)
    BY <1>1, <1>2, KeepsDelegatesTrans
  <2>2. KeepsDelegates(t, seeded)
    BY <2>1, <1>3, KeepsDelegatesTrans
  <2>3. KeepsDelegates(t, bumped)
    BY <2>2, <1>4, KeepsDelegatesTrans
  <2> QED  BY <2>3, <1>5, KeepsDelegatesTrans
<1> QED  BY <1>0, <1>5, <1>6

\* The columns of a block's row.
BlockRow(r) == {"height", "address", "to", "paired"} \subseteq DOMAIN r
BlockRows(t) == \A x \in DOMAIN t : BlockRow(t[x])

\* What the row of x comes to when the block q was stored: a row that is there
\* keeps its momentum and its addresses, the pair is the one the node named.
StoresRow(r, t, x, q, ts) ==
  /\ BlockRow(r)
  /\ x \in DOMAIN t =>
       r.height = t[x].height /\ r.address = t[x].address /\ r.to = t[x].to
  /\ x \notin DOMAIN t =>
       r.height = ts /\ r.address = q.block.address /\ r.to = q.block.to
  /\ r.paired = IF q.paired # NoBlock /\ x = q.paired.hash THEN q.hash
                ELSE IF x = q.hash THEN q.paired.hash ELSE t[x].paired

\* Table u is t with the block of q written into it.
Stores(u, t, q, ts) ==
  /\ DOMAIN u = DOMAIN t \cup {q.hash}
  /\ \A x \in DOMAIN u : StoresRow(u[x], t, x, q, ts)

\* The block statements of a block do just that.
LEMMA BlockWritesStore ==
  ASSUME NEW t, BlockRows(t), NEW q, NEW ts
  PROVE  Stores(BlockWrites(t, q, ts), t, q, ts)
<1> DEFINE b   == q.block
           row1 == [height |-> ts, address |-> b.address, to |-> b.to, method |-> q.method,
                   paired |-> q.paired.hash, descendantOf |-> ""]
           ins == AccountBlockInsert(t, q.hash, row1)
           mut == IF q.paired = NoBlock THEN ins ELSE UpdatePairedBlock(ins, q.paired.hash, q.hash)
           u   == UpdateDescendantOf(mut, Descendants(b), q.hash)
<1>0. BlockWrites(t, q, ts) = u
  BY DEF BlockWrites
<1>1. /\ DOMAIN ins = DOMAIN t \cup {q.hash}
      /\ \A x \in DOMAIN ins :
           /\ BlockRow(ins[x])
           /\ x \in DOMAIN t => /\ ins[x].height = t[x].height
                                /\ ins[x].address = t[x].address /\ ins[x].to = t[x].to
           /\ x \notin DOMAIN t => /\ ins[x].height = ts /\ ins[x].address = b.address
                                   /\ ins[x].to = b.to
           /\ ins[x].paired = IF x = q.hash THEN q.paired.hash ELSE t[x].paired
  <2> DEFINE r == Row(t, q.hash, row1)
             s == [r EXCEPT !.method = row1.method, !.paired = row1.paired]
  <2>1. BlockRow(row1)
    BY DEF BlockRow
  <2>2. row1.height = ts /\ row1.address = b.address /\ row1.to = b.to
        /\ row1.paired = q.paired.hash
    OBVIOUS
  <2> HIDE DEF row1
  <2>3. BlockRow(r) /\ r = IF q.hash \in DOMAIN t THEN t[q.hash] ELSE row1
    BY <2>1 DEF Row, BlockRows
  <2> HIDE DEF r
  <2>4. /\ BlockRow(s) /\ s.height = r.height /\ s.address = r.address /\ s.to = r.to
        /\ s.paired = row1.paired
    BY <2>3 DEF BlockRow
  <2>5. ins = Put(t, q.hash, s)
    BY DEF AccountBlockInsert, r
  <2> HIDE DEF ins, s
  <2>6. DOMAIN ins = DOMAIN t \cup {q.hash}
    BY <2>5 DEF Put
  <2>7. \A x \in DOMAIN ins : ins[x] = IF x = q.hash THEN s ELSE t[x]
    BY <2>5 DEF Put
  <2> QED  BY <2>2, <2>3, <2>4, <2>6, <2>7 DEF BlockRows
<1> HIDE DEF ins, row1
<1>2. /\ DOMAIN mut = DOMAIN ins
      /\ \A x \in DOMAIN ins :
           /\ BlockRow(mut[x]) /\ mut[x].height = ins[x].height
           /\ mut[x].address = ins[x].address /\ mut[x].to = ins[x].to
           /\ mut[x].paired = IF q.paired # NoBlock /\ x = q.paired.hash THEN q.hash
                              ELSE ins[x].paired
  <2>1. CASE q.paired = NoBlock
    BY <1>1, <2>1
  <2>2. CASE q.paired # NoBlock
    <3>1. mut = UpdatePairedBlock(ins, q.paired.hash, q.hash)
      BY <2>2
    <3> HIDE DEF mut
    <3>2. DOMAIN mut = DOMAIN ins
      BY <3>1 DEF UpdatePairedBlock
    <3>3. ASSUME NEW x \in DOMAIN ins
          PROVE  /\ BlockRow(mut[x]) /\ mut[x].height = ins[x].height
                 /\ mut[x].address = ins[x].address /\ mut[x].to = ins[x].to
                 /\ mut[x].paired = IF x = q.paired.hash THEN q.hash ELSE ins[x].paired
      <4>1. BlockRow(ins[x])
        BY <1>1
      <4>2. mut[x] = IF x = q.paired.hash THEN [ins[x] EXCEPT !.paired = q.hash] ELSE ins[x]
        BY <3>1 DEF UpdatePairedBlock
      <4>3. CASE x = q.paired.hash
        <5>1. mut[x] = [ins[x] EXCEPT !.paired = q.hash]
          BY <4>2, <4>3
        <5> QED  BY <4>1, <4>3, <5>1 DEF BlockRow
      <4>4. CASE x # q.paired.hash
        BY <4>1, <4>2, <4>4
      <4> QED  BY <4>3, <4>4
    <3> QED  BY <2>2, <3>2, <3>3
  <2> QED  BY <2>1, <2>2
<1> HIDE DEF mut
<1>3. /\ DOMAIN u = DOMAIN mut
      /\ \A x \in DOMAIN mut :
           /\ BlockRow(u[x]) /\ u[x].height = mut[x].height
           /\ u[x].address = mut[x].address /\ u[x].to = mut[x].to
           /\ u[x].paired = mut[x].paired
  <2> DEFINE D == Descendants(b)
  <2> HIDE DEF D
  <2>1. DOMAIN u = DOMAIN mut
    BY DEF UpdateDescendantOf
  <2>2. ASSUME NEW x \in DOMAIN mut
        PROVE  /\ BlockRow(u[x]) /\ u[x].height = mut[x].height
               /\ u[x].address = mut[x].address /\ u[x].to = mut[x].to
               /\ u[x].paired = mut[x].paired
    <3>1. BlockRow(mut[x])
      BY <1>2
    <3>2. u[x] = [mut[x] EXCEPT !.descendantOf = q.hash] \/ u[x] = mut[x]
      BY DEF UpdateDescendantOf
    <3> HIDE DEF u
    <3>3. CASE u[x] = [mut[x] EXCEPT !.descendantOf = q.hash]
      BY <3>1, <3>3 DEF BlockRow
    <3>4. CASE u[x] = mut[x]
      BY <3>1, <3>4
    <3> QED  BY <3>2, <3>3, <3>4
  <2> QED  BY <2>1, <2>2
<1> HIDE DEF u
<1>4. DOMAIN u = DOMAIN t \cup {q.hash}
  BY <1>1, <1>2, <1>3
<1>5. ASSUME NEW x \in DOMAIN u
      PROVE  StoresRow(u[x], t, x, q, ts)
  <2>1. x \in DOMAIN ins
    BY <1>2, <1>3
  <2> QED  BY <1>1, <1>2, <1>3, <2>1 DEF StoresRow
<1> QED  BY <1>0, <1>4, <1>5 DEF Stores

\* The rows a row refers to: a block's two accounts, the block of an event.
Refers(d) ==
  /\ BlockRows(d.blocks)
  /\ \A x \in DOMAIN d.blocks :
       d.blocks[x].address \in DOMAIN d.accounts /\ d.blocks[x].to \in DOMAIN d.accounts
  /\ Events(d) \subseteq DOMAIN d.blocks

\* A contract's statements keep references between rows when their block is stored.
LEMMA WritesRefer ==
  ASSUME NEW d, Refers(d), NEW e, NEW hash, Writes(d, e, hash), hash \in DOMAIN d.blocks
  PROVE  Refers(e)
BY DEF Refers, Writes

\* What a group of statements executed in a transaction leaves.
Steps(d, e) == Fine(e) /\ Refers(e) /\ NothingReopens(d, e)

\* The account and block statements together.
LEMMA BlockAndAccountRows ==
  ASSUME NEW d, Fine(d), Refers(d), NEW q, q.block.to # "", NEW ts,
         NEW e, Only(d, e, {"accounts", "blocks"}),
         e.accounts = AccountWrites(d.accounts, q, ts),
         e.blocks = BlockWrites(d.blocks, q, ts)
  PROVE  Steps(d, e) /\ q.hash \in DOMAIN e.blocks
<1>1. /\ KeepsDelegates(d.accounts, e.accounts)
      /\ q.block.address \in DOMAIN e.accounts /\ q.block.to \in DOMAIN e.accounts
  BY AccountWritesKeep DEF Fine
<1>2. Stores(e.blocks, d.blocks, q, ts)
  BY BlockWritesStore DEF Refers
<1>3. /\ DOMAIN e = Tables
      /\ e.stakes = d.stakes /\ e.fusions = d.fusions /\ e.sentinels = d.sentinels
      /\ e.htlcs = d.htlcs /\ e.pillars = d.pillars
      /\ e.delegations = d.delegations
      /\ e.projects = d.projects /\ e.phases = d.phases /\ e.rewards = d.rewards
      /\ e.mints = d.mints /\ e.burns = d.burns
  <2> DEFINE F == {"accounts", "blocks"}
  <2>1. Only(d, e, F)
    OBVIOUS
  <2>2. {"stakes", "fusions", "sentinels", "htlcs", "pillars", "delegations", "projects",
         "phases", "rewards", "mints", "burns"} \cap F = {}
    OBVIOUS
  <2> HIDE DEF F
  <2> QED  BY ONLY <2>1, <2>2, OnlyTables
<1>4. AccountRows(e.accounts) /\ DelegationsAgree(e.accounts, e.delegations)
  BY <1>1, <1>3, KeptAgree DEF Fine, KeepsDelegates
<1>5. Fine(e)
  BY <1>3, <1>4 DEF Fine
<1>6. NothingReopens(d, e)
  BY <1>3 DEF NothingReopens
<1>7. Refers(e) /\ q.hash \in DOMAIN e.blocks
  <2>1. ASSUME NEW x \in DOMAIN e.blocks
        PROVE  /\ BlockRow(e.blocks[x])
               /\ e.blocks[x].address \in DOMAIN e.accounts
               /\ e.blocks[x].to \in DOMAIN e.accounts
    <3>1. StoresRow(e.blocks[x], d.blocks, x, q, ts)
      BY <1>2 DEF Stores
    <3>2. CASE x \in DOMAIN d.blocks
      BY <1>1, <3>1, <3>2 DEF StoresRow, Refers, KeepsDelegates
    <3>3. CASE x \notin DOMAIN d.blocks
      BY <1>1, <3>1, <3>3 DEF StoresRow
    <3> QED  BY <3>2, <3>3
  <2>2. Events(e) = Events(d)
    BY <1>3 DEF Events
  <2> QED  BY <1>2, <2>1, <2>2 DEF Refers, BlockRows, Stores
<1> QED  BY <1>5, <1>6, <1>7 DEF Steps

\* The contract call of a block.
LEMMA CallWrites ==
  ASSUME NEW d, Fine(d), NEW q, NEW ts, ts # Null
  PROVE  Writes(d, CallWritten(d, q, ts), q.hash)
BY EmbeddedContracts, NoWrites DEF CallWritten

\* The reward of a block.
LEMMA RewardWrittenWrites ==
  ASSUME NEW d, Fine(d), NEW q, NEW ts
  PROVE  Writes(d, RewardWritten(d, q, ts), q.hash)
<1>1. /\ Writes(d, d, q.hash)
      /\ \A type : Writes(d, RecordReward(d, q, type, ts), q.hash)
  BY RewardWrites, NoWrites
<1>2. /\ Writes(d, indexLiquidityReward(d, q, ts), q.hash)
      /\ Writes(d, indexReceivedReward(d, q, ts), q.hash)
  BY <1>1 DEF indexLiquidityReward, indexReceivedReward
<1> QED  BY <1>1, <1>2 DEF RewardWritten

\* The token information of a block.
LEMMA TokenWrittenWrites ==
  ASSUME NEW d, Fine(d), NEW q
  PROVE  Writes(d, TokenWritten(d, q), q.hash)
<1> DEFINE tok == TokenWrites(d.tokens, q.block.info)
           e == [d EXCEPT !.tokens = tok]
<1>0. TokenWritten(d, q) \in {e, d}
  BY DEF TokenWritten
<1> HIDE DEF tok
<1>1. Only(d, e, {"tokens"})
  BY DEF Only, Fine, Tables, EmptyDB
<1> HIDE DEF e
<1> QED  BY <1>0, <1>1, OnlyWrites, NoWrites

\* The first group of a block's statements, which all blocks have.
LEMMA RowsWrittenSteps ==
  ASSUME NEW d, Fine(d), Refers(d), NEW q, q.block.to # "", NEW ts
  PROVE  LET e == RowsWritten(d, q, ts)
         IN /\ Steps(d, e) /\ q.hash \in DOMAIN e.blocks
            /\ e.blocks = BlockWrites(d.blocks, q, ts) /\ e.momentums = d.momentums
            /\ e.balances = d.balances
<1> DEFINE acc == AccountWrites(d.accounts, q, ts)
           blk == BlockWrites(d.blocks, q, ts)
           e == [d EXCEPT !.accounts = acc, !.blocks = blk]
<1>0. RowsWritten(d, q, ts) = e
  BY DEF RowsWritten
<1>1. /\ Only(d, e, {"accounts", "blocks"})
      /\ e.accounts = acc /\ e.blocks = blk /\ e.momentums = d.momentums
      /\ e.balances = d.balances
  <2> HIDE DEF acc, blk
  <2> QED  BY DEF Only, Fine, Tables, EmptyDB
<1> HIDE DEF e
<1>2. Steps(d, e) /\ q.hash \in DOMAIN e.blocks
  BY <1>1, BlockAndAccountRows
<1> QED  BY <1>0, <1>1, <1>2

\* All statements of a block.
LEMMA ProcessBlock ==
  ASSUME NEW d, Fine(d), Refers(d), NEW q, q.block.to # "", NEW ts, ts # Null
  PROVE  LET e == processAccountBlocks(d, q, ts)
         IN /\ Steps(d, e)
            /\ e.blocks = BlockWrites(d.blocks, q, ts) /\ e.momentums = d.momentums
            /\ e.balances = d.balances
<1> DEFINE d1 == RowsWritten(d, q, ts)
           d2 == CallWritten(d1, q, ts)
           d3 == RewardWritten(d2, q, ts)
           d4 == TokenWritten(d3, q)
<1>0. processAccountBlocks(d, q, ts) = d4
  BY DEF processAccountBlocks
<1>1. /\ Steps(d, d1) /\ q.hash \in DOMAIN d1.blocks
      /\ d1.blocks = BlockWrites(d.blocks, q, ts) /\ d1.momentums = d.momentums
      /\ d1.balances = d.balances
  BY RowsWrittenSteps
<1> HIDE DEF d1
<1>2. Fine(d1) /\ Refers(d1)
  BY <1>1 DEF Steps
<1>3. Writes(d1, d2, q.hash)
  BY <1>2, CallWrites
<1> HIDE DEF d2
<1>4. Fine(d2)
  BY <1>2, <1>3, WritesFine
<1>5. Writes(d2, d3, q.hash)
  BY <1>4, RewardWrittenWrites
<1> HIDE DEF d3
<1>6. Fine(d3)
  BY <1>4, <1>5, WritesFine
<1>7. Writes(d3, d4, q.hash)
  BY <1>6, TokenWrittenWrites
<1> HIDE DEF d4
<1>8. Writes(d1, d4, q.hash)
  BY <1>3, <1>5, <1>7, WritesTrans
<1>9. Fine(d4) /\ NothingReopens(d1, d4) /\ Refers(d4)
  BY <1>1, <1>2, <1>8, WritesFine, WritesRefer
<1>10. NothingReopens(d, d4)
  BY <1>1, <1>9, NothingReopensTrans DEF Steps
<1>11. /\ d4.blocks = BlockWrites(d.blocks, q, ts) /\ d4.momentums = d.momentums
       /\ d4.balances = d.balances
  BY <1>1, <1>8 DEF Writes
<1> QED  BY <1>0, <1>9, <1>10, <1>11 DEF Steps

-----------------------------------------------------------------------------
(* One entry of the queue, one row of a list, one statement of a job *)

\* What is queued: a block, a read of balances, the momentum itself.
Item(q) ==
  /\ q.kind \in {"block", "balance", "momentum"}
  /\ q.kind = "block" => q.block.to # ""

\* Statements outside the transaction's block rows.
LEMMA WritesSteps ==
  ASSUME NEW d, Fine(d), Refers(d), NEW e, NEW F, Only(d, e, F), "balances" \notin F,
         "blocks" \notin F, "momentums" \notin F, "projects" \notin F, "phases" \notin F,
         "accounts" \notin F, "delegations" \notin F,
         "stakes" \notin F, "fusions" \notin F, "htlcs" \notin F,
         "rewards" \notin F, "mints" \notin F, "burns" \notin F,
         "sentinels" \in F => LockStep(d.sentinels, e.sentinels),
         "pillars" \in F => PillarStep(d.pillars, e.pillars)
  PROVE  /\ Steps(d, e) /\ e.blocks = d.blocks /\ e.momentums = d.momentums
         /\ e.balances = d.balances
<1>1. \A h : Writes(d, e, h)
  BY OnlyWrites
<1>2. /\ Fine(e) /\ NothingReopens(d, e) /\ e.blocks = d.blocks /\ e.momentums = d.momentums
      /\ e.balances = d.balances
  BY <1>1, WritesFine DEF Writes
<1>3. Refers(e)
  BY <1>2, OnlyTables DEF Refers, Events
<1> QED  BY <1>2, <1>3 DEF Steps

\* One entry of the batch: a block, a balance update or the momentum.
LEMMA ExecuteSteps ==
  ASSUME NEW d, Fine(d), Refers(d), NEW q, Item(q), NEW ts, ts # Null
  PROVE  LET e == Execute(d, q, ts)
         IN /\ Steps(d, e)
            /\ e.blocks = IF q.kind = "block" THEN BlockWrites(d.blocks, q, ts) ELSE d.blocks
            /\ DOMAIN e.momentums = IF q.kind = "momentum" THEN DOMAIN d.momentums \cup {ts}
                                    ELSE DOMAIN d.momentums
            /\ e.balances = IF q.kind = "balance" THEN BalanceUpsert(d.balances, q.address, q.info)
                            ELSE d.balances
<1>1. CASE q.kind = "block"
  <2>1. Execute(d, q, ts) = processAccountBlocks(d, q, ts)
    BY <1>1 DEF Execute
  <2>2. q.block.to # ""
    BY <1>1 DEF Item
  <2>3. /\ Steps(d, processAccountBlocks(d, q, ts))
        /\ processAccountBlocks(d, q, ts).blocks = BlockWrites(d.blocks, q, ts)
        /\ processAccountBlocks(d, q, ts).momentums = d.momentums
        /\ processAccountBlocks(d, q, ts).balances = d.balances
    BY <2>2, ProcessBlock
  <2> QED  BY <1>1, <2>1, <2>3
<1>2. CASE q.kind = "balance"
  <2> DEFINE u == BalanceUpsert(d.balances, q.address, q.info)
             e == [d EXCEPT !.balances = u]
  <2>1. Execute(d, q, ts) = e
    BY <1>2 DEF Execute
  <2>2. Only(d, e, {"balances"}) /\ e.balances = u
    <3> HIDE DEF u
    <3> QED  BY DEF Only, Fine, Tables, EmptyDB
  <2> HIDE DEF u, e
  <2>3. /\ DOMAIN e = Tables
        /\ e.stakes = d.stakes /\ e.fusions = d.fusions /\ e.sentinels = d.sentinels
        /\ e.htlcs = d.htlcs /\ e.pillars = d.pillars /\ e.accounts = d.accounts
        /\ e.delegations = d.delegations /\ e.blocks = d.blocks
        /\ e.momentums = d.momentums /\ e.projects = d.projects /\ e.phases = d.phases
        /\ e.rewards = d.rewards /\ e.mints = d.mints /\ e.burns = d.burns
    BY <2>2, OnlyTables
  <2>4. Fine(e)
    BY <2>3 DEF Fine
  <2>5. Refers(e)
    BY <2>3 DEF Refers, Events
  <2>6. NothingReopens(d, e)
    BY <2>3 DEF NothingReopens
  <2> QED  BY <1>2, <2>1, <2>2, <2>3, <2>4, <2>5, <2>6 DEF Steps, u
<1>3. CASE q.kind = "momentum"
  <2> DEFINE u == IncrementMomentumCount(d.pillars, q.owner)
             m == MomentumInsert(d.momentums, ts, q.txs, q.producer, q.owner)
             c == [d EXCEPT !.pillars = u]
             e == [d EXCEPT !.pillars = u, !.momentums = m]
  <2>1. Execute(d, q, ts) = e
    BY <1>3 DEF Execute
  <2>2. PillarStep(d.pillars, u)
    BY PillarUpdates DEF Fine, PillarStep
  <2>3. DOMAIN m = DOMAIN d.momentums \cup {ts}
    BY DEF MomentumInsert, InsertOrIgnore, Put
  <2> HIDE DEF u, m
  <2>4. Only(d, c, {"pillars"}) /\ c.pillars = u
    BY DEF Only, Fine, Tables, EmptyDB
  <2>5. Only(c, e, {"momentums"}) /\ e.momentums = m
    BY DEF Only, Fine, Tables, EmptyDB
  <2> HIDE DEF c, e
  <2>6. Steps(d, c) /\ c.blocks = d.blocks /\ c.balances = d.balances
    BY <2>2, <2>4, WritesSteps
  <2>7. /\ DOMAIN e = Tables
        /\ e.stakes = c.stakes /\ e.fusions = c.fusions /\ e.sentinels = c.sentinels
        /\ e.htlcs = c.htlcs /\ e.pillars = c.pillars /\ e.accounts = c.accounts
        /\ e.delegations = c.delegations /\ e.blocks = c.blocks
        /\ e.projects = c.projects /\ e.phases = c.phases /\ e.rewards = c.rewards
        /\ e.mints = c.mints /\ e.burns = c.burns /\ e.balances = c.balances
    BY <2>5, OnlyTables
  <2>8. Fine(e)
    BY <2>6, <2>7 DEF Steps, Fine
  <2>9. Refers(e)
    BY <2>6, <2>7 DEF Steps, Refers, Events
  <2>10. NothingReopens(d, e)
    BY <2>6, <2>7 DEF Steps, NothingReopens
  <2> QED  BY <1>3, <2>1, <2>3, <2>5, <2>6, <2>7, <2>8, <2>9, <2>10 DEF Steps
<1> QED  BY <1>1, <1>2, <1>3 DEF Item

\* A row of a list the refresh copied, however old the list is.
LEMMA StoreRowSteps ==
  ASSUME NEW d, Fine(d), Refers(d), NEW what \in DOMAIN After, NEW r, NEW k
  PROVE  LET e == StoreRow(d, what, r, k)
         IN /\ Steps(d, e) /\ e.blocks = d.blocks /\ e.momentums = d.momentums
            /\ e.balances = d.balances
<1>0. what \in {"pillars", "sentinels", "projects", "assets"}
  BY DEF After
<1>1. CASE what = "pillars"
  <2> DEFINE u == PillarUpsert(d.pillars, r)
             e == [d EXCEPT !.pillars = u]
  <2>1. StoreRow(d, what, r, k) = e
    BY <1>1 DEF StoreRow
  <2>2. PillarStep(d.pillars, u)
    BY PillarUpsertStatement DEF Fine, PillarStep
  <2> HIDE DEF u
  <2>3. Only(d, e, {"pillars"}) /\ e.pillars = u
    BY DEF Only, Fine, Tables, EmptyDB
  <2> HIDE DEF e
  <2> QED  BY <2>1, <2>2, <2>3, WritesSteps
<1>2. CASE what = "sentinels"
  <2> DEFINE u == SentinelUpsert(d.sentinels, r.owner, r.registered, r.active)
             e == [d EXCEPT !.sentinels = u]
  <2>1. StoreRow(d, what, r, k) = e
    BY <1>2 DEF StoreRow
  <2>2. LockStep(d.sentinels, u)
    BY SentinelStatements DEF Fine, LockStep
  <2> HIDE DEF u
  <2>3. Only(d, e, {"sentinels"}) /\ e.sentinels = u
    BY DEF Only, Fine, Tables, EmptyDB
  <2> HIDE DEF e
  <2> QED  BY <2>1, <2>2, <2>3, WritesSteps
<1>3. CASE what = "assets"
  <2> DEFINE u == UpsertAsset(d.assets, r.key, [c \in Flows |-> safeBigIntToInt64(r.left[c])])
             e == [d EXCEPT !.assets = u]
  <2>1. StoreRow(d, what, r, k) = e
    BY <1>3 DEF StoreRow
  <2> HIDE DEF u
  <2>2. Only(d, e, {"assets"})
    BY DEF Only, Fine, Tables, EmptyDB
  <2> HIDE DEF e
  <2> QED  BY <2>1, <2>2, WritesSteps
<1>4. CASE what = "projects"
  <2> DEFINE p == r.phases[k]
             u == ProjectUpsert(d.projects, r.id, getVotingID(r.id), r.created, r.status)
             v == ProjectPhaseUpsert(d.phases, p.id, r.id, getVotingID(p.id), p.created, p.status)
             e1 == [d EXCEPT !.projects = u]
             e2 == [d EXCEPT !.phases = v]
  <2>1. StoreRow(d, what, r, k) \in {e1, e2}
    <3>1. StoreRow(d, what, r, k) = IF k = 0 THEN e1 ELSE e2
      BY <1>4 DEF StoreRow
    <3> HIDE DEF e1, e2
    <3> QED  BY <3>1
  <2>2. IsFiniteSet(DOMAIN u) /\ IsFiniteSet(DOMAIN v)
    <3>1. DOMAIN u = DOMAIN d.projects \cup {r.id}
      BY DEF ProjectUpsert, Put
    <3>2. DOMAIN v = DOMAIN d.phases \cup {p.id}
      BY DEF ProjectPhaseUpsert, Put
    <3> HIDE DEF u, v, p
    <3> QED  BY <3>1, <3>2, FS_AddElement DEF Fine
  <2> HIDE DEF u, v
  <2>3. Only(d, e1, {"projects"}) /\ e1.projects = u
    BY DEF Only, Fine, Tables, EmptyDB
  <2>4. Only(d, e2, {"phases"}) /\ e2.phases = v
    BY DEF Only, Fine, Tables, EmptyDB
  <2> HIDE DEF e1, e2
  <2>5. ASSUME NEW e, Only(d, e, {"projects"}) \/ Only(d, e, {"phases"}),
               IsFiniteSet(DOMAIN e.projects), IsFiniteSet(DOMAIN e.phases)
        PROVE  /\ Steps(d, e) /\ e.blocks = d.blocks /\ e.momentums = d.momentums
               /\ e.balances = d.balances
    <3>1. /\ DOMAIN e = Tables /\ e.balances = d.balances
          /\ e.stakes = d.stakes /\ e.fusions = d.fusions /\ e.sentinels = d.sentinels
          /\ e.htlcs = d.htlcs /\ e.pillars = d.pillars /\ e.accounts = d.accounts
          /\ e.delegations = d.delegations /\ e.blocks = d.blocks /\ e.momentums = d.momentums
          /\ e.rewards = d.rewards /\ e.mints = d.mints /\ e.burns = d.burns
      BY <2>5, OnlyTables
    <3>2. Fine(e)
      BY <2>5, <3>1 DEF Fine
    <3>3. Refers(e)
      BY <3>1 DEF Refers, Events
    <3>4. NothingReopens(d, e)
      BY <3>1 DEF NothingReopens
    <3> QED  BY <3>1, <3>2, <3>3, <3>4 DEF Steps
  <2>6. /\ IsFiniteSet(DOMAIN e1.projects) /\ IsFiniteSet(DOMAIN e1.phases)
        /\ IsFiniteSet(DOMAIN e2.projects) /\ IsFiniteSet(DOMAIN e2.phases)
    BY <2>2, <2>3, <2>4, OnlyTables DEF Fine
  <2> QED  BY <2>1, <2>3, <2>4, <2>5, <2>6
<1> QED  BY <1>0, <1>1, <1>2, <1>3, <1>4

\* cron.go: a pillar's votes are among the projects and phases it could vote on.
LEMMA VotesAmongVotable ==
  ASSUME NEW d, Fine(d), NEW owner, NEW since
  PROVE  LET projects == ProjectIDsCreatedAtOrAfter(d.projects, since)
             phases   == PhaseIDsCreatedAtOrAfter(d.phases, since)
         IN GetVoteCountForProjects(d.votes, owner, projects)
              + GetVoteCountForPhases(d.votes, owner, phases)
            <= Cardinality(projects) + Cardinality(phases)
<1> DEFINE P == ProjectIDsCreatedAtOrAfter(d.projects, since)
           H == PhaseIDsCreatedAtOrAfter(d.phases, since)
           VP == VotedProjects(d.votes, owner, P)
           VH == VotedPhases(d.votes, owner, H)
<1>1. IsFiniteSet(P) /\ IsFiniteSet(H)
  <2>1. P \subseteq DOMAIN d.projects /\ H \subseteq DOMAIN d.phases
    BY DEF ProjectIDsCreatedAtOrAfter, PhaseIDsCreatedAtOrAfter
  <2> HIDE DEF P, H
  <2> QED  BY <2>1, FS_Subset DEF Fine
<1> HIDE DEF P, H
<1>2. VP \subseteq P /\ VH \subseteq H
  BY DEF VotedProjects, VotedPhases
<1>3. GetVoteCountForProjects(d.votes, owner, P) = Cardinality(VP)
  BY DEF GetVoteCountForProjects
<1>7. GetVoteCountForPhases(d.votes, owner, H) = Cardinality(VH)
  BY DEF GetVoteCountForPhases
<1> HIDE DEF VP, VH
<1>4. /\ IsFiniteSet(VP) /\ Cardinality(VP) <= Cardinality(P)
      /\ IsFiniteSet(VH) /\ Cardinality(VH) <= Cardinality(H)
  BY <1>1, <1>2, FS_Subset
<1>5. /\ Cardinality(VP) \in Nat /\ Cardinality(P) \in Nat
      /\ Cardinality(VH) \in Nat /\ Cardinality(H) \in Nat
  BY <1>1, <1>4, FS_CardinalityType
<1>6. Cardinality(VP) + Cardinality(VH) <= Cardinality(P) + Cardinality(H)
  BY <1>4, <1>5
<1> QED  BY <1>3, <1>6, <1>7 DEF P, H

-----------------------------------------------------------------------------
(* The invariant *)

\* The momentum being processed is one the node has, and what is queued for it is
\* a sequence that ends, once complete, with the momentum's own row.
ProcessInv ==
  /\ world \in Worlds /\ tip \in 1..Len(world.chain)
  /\ pc \in {"idle", "queue", "exec"}
  /\ pc # "idle" =>
       height \in 1..tip /\ IsSequence(batch) /\ \A i \in DOMAIN batch : Item(batch[i])
  /\ pc = "queue" => pos \in 0..Len(Content(height))
  /\ pc = "exec" =>
       pos \in 0..Len(batch) /\ batch # <<>> /\ batch[Len(batch)].kind = "momentum"

\* The list being copied and the place reached in it.
RefreshInv ==
  /\ refresh \in DOMAIN After \cup {"idle"} /\ (fetched => refresh \in DOMAIN After)
  /\ page \in Nat /\ IsSequence(list) /\ row \in 0..Len(list)

\* Every block row names a momentum of hs.
HeightsIn(d, hs) == \A x \in DOMAIN d.blocks : d.blocks[x].height \in hs

\* The momentum's own row is written last: until then the blocks of the image may
\* name it already.
TablesInv ==
  /\ Fine(db) /\ Refers(db) /\ HeightsIn(db, DOMAIN db.momentums)
  /\ pc = "exec" =>
       /\ Fine(stage) /\ Refers(stage) /\ NothingReopens(db, stage)
       /\ HeightsIn(stage, DOMAIN stage.momentums \cup {height})
       /\ pos = Len(batch) => height \in DOMAIN stage.momentums

\* The blocks of the momentum of height h.
Listed(h) == {Content(h)[i] : i \in DOMAIN Content(h)}

\* What a queued block says of its pair: a receive names its send; a send names its
\* receive, or nothing when the momentum itself does not have it.
PairedRight(q) ==
  /\ q.hash \in Listed(height)
  /\ LET b == world.blocks[q.hash] IN
     IF b.from # "" THEN q.paired = world.blocks[b.from]
     ELSE \/ /\ q.paired = NoBlock
             /\ \A y \in Listed(height) : world.blocks[y].from # q.hash
          \/ \E y \in DOMAIN world.blocks :
               world.blocks[y].from = q.hash /\ q.paired = world.blocks[y]

\* The batch has a block at most once.
BatchOnce ==
  \A i, j \in DOMAIN batch :
    /\ batch[i].kind = "block" /\ batch[j].kind = "block" /\ batch[i].hash = batch[j].hash
    => i = j

\* The i-th entry of the batch stores the send x or its receive.
Stored(i, x) == batch[i].kind = "block" /\ Concerns(batch[i], x)

\* The sends without a pair once k entries of the batch are executed.
UnpairedBy(k) ==
  {x \in DOMAIN world.blocks :
     \/ \E i \in 1..k : /\ batch[i].kind = "block" /\ batch[i].hash = x
                        /\ batch[i].paired = NoBlock
                        /\ \A j \in (i + 1)..k : ~Stored(j, x)
     \/ x \in Unpaired /\ \A j \in 1..k : ~Stored(j, x)}

\* The hashes of the blocks asked for so far.
Fetched == {Content(height)[k] : k \in 1..pos}

\* The invariant behind PairedSymmetric: batch and stage hold blocks the node confirmed,
\* and the image is as far as the batch was executed.
PairsInv ==
  /\ DOMAIN db.blocks \subseteq Confirmed(tip)
  /\ IsSequence(journal) /\ PairsAgree(db.blocks, Unpaired)
  /\ pc # "idle" => /\ BatchOnce
                    /\ \A i \in DOMAIN batch : batch[i].kind = "block" => PairedRight(batch[i])
  /\ pc = "queue" => \A i \in DOMAIN batch : batch[i].kind = "block" => batch[i].hash \in Fetched
  /\ pc = "exec" => /\ PairsAgree(stage.blocks, UnpairedBy(pos))
                    /\ DOMAIN stage.blocks \subseteq DOMAIN db.blocks \cup Listed(height)

\* The inductive invariant.
ExplorerInv == ProcessInv /\ RefreshInv /\ TablesInv /\ PairsInv

-----------------------------------------------------------------------------
(* What the node vouches for *)

\* The chain as a function on its heights.
LEMMA ChainFacts ==
  ASSUME world \in Worlds
  PROVE  /\ Len(world.chain) \in Nat \ {0} /\ DOMAIN world.chain = 1..Len(world.chain)
         /\ \A h \in 1..Len(world.chain) :
              /\ Content(h) \in Seq(DOMAIN world.blocks)
              /\ Len(Content(h)) \in Nat /\ DOMAIN Content(h) = 1..Len(Content(h))
              /\ Listed(h) \subseteq DOMAIN world.blocks
<1> DEFINE B == DOMAIN world.blocks
           M == [producer : STRING, content : Seq(B)]
<1>1. world.chain \in Seq(M) /\ world.chain # <<>>
  BY WorldsAssumption
<1>2. /\ Len(world.chain) \in Nat \ {0} /\ DOMAIN world.chain = 1..Len(world.chain)
      /\ \A h \in 1..Len(world.chain) : world.chain[h] \in M
  <2> HIDE DEF M
  <2> QED  BY <1>1
<1>3. ASSUME NEW h \in 1..Len(world.chain)
      PROVE  Content(h) \in Seq(B)
  <2>1. world.chain[h].content \in Seq(B)
    BY <1>2
  <2> QED  BY <2>1 DEF Content
<1>4. ASSUME NEW h \in 1..Len(world.chain)
      PROVE  /\ Len(Content(h)) \in Nat /\ DOMAIN Content(h) = 1..Len(Content(h))
             /\ Listed(h) \subseteq B
  <2> DEFINE c == Content(h)
  <2>1. c \in Seq(B)
    BY <1>3
  <2> HIDE DEF c, B
  <2>2. Len(c) \in Nat /\ DOMAIN c = 1..Len(c) /\ \A i \in DOMAIN c : c[i] \in B
    BY <2>1
  <2> QED  BY <2>2 DEF Listed, c
<1> QED  BY <1>2, <1>3, <1>4

\* What WorldsAssumption says of one block.
LEMMA BlockFacts ==
  ASSUME world \in Worlds, NEW x \in DOMAIN world.blocks
  PROVE  /\ x # "" /\ world.blocks[x].hash = x /\ world.blocks[x].to # ""
         /\ world.blocks[x].from # "" =>
              /\ world.blocks[x].from \in DOMAIN world.blocks
              /\ world.blocks[world.blocks[x].from].from = ""
              /\ \A y \in DOMAIN world.blocks :
                   world.blocks[y].from = world.blocks[x].from => x = y
BY WorldsAssumption

\* What is confirmed at a height are blocks, and all of the heights below.
LEMMA ConfirmedFacts ==
  ASSUME world \in Worlds, NEW n \in 1..Len(world.chain)
  PROVE  /\ Confirmed(n) \subseteq DOMAIN world.blocks
         /\ \A h \in 1..n : Listed(h) \subseteq Confirmed(n)
<1>1. Confirmed(n) = UNION {Listed(h) : h \in 1..n}
  BY DEF Confirmed, Listed
<1>2. \A h \in 1..n : h \in 1..Len(world.chain)
  BY ChainFacts
<1>3. \A h \in 1..n : Listed(h) \subseteq DOMAIN world.blocks
  BY <1>2, ChainFacts
<1> QED  BY <1>1, <1>3

\* A block a node returns while a momentum is queued names its pair rightly: what is
\* listed with it is confirmed by every node that has the momentum.
LEMMA FetchedRight ==
  ASSUME ProcessInv, pc = "queue", NEW hash \in Listed(height), NEW lookup,
         NEW n \in height..tip
  PROVE  LET q == Queued(hash, lookup, n)
         IN q.kind = "block" /\ Item(q) /\ PairedRight(q)
<1> DEFINE q == Queued(hash, lookup, n)
           b == world.blocks[hash]
           recvs == {x \in Confirmed(n) : world.blocks[x].from = hash}
           other == IF b.from # "" THEN {b.from} ELSE recvs
           pick == CHOOSE x \in other : TRUE
<1>1. /\ q.kind = "block" /\ q.hash = hash /\ q.block = b
      /\ q.paired = IF other = {} THEN NoBlock ELSE world.blocks[pick]
  BY DEF Queued, GetAccountBlockByHash
<1> SUFFICES q.kind = "block" /\ Item(q) /\ PairedRight(q)
  OBVIOUS
<1> HIDE DEF q
<1>2. world \in Worlds /\ n \in 1..Len(world.chain) /\ height \in 1..n
  <2>1. /\ world \in Worlds /\ tip \in 1..Len(world.chain) /\ height \in 1..tip
        /\ Len(world.chain) \in Nat
    BY ChainFacts DEF ProcessInv
  <2> QED  BY <2>1
<1>3. /\ Confirmed(n) \subseteq DOMAIN world.blocks /\ Listed(height) \subseteq Confirmed(n)
      /\ hash \in DOMAIN world.blocks
  BY <1>2, ConfirmedFacts
<1>4. b.to # "" /\ hash # ""
  BY <1>2, <1>3, BlockFacts
<1>5. Item(q)
  BY <1>1, <1>4 DEF Item
<1>6. other # {} => pick \in other
  <2> HIDE DEF other
  <2> QED  OBVIOUS
<1> HIDE DEF pick
<1>7. CASE b.from # ""
  <2>1. other = {b.from} /\ pick = b.from
    BY <1>6, <1>7
  <2>2. q.paired = world.blocks[b.from]
    BY <1>1, <2>1
  <2> QED  BY <1>1, <1>5, <1>7, <2>2 DEF PairedRight
<1>8. CASE b.from = "" /\ recvs = {}
  <2>1. q.paired = NoBlock
    BY <1>1, <1>8
  <2>2. \A y \in Listed(height) : world.blocks[y].from # hash
    BY <1>3, <1>8
  <2> QED  BY <1>1, <1>5, <1>8, <2>1, <2>2 DEF PairedRight
<1>9. CASE b.from = "" /\ recvs # {}
  <2>1. other = recvs
    BY <1>9
  <2>2. pick \in DOMAIN world.blocks /\ world.blocks[pick].from = hash
    BY <1>3, <1>6, <1>9, <2>1
  <2>3. q.paired = world.blocks[pick]
    BY <1>1, <1>9, <2>1
  <2> QED  BY <1>1, <1>5, <1>9, <2>2, <2>3 DEF PairedRight
<1> QED  BY <1>7, <1>8, <1>9

\* The sends without a pair after the block q is stored.
LeftBy(xs, q) ==
  {x \in DOMAIN world.blocks :
     (q.hash = x /\ q.paired = NoBlock) \/ (x \in xs /\ ~Concerns(q, x))}

\* Storing such a block pairs what it concerns, or leaves its send without a pair.
LEMMA StoredPairs ==
  ASSUME ProcessInv, PairsInv, pc # "idle",
         NEW t, NEW xs, PairsAgree(t, xs), DOMAIN t \subseteq DOMAIN db.blocks \cup Listed(height),
         NEW q, PairedRight(q), NEW ts, NEW u, Stores(u, t, q, ts)
  PROVE  PairsAgree(u, LeftBy(xs, q)) /\ DOMAIN u \subseteq DOMAIN db.blocks \cup Listed(height)
<1> DEFINE W == world.blocks
           S == DOMAIN db.blocks \cup Listed(height)
           h == q.hash
           ph == q.paired.hash
           left == LeftBy(xs, q)
<1>1. world \in Worlds /\ tip \in 1..Len(world.chain) /\ height \in 1..tip
  BY DEF ProcessInv
<1>2. S \subseteq DOMAIN W
  BY <1>1, ConfirmedFacts DEF PairsInv
<1>3. h \in S /\ DOMAIN u = DOMAIN t \cup {h} /\ DOMAIN u \subseteq S
  BY DEF PairedRight, Stores
<1>4. \A x \in DOMAIN u :
        u[x].paired = IF q.paired # NoBlock /\ x = ph THEN h
                      ELSE IF x = h THEN ph ELSE t[x].paired
  BY DEF Stores, StoresRow
<1>5. \A x \in DOMAIN W : /\ x # "" /\ W[x].hash = x /\ W[x] # NoBlock
                          /\ W[x].from # "" =>
                               /\ W[x].from \in DOMAIN W /\ W[W[x].from].from = ""
                               /\ \A y \in DOMAIN W : W[y].from = W[x].from => x = y
  <2> SUFFICES ASSUME NEW x \in DOMAIN W
               PROVE  /\ x # "" /\ W[x].hash = x /\ W[x] # NoBlock
                      /\ W[x].from # "" =>
                           /\ W[x].from \in DOMAIN W /\ W[W[x].from].from = ""
                           /\ \A y \in DOMAIN W : W[y].from = W[x].from => x = y
    OBVIOUS
  <2>1. /\ x # "" /\ W[x].hash = x
        /\ W[x].from # "" =>
             /\ W[x].from \in DOMAIN W /\ W[W[x].from].from = ""
             /\ \A y \in DOMAIN W : W[y].from = W[x].from => x = y
    BY <1>1, BlockFacts
  <2>2. NoBlock.hash = ""
    BY DEF NoBlock
  <2> QED  BY <2>1, <2>2
<1>6. /\ W[h].from # "" => q.paired # NoBlock /\ ph = W[h].from
      /\ W[h].from = "" =>
           \/ q.paired = NoBlock /\ ph = ""
           \/ q.paired # NoBlock /\ ph \in DOMAIN W /\ W[ph].from = h
  <2>1. h \in DOMAIN W
    BY <1>2, <1>3
  <2>2. ASSUME W[h].from # "" PROVE q.paired # NoBlock /\ ph = W[h].from
    <3>1. q.paired = W[W[h].from]
      BY <2>2 DEF PairedRight
    <3>2. W[h].from \in DOMAIN W
      BY <1>5, <2>1, <2>2
    <3> DEFINE z == W[h].from
    <3>3. z \in DOMAIN W /\ q.paired = W[z] /\ ph = z
      <4> HIDE DEF z
      <4>1. z \in DOMAIN W /\ q.paired = W[z]
        BY <3>1, <3>2 DEF z
      <4> QED  BY <1>5, <4>1
    <3> HIDE DEF z, W
    <3>4. W[z] # NoBlock
      BY <1>5, <3>3
    <3> QED  BY <3>3, <3>4 DEF z
  <2>3. ASSUME W[h].from = "", q.paired # NoBlock
        PROVE  q.paired # NoBlock /\ ph \in DOMAIN W /\ W[ph].from = h
    <3>1. PICK y \in DOMAIN W : W[y].from = h /\ q.paired = W[y]
      BY <2>3 DEF PairedRight
    <3> QED  BY <1>5, <3>1
  <2>4. NoBlock.hash = ""
    BY DEF NoBlock
  <2> QED  BY <2>2, <2>3, <2>4
<1>0. \A z \in DOMAIN W : z \in left <=> (h = z /\ q.paired = NoBlock)
                                       \/ (z \in xs /\ h # z /\ W[h].from # z)
  BY DEF LeftBy, Concerns
<1> HIDE DEF left
<1> SUFFICES ASSUME NEW y \in DOMAIN u, W[y].from # ""
             PROVE  /\ u[y].paired = W[y].from
                    /\ W[y].from \in DOMAIN u =>
                         u[W[y].from].paired = IF W[y].from \in left THEN "" ELSE y
  BY <1>3 DEF PairsAgree, left
<1> DEFINE x == W[y].from
<1>7. /\ x \in DOMAIN W /\ y \in DOMAIN W /\ h \in DOMAIN W
      /\ x # "" /\ W[x].from = "" /\ x # y
      /\ \A z \in DOMAIN W : W[z].from = x => y = z
  <2>1. y \in DOMAIN W /\ h \in DOMAIN W
    BY <1>2, <1>3
  <2> HIDE DEF W
  <2>2. x \in DOMAIN W /\ W[x].from = "" /\ \A z \in DOMAIN W : W[z].from = x => y = z
    BY <1>5, <2>1
  <2> QED  BY <2>1, <2>2
<1> HIDE DEF W, S, h, ph, x
<1>8. CASE y = h
  <2>1. q.paired # NoBlock /\ ph = x
    BY <1>6, <1>8 DEF x
  <2>2. x \notin left
    BY <1>0, <1>7, <1>8 DEF x
  <2> QED  BY <1>4, <1>7, <1>8, <2>1, <2>2 DEF x
<1>9. ASSUME y # h PROVE y \in DOMAIN t /\ t[y].paired = x /\ u[y].paired = x
  <2>1. y \in DOMAIN t /\ t[y].paired = x
    <3>1. y \in DOMAIN t
      BY <1>3, <1>9
    <3> QED  BY <3>1 DEF PairsAgree, x, W
  <2>2. q.paired # NoBlock /\ y = ph => h = x
    <3>1. ASSUME W[h].from # "", y = ph PROVE FALSE
      <4>1. ph = W[h].from /\ W[ph].from = ""
        BY <1>5, <1>6, <1>7, <3>1
      <4> QED  BY <3>1, <4>1
    <3>2. ASSUME W[h].from = "", q.paired # NoBlock, y = ph PROVE h = x
      BY <1>6, <3>2 DEF x
    <3> QED  BY <3>1, <3>2
  <2> QED  BY <1>4, <1>9, <2>1, <2>2
<1>10. CASE x = h
  <2>1. y # h /\ u[y].paired = x
    BY <1>7, <1>9, <1>10
  <2>2. x \in left <=> q.paired = NoBlock
    BY <1>0, <1>7, <1>10
  <2>3. W[h].from = "" /\ h \in DOMAIN u
    BY <1>3, <1>7, <1>10
  <2>4. CASE q.paired = NoBlock
    BY <1>4, <1>6, <1>10, <2>1, <2>2, <2>3, <2>4 DEF x
  <2>5. CASE q.paired # NoBlock
    <3>1. ph = y
      BY <1>6, <1>7, <1>10, <2>3, <2>5
    <3>2. ph # h
      BY <2>1, <3>1
    <3> QED  BY <1>4, <1>10, <2>1, <2>2, <2>3, <2>5, <3>1, <3>2 DEF x
  <2> QED  BY <2>4, <2>5
<1>11. CASE y # h /\ x # h
  <2>1. u[y].paired = x
    BY <1>9, <1>11
  <2>2. x \in left <=> x \in xs
    BY <1>0, <1>7, <1>11
  <2>3. ASSUME x \in DOMAIN u PROVE u[x].paired = IF x \in xs THEN "" ELSE y
    <3>1. y \in DOMAIN t /\ x \in DOMAIN t
      BY <1>3, <1>9, <1>11, <2>3
    <3>2. t[x].paired = IF x \in xs THEN "" ELSE y
      BY <1>7, <3>1 DEF PairsAgree, x, W
    <3>3. ASSUME q.paired # NoBlock PROVE ph # x
      <4>1. ASSUME W[h].from # "" PROVE ph # x
        BY <1>6, <1>7, <1>11, <4>1
      <4>2. ASSUME W[h].from = "" PROVE ph # x
        <5>1. W[ph].from = h /\ h # ""
          BY <1>5, <1>6, <1>7, <3>3, <4>2
        <5> QED  BY <1>7, <5>1
      <4> QED  BY <4>1, <4>2
    <3> QED  BY <1>4, <1>11, <2>3, <3>2, <3>3
  <2> QED  BY <2>1, <2>2, <2>3 DEF x
<1> QED  BY <1>8, <1>10, <1>11

-----------------------------------------------------------------------------
(* The batch and the sends it leaves without a pair *)

\* One more entry of the batch executed.
LEMMA UnpairedNext ==
  ASSUME NEW k \in Nat
  PROVE  UnpairedBy(k + 1) = IF batch[k + 1].kind = "block" THEN LeftBy(UnpairedBy(k), batch[k + 1])
                             ELSE UnpairedBy(k)
<1> DEFINE q == batch[k + 1]
           Blank(i, x) == batch[i].kind = "block" /\ batch[i].hash = x /\ batch[i].paired = NoBlock
           By(m, x) == \/ \E i \in 1..m : Blank(i, x) /\ \A j \in (i + 1)..m : ~Stored(j, x)
                       \/ x \in Unpaired /\ \A j \in 1..m : ~Stored(j, x)
<1>1. \A m : \A x \in DOMAIN world.blocks : x \in UnpairedBy(m) <=> By(m, x)
  BY DEF UnpairedBy
<1>2. ASSUME NEW x
      PROVE  By(k + 1, x) <=> Blank(k + 1, x) \/ (By(k, x) /\ ~Stored(k + 1, x))
  <2> HIDE DEF Blank
  <2>1. /\ k + 1 \in 1..(k + 1) /\ \A i \in 1..k : i \in 1..(k + 1)
        /\ \A i \in 1..(k + 1) : i = k + 1 \/ i \in 1..k
        /\ \A j : j \notin (k + 1 + 1)..(k + 1)
        /\ \A i \in 1..k : /\ k + 1 \in (i + 1)..(k + 1)
                           /\ \A j \in (i + 1)..k : j \in (i + 1)..(k + 1)
                           /\ \A j \in (i + 1)..(k + 1) : j = k + 1 \/ j \in (i + 1)..k
    OBVIOUS
  <2>2. ASSUME By(k + 1, x) PROVE Blank(k + 1, x) \/ (By(k, x) /\ ~Stored(k + 1, x))
    <3>1. ASSUME NEW i \in 1..(k + 1), Blank(i, x), \A j \in (i + 1)..(k + 1) : ~Stored(j, x)
          PROVE  Blank(k + 1, x) \/ (By(k, x) /\ ~Stored(k + 1, x))
      BY <2>1, <3>1
    <3>2. ASSUME x \in Unpaired, \A j \in 1..(k + 1) : ~Stored(j, x)
          PROVE  By(k, x) /\ ~Stored(k + 1, x)
      BY <2>1, <3>2
    <3> QED  BY <2>2, <3>1, <3>2
  <2>3. ASSUME Blank(k + 1, x) PROVE By(k + 1, x)
    BY <2>1, <2>3
  <2>4. ASSUME By(k, x), ~Stored(k + 1, x) PROVE By(k + 1, x)
    <3>1. ASSUME NEW i \in 1..k, Blank(i, x), \A j \in (i + 1)..k : ~Stored(j, x)
          PROVE  By(k + 1, x)
      BY <2>1, <2>4, <3>1
    <3>2. ASSUME x \in Unpaired, \A j \in 1..k : ~Stored(j, x) PROVE By(k + 1, x)
      BY <2>1, <2>4, <3>2
    <3> QED  BY <2>4, <3>1, <3>2
  <2> QED  BY <2>2, <2>3, <2>4
<1>3. UnpairedBy(k) \subseteq DOMAIN world.blocks /\ UnpairedBy(k + 1) \subseteq DOMAIN world.blocks
  BY DEF UnpairedBy
<1> HIDE DEF By
<1>4. CASE q.kind = "block"
  <2>1. ASSUME NEW x \in DOMAIN world.blocks
        PROVE  x \in UnpairedBy(k + 1) <=> x \in LeftBy(UnpairedBy(k), q)
    <3>1. x \in UnpairedBy(k + 1) <=> Blank(k + 1, x) \/ (x \in UnpairedBy(k) /\ ~Stored(k + 1, x))
      BY <1>1, <1>2
    <3>2. /\ Blank(k + 1, x) <=> q.hash = x /\ q.paired = NoBlock
          /\ Stored(k + 1, x) <=> Concerns(q, x)
      BY <1>4 DEF Stored
    <3> QED  BY <3>1, <3>2 DEF LeftBy
  <2>2. LeftBy(UnpairedBy(k), q) \subseteq DOMAIN world.blocks
    BY DEF LeftBy
  <2> HIDE DEF q
  <2>3. UnpairedBy(k + 1) = LeftBy(UnpairedBy(k), q)
    BY <1>3, <2>1, <2>2
  <2> QED  BY <1>4, <2>3 DEF q
<1>5. CASE q.kind # "block"
  <2>1. \A x : ~Blank(k + 1, x) /\ ~Stored(k + 1, x)
    BY <1>5 DEF Stored
  <2>2. UnpairedBy(k + 1) = UnpairedBy(k)
    BY <1>1, <1>2, <1>3, <2>1
  <2> QED  BY <1>5, <2>2
<1> QED  BY <1>4, <1>5

\* The batch becomes the last entry of the journal: what it left without a pair is what
\* the journal says.
LEMMA UnpairedCommit ==
  ASSUME world \in Worlds, height \in 1..Len(world.chain), IsSequence(batch),
         IsSequence(journal), BatchOnce,
         \A i \in DOMAIN batch : batch[i].kind = "block" => PairedRight(batch[i]),
         journal' = Append(journal, Entry), world' = world
  PROVE  Unpaired' = UnpairedBy(Len(batch))
<1> DEFINE L == Len(batch)
           J == Len(journal)
           Last(x) == \E q \in Entry.items : q.hash = x /\ q.pair = ""
           None(x) == \A q \in Entry.items : ~Concerns(q, x)
           Was(e, x) == \E q \in journal[e].items : q.hash = x /\ q.pair = ""
           Not(e, x) == \A q \in journal[e].items : ~Concerns(q, x)
<1>1. L \in Nat /\ DOMAIN batch = 1..L /\ J \in Nat /\ DOMAIN journal = 1..J
  BY SequenceDomain
<1>2. /\ DOMAIN journal' = 1..(J + 1) /\ journal'[J + 1] = Entry
      /\ \A e \in 1..J : journal'[e] = journal[e]
  <2> DEFINE S == {journal[e] : e \in DOMAIN journal} \cup {Entry}
  <2>1. journal \in Seq(S) /\ Entry \in S
    BY DEF IsSequence
  <2> HIDE DEF S
  <2>2. /\ Append(journal, Entry) \in Seq(S) /\ Len(Append(journal, Entry)) = J + 1
        /\ \A e \in 1..J : Append(journal, Entry)[e] = journal[e]
        /\ Append(journal, Entry)[J + 1] = Entry
    BY <2>1, AppendProperties
  <2>3. DOMAIN Append(journal, Entry) = 1..(J + 1)
    BY <2>2, LenProperties
  <2> QED  BY <2>2, <2>3
<1>3. Entry.items = {ItemOf(batch[i]) : i \in {i \in DOMAIN batch : batch[i].kind = "block"}}
  BY DEF Entry
<1> DEFINE W == world.blocks
           Blank(i, x) == batch[i].kind = "block" /\ batch[i].hash = x /\ batch[i].paired = NoBlock
<1>4. ASSUME NEW i \in 1..L, batch[i].kind = "block"
      PROVE  /\ batch[i].hash \in Listed(height)
             /\ batch[i].paired.hash = "" <=> batch[i].paired = NoBlock
             /\ batch[i].paired = NoBlock => \A y \in Listed(height) : W[y].from # batch[i].hash
  <2> DEFINE b == batch[i]
  <2>1. PairedRight(b)
    BY <1>1, <1>4
  <2> HIDE DEF b
  <2>2. b.hash \in Listed(height) /\ b.hash \in DOMAIN W
    BY <2>1, ChainFacts DEF PairedRight
  <2>3. \A z \in DOMAIN W : W[z].hash # "" /\ W[z] # NoBlock
    <3> SUFFICES ASSUME NEW z \in DOMAIN W PROVE W[z].hash # "" /\ W[z] # NoBlock
      OBVIOUS
    <3>1. W[z].hash # ""
      BY BlockFacts
    <3>2. NoBlock.hash = ""
      BY DEF NoBlock
    <3> QED  BY <3>1, <3>2
  <2>4. CASE W[b.hash].from # ""
    <3>1. W[b.hash].from \in DOMAIN W
      BY <2>2, <2>4, BlockFacts
    <3>2. b.paired = W[W[b.hash].from]
      BY <2>1, <2>4 DEF PairedRight
    <3> HIDE DEF W
    <3> QED  BY <2>2, <2>3, <3>1, <3>2 DEF b
  <2>5. CASE W[b.hash].from = ""
    <3>1. \/ b.paired = NoBlock /\ \A y \in Listed(height) : W[y].from # b.hash
          \/ \E y \in DOMAIN W : b.paired = W[y]
      BY <2>1, <2>5 DEF PairedRight
    <3>2. NoBlock.hash = ""
      BY DEF NoBlock
    <3> HIDE DEF W
    <3> QED  BY <2>2, <2>3, <3>1, <3>2 DEF b
  <2> QED  BY <2>4, <2>5
<1>5. ASSUME NEW x
      PROVE  /\ Last(x) <=> \E i \in 1..L : Blank(i, x)
             /\ None(x) <=> \A j \in 1..L : ~Stored(j, x)
  <2>1. \A q : ItemOf(q).hash = q.hash /\ ItemOf(q).pair = q.paired.hash
    BY DEF ItemOf
  <2>2. Last(x) <=> \E i \in 1..L : Blank(i, x)
    <3>1. ASSUME Last(x) PROVE \E i \in 1..L : Blank(i, x)
      <4>1. PICK i \in 1..L : /\ batch[i].kind = "block"
                              /\ ItemOf(batch[i]).hash = x /\ ItemOf(batch[i]).pair = ""
        BY <1>1, <1>3, <3>1
      <4>2. batch[i].hash = x /\ batch[i].paired.hash = ""
        BY <2>1, <4>1
      <4> QED  BY <1>4, <4>1, <4>2
    <3>2. ASSUME NEW i \in 1..L, Blank(i, x) PROVE Last(x)
      <4>1. ItemOf(batch[i]) \in Entry.items
        BY <1>1, <1>3, <3>2
      <4>2. ItemOf(batch[i]).hash = x /\ ItemOf(batch[i]).pair = ""
        BY <1>4, <2>1, <3>2
      <4> QED  BY <4>1, <4>2
    <3> QED  BY <3>1, <3>2
  <2>3. \A q : Concerns(ItemOf(q), x) <=> Concerns(q, x)
    BY <2>1 DEF Concerns
  <2>4. None(x) <=> \A j \in 1..L : ~Stored(j, x)
    <3>1. None(x) <=> \A j \in 1..L : batch[j].kind = "block" => ~Concerns(ItemOf(batch[j]), x)
      BY <1>1, <1>3
    <3> QED  BY <2>3, <3>1 DEF Stored
  <2> QED  BY <2>2, <2>4
<1>6. ASSUME NEW x, NEW i \in 1..L, Blank(i, x)
      PROVE  \A j \in (i + 1)..L : ~Stored(j, x)
  <2> SUFFICES ASSUME NEW j \in (i + 1)..L, Stored(j, x) PROVE FALSE
    OBVIOUS
  <2>1. j \in 1..L /\ j # i
    BY <1>1
  <2>2. batch[j].kind = "block" /\ Concerns(batch[j], x)
    BY DEF Stored
  <2>3. batch[j].hash # x
    BY <1>1, <1>6, <2>1, <2>2 DEF BatchOnce
  <2>4. W[batch[j].hash].from = x /\ batch[j].hash \in Listed(height)
    BY <1>4, <2>1, <2>2, <2>3 DEF Concerns
  <2> QED  BY <1>4, <1>6, <2>4
<1>7. ASSUME NEW x \in DOMAIN W
      PROVE  x \in UnpairedBy(L) <=> Last(x) \/ (x \in Unpaired /\ None(x))
  BY <1>5, <1>6 DEF UnpairedBy
<1> HIDE DEF Last, None
<1>8. ASSUME NEW x \in DOMAIN W
      PROVE  x \in Unpaired' <=> Last(x) \/ (x \in Unpaired /\ None(x))
  <2> DEFINE Was2(e) == \E q \in journal'[e].items : q.hash = x /\ q.pair = ""
             Not2(e) == \A q \in journal'[e].items : ~Concerns(q, x)
  <2>1. \A q : Concerns(q, x)' <=> Concerns(q, x)
    BY DEF Concerns
  <2>2. x \in Unpaired' <=> \E e \in 1..(J + 1) : Was2(e) /\ \A f \in 1..(J + 1) : f > e => Not2(f)
    <3>1. x \in Unpaired' <=> \E e \in DOMAIN journal' :
            Was2(e) /\ \A f \in DOMAIN journal' : f > e => \A q \in journal'[f].items : ~Concerns(q, x)'
      BY DEF Unpaired
    <3> QED  BY <1>2, <2>1, <3>1
  <2>3. x \in Unpaired <=> \E e \in 1..J : Was(e, x) /\ \A f \in 1..J : f > e => Not(f, x)
    BY <1>1 DEF Unpaired
  <2>4. /\ Was2(J + 1) <=> Last(x)
        /\ Not2(J + 1) <=> None(x)
        /\ \A e \in 1..J : (Was2(e) <=> Was(e, x)) /\ (Not2(e) <=> Not(e, x))
    BY <1>2 DEF Last, None
  <2> HIDE DEF Was2, Not2, Was, Not
  <2>5. /\ J + 1 \in 1..(J + 1) /\ \A e \in 1..J : e \in 1..(J + 1) /\ J + 1 > e
        /\ \A e \in 1..(J + 1) : e = J + 1 \/ e \in 1..J
        /\ \A e \in 1..(J + 1) : ~(e > J + 1)
    BY <1>1
  <2>6. ASSUME x \in Unpaired' PROVE Last(x) \/ (x \in Unpaired /\ None(x))
    <3>1. PICK e \in 1..(J + 1) : Was2(e) /\ \A f \in 1..(J + 1) : f > e => Not2(f)
      BY <2>2, <2>6
    <3>2. CASE e = J + 1
      BY <2>4, <3>1, <3>2
    <3>3. CASE e \in 1..J
      <4>1. None(x) /\ Was(e, x)
        BY <2>4, <2>5, <3>1, <3>3
      <4>2. \A f \in 1..J : f > e => Not(f, x)
        BY <2>4, <2>5, <3>1
      <4> QED  BY <2>3, <3>3, <4>1, <4>2
    <3> QED  BY <2>5, <3>2, <3>3
  <2>7. ASSUME Last(x) PROVE x \in Unpaired'
    BY <2>2, <2>4, <2>5, <2>7
  <2>8. ASSUME x \in Unpaired, None(x) PROVE x \in Unpaired'
    <3>1. PICK e \in 1..J : Was(e, x) /\ \A f \in 1..J : f > e => Not(f, x)
      BY <2>3, <2>8
    <3>2. Was2(e) /\ e \in 1..(J + 1)
      BY <2>4, <2>5, <3>1
    <3>3. ASSUME NEW f \in 1..(J + 1), f > e PROVE Not2(f)
      BY <2>4, <2>5, <2>8, <3>1, <3>3
    <3> QED  BY <2>2, <3>2, <3>3
  <2> QED  BY <2>6, <2>7, <2>8
<1>9. Unpaired' \subseteq DOMAIN W /\ UnpairedBy(L) \subseteq DOMAIN W
  BY DEF Unpaired, UnpairedBy
<1> QED  BY <1>7, <1>8, <1>9

-----------------------------------------------------------------------------
(* Queues and lists *)

\* A sequence over some set is a sequence of its own elements.
LEMMA OverSet ==
  ASSUME NEW S, NEW s \in Seq(S)
  PROVE  IsSequence(s) /\ \A i \in DOMAIN s : s[i] \in S
<1>1. s \in [1..Len(s) -> S] /\ Len(s) \in Nat
  BY LenProperties
<1>2. s = [i \in 1..Len(s) |-> s[i]]
  BY <1>1
<1>3. IsSequence(s)
  BY <1>1, <1>2, SequenceOf
<1> QED  BY <1>1, <1>3

\* The elements of a concatenation are those of its parts.
SequenceIn(s, S) == IsSequence(s) /\ \A i \in DOMAIN s : s[i] \in S

\* A concatenation ends as its second part does.
Joins(c, s, t) == Len(c) = Len(s) + Len(t) /\ (Len(t) > 0 => c[Len(c)] = t[Len(t)])

\* Two sequences end to end.
LEMMA Concatenation ==
  ASSUME NEW S, NEW s, SequenceIn(s, S), NEW t, SequenceIn(t, S)
  PROVE  SequenceIn(s \o t, S) /\ Joins(s \o t, s, t)
<1>1. /\ Len(s) \in Nat /\ DOMAIN s = 1..Len(s)
      /\ Len(t) \in Nat /\ DOMAIN t = 1..Len(t)
  BY SequenceDomain DEF SequenceIn
<1>2. s \in Seq({s[i] : i \in DOMAIN s}) /\ t \in Seq({t[i] : i \in DOMAIN t})
  BY DEF SequenceIn, IsSequence
<1>3. {s[i] : i \in DOMAIN s} \subseteq S /\ {t[i] : i \in DOMAIN t} \subseteq S
  BY DEF SequenceIn
<1>4. s \in Seq(S) /\ t \in Seq(S)
  BY <1>2, <1>3
<1>5. /\ s \o t \in Seq(S) /\ Len(s \o t) = Len(s) + Len(t)
      /\ \A i \in 1 .. Len(s) + Len(t) : (s \o t)[i] =
           IF i <= Len(s) THEN s[i] ELSE t[i - Len(s)]
  BY <1>4, ConcatProperties
<1>6. Len(t) > 0 => (s \o t)[Len(s \o t)] = t[Len(t)]
  BY <1>1, <1>5
<1> QED  BY <1>4, <1>5, <1>6, OverSet DEF SequenceIn, Joins

\* An entry of two sequences end to end is one of the first, at its place, or one of the
\* second.
LEMMA ConcatEntries ==
  ASSUME NEW s, IsSequence(s), NEW t, IsSequence(t), NEW k \in DOMAIN (s \o t)
  PROVE  \/ k \in DOMAIN s /\ (s \o t)[k] = s[k]
         \/ \E j \in DOMAIN t : (s \o t)[k] = t[j]
<1> DEFINE S == {s[i] : i \in DOMAIN s} \cup {t[i] : i \in DOMAIN t}
<1>1. /\ Len(s) \in Nat /\ DOMAIN s = 1..Len(s)
      /\ Len(t) \in Nat /\ DOMAIN t = 1..Len(t)
  BY SequenceDomain
<1>2. s \in Seq(S) /\ t \in Seq(S)
  BY DEF IsSequence
<1> HIDE DEF S
<1>3. /\ s \o t \in Seq(S) /\ Len(s \o t) = Len(s) + Len(t)
      /\ \A i \in 1 .. Len(s) + Len(t) : (s \o t)[i] =
           IF i <= Len(s) THEN s[i] ELSE t[i - Len(s)]
  BY <1>2, ConcatProperties
<1>4. k \in 1 .. Len(s) + Len(t)
  BY <1>3, LenProperties
<1>5. CASE k <= Len(s)
  BY <1>1, <1>3, <1>4, <1>5
<1>6. CASE ~(k <= Len(s))
  <2>1. k - Len(s) \in DOMAIN t /\ (s \o t)[k] = t[k - Len(s)]
    BY <1>1, <1>3, <1>4, <1>6
  <2> QED  BY <2>1
<1> QED  BY <1>5, <1>6

-----------------------------------------------------------------------------
(* Frames: what a step does not touch *)

\* The journal's word on pairs, and the batch's.
LEMMA UnpairedFrame ==
  ASSUME UNCHANGED <<world, journal>>
  PROVE  /\ Unpaired' = Unpaired
         /\ batch' = batch => \A k : UnpairedBy(k)' = UnpairedBy(k)
<1>1. Unpaired' = Unpaired
  BY DEF Unpaired, Concerns
<1>2. ASSUME batch' = batch, NEW k PROVE UnpairedBy(k)' = UnpairedBy(k)
  BY <1>1, <1>2 DEF UnpairedBy, Stored, Concerns
<1> QED  BY <1>1, <1>2

\* What the tables of the next state say of pairs, on the same chain.
LEMMA PairsPrimed ==
  ASSUME world' = world
  PROVE  /\ PairsAgree(db'.blocks, Unpaired') => PairsAgree(db.blocks, Unpaired)'
         /\ PairsAgree(stage'.blocks, UnpairedBy(pos)') => PairsAgree(stage.blocks, UnpairedBy(pos))'
<1>1. PairsAgree(db'.blocks, Unpaired') => PairsAgree(db.blocks, Unpaired)'
  BY DEF PairsAgree
<1>2. PairsAgree(stage'.blocks, UnpairedBy(pos)') => PairsAgree(stage.blocks, UnpairedBy(pos))'
  BY DEF PairsAgree
<1> QED  BY <1>1, <1>2

\* RefreshInv depends on the refresh alone.
LEMMA RefreshFrame ==
  ASSUME RefreshInv, UNCHANGED refreshVars
  PROVE  RefreshInv'
BY DEF RefreshInv, refreshVars, IsSequence

\* ProcessInv depends on processing alone.
LEMMA ProcessFrame ==
  ASSUME ProcessInv, UNCHANGED <<world, tip, processing>>
  PROVE  ProcessInv'
BY DEF ProcessInv, processing, IsSequence, Content

\* The other writers: their statements go to the committed tables while no
\* transaction is open, and store no block.
LEMMA TablesFrame ==
  ASSUME TablesInv, UNCHANGED <<world, processing>>,
         db' = db \/ (pc # "exec" /\ Steps(db, db')),
         db'.blocks = db.blocks, DOMAIN db'.momentums = DOMAIN db.momentums
  PROVE  TablesInv'
<1>1. /\ pc' = pc /\ height' = height /\ pos' = pos /\ batch' = batch /\ stage' = stage
  BY DEF processing
<1>2. Fine(db') /\ Refers(db') /\ HeightsIn(db', DOMAIN db'.momentums)
  BY DEF TablesInv, Steps, HeightsIn
<1>3. ASSUME pc = "exec" PROVE db' = db
  BY <1>3
<1> QED  BY <1>1, <1>2, <1>3 DEF TablesInv, HeightsIn

\* PairsInv depends on processing, the journal and the blocks alone.
LEMMA PairsFrame ==
  ASSUME PairsInv, UNCHANGED <<world, tip, processing, journal>>, db'.blocks = db.blocks
  PROVE  PairsInv'
<1>1. /\ pc' = pc /\ height' = height /\ pos' = pos /\ batch' = batch /\ stage' = stage
      /\ world' = world /\ tip' = tip /\ journal' = journal
  BY DEF processing
<1>2. /\ Confirmed(tip)' = Confirmed(tip) /\ Listed(height)' = Listed(height)
      /\ Fetched' = Fetched /\ BatchOnce' = BatchOnce
  BY <1>1 DEF Confirmed, Listed, Content, Fetched, BatchOnce
<1>3. Unpaired' = Unpaired /\ UnpairedBy(pos)' = UnpairedBy(pos)
  <2>1. Unpaired' = Unpaired /\ \A k : UnpairedBy(k)' = UnpairedBy(k)
    BY <1>1, UnpairedFrame
  <2>2. UnpairedBy(pos)' = UnpairedBy(pos)
    BY <1>1, <2>1 DEF UnpairedBy, Stored, Concerns
  <2> QED  BY <2>1, <2>2
<1>4. /\ PairsAgree(db.blocks, Unpaired)'
      /\ pc = "exec" => PairsAgree(stage.blocks, UnpairedBy(pos))'
  <2>1. /\ PairsAgree(db'.blocks, Unpaired')
        /\ pc = "exec" => PairsAgree(stage'.blocks, UnpairedBy(pos)')
    BY <1>1, <1>3 DEF PairsInv
  <2> QED  BY <1>1, <2>1, PairsPrimed
<1>5. \A i \in DOMAIN batch : PairedRight(batch[i]) => PairedRight(batch[i])'
  BY <1>1, <1>2 DEF PairedRight
<1>6. IsSequence(journal)'
  BY <1>1 DEF PairsInv, IsSequence
<1> QED  BY <1>1, <1>2, <1>4, <1>5, <1>6 DEF PairsInv

\* Unchanged tables reopen nothing.
LEMMA NoReopen ==
  ASSUME NEW d
  PROVE  NothingReopens(d, d)
BY DEF NothingReopens

\* The process is between momentums.
LEMMA IdleInv ==
  ASSUME ProcessInv, UNCHANGED <<world, tip>>, Idle,
         Fine(db'), Refers(db'), HeightsIn(db', DOMAIN db'.momentums),
         PairsAgree(db'.blocks, Unpaired'), DOMAIN db'.blocks \subseteq Confirmed(tip),
         IsSequence(journal')
  PROVE  ProcessInv' /\ TablesInv' /\ PairsInv'
<1>1. ProcessInv'
  BY DEF ProcessInv, Idle
<1>2. TablesInv'
  BY DEF TablesInv, Idle, HeightsIn
<1>3. Confirmed(tip)' = Confirmed(tip) /\ PairsAgree(db.blocks, Unpaired)'
  <2>1. Confirmed(tip)' = Confirmed(tip)
    BY DEF Confirmed, Content
  <2> QED  BY <2>1, PairsPrimed
<1>4. PairsInv'
  BY <1>3 DEF PairsInv, Idle, IsSequence
<1> QED  BY <1>1, <1>2, <1>4

-----------------------------------------------------------------------------
(* Every step keeps the invariant and reopens nothing *)

\* Preserved by a step, with what the step may do to the committed tables.
Kept == ExplorerInv' /\ NothingReopens(db, db')

\* The invariant holds of the empty database.
LEMMA InitInv ==
  ASSUME Init
  PROVE  ExplorerInv
<1>1. /\ world \in Worlds /\ tip = 1 /\ db = EmptyDB /\ pc = "idle"
      /\ refresh = "idle" /\ fetched = FALSE /\ list = <<>> /\ row = 0 /\ page = 0
      /\ journal = <<>>
  BY DEF Init, CachedInit, LedgerInit
<1>2. ProcessInv
  BY <1>1, ChainFacts DEF ProcessInv
<1>3. RefreshInv
  BY <1>1 DEF RefreshInv, IsSequence
<1>4. /\ DOMAIN EmptyDB = Tables /\ \A t \in Tables : EmptyDB[t] = <<>>
      /\ EmptyDB.stakes = <<>> /\ EmptyDB.fusions = <<>> /\ EmptyDB.sentinels = <<>>
      /\ EmptyDB.htlcs = <<>> /\ EmptyDB.pillars = <<>> /\ EmptyDB.accounts = <<>>
      /\ EmptyDB.delegations = <<>> /\ EmptyDB.projects = <<>> /\ EmptyDB.phases = <<>>
      /\ EmptyDB.blocks = <<>> /\ EmptyDB.rewards = <<>> /\ EmptyDB.mints = <<>>
      /\ EmptyDB.burns = <<>>
  BY DEF EmptyDB, Tables
<1>5. DOMAIN <<>> = {}
  OBVIOUS
<1>6. Fine(EmptyDB)
  <2>1. DelegationRows(<<>>) /\ DelegationsAgree(<<>>, <<>>)
    BY DEF DelegationRows, DelegationsAgree, IsSequence
  <2>2. IsFiniteSet(DOMAIN <<>>)
    BY <1>5, FS_EmptySet
  <2>3. /\ LockRows(<<>>) /\ HtlcRows(<<>>) /\ PillarRows(<<>>) /\ AccountRows(<<>>)
    BY <1>5 DEF LockRows, HtlcRows, PillarRows, AccountRows
  <2> QED  BY <1>4, <2>1, <2>2, <2>3 DEF Fine
<1>7. Refers(EmptyDB)
  BY <1>4, <1>5 DEF Refers, Events, BlockRows
<1>8. TablesInv
  BY <1>1, <1>4, <1>5, <1>6, <1>7 DEF TablesInv, HeightsIn
<1>9. PairsInv
  BY <1>1, <1>4, <1>5 DEF PairsInv, PairsAgree, IsSequence
<1> QED  BY <1>2, <1>3, <1>8, <1>9 DEF ExplorerInv

\* A longer chain confirms what the shorter one did.
LEMMA NodeAdvanceKeeps ==
  ASSUME ExplorerInv, NodeAdvance, UNCHANGED refreshVars
  PROVE  Kept
<1>1. /\ tip' = tip + 1 /\ tip < Len(world.chain) /\ world' = world /\ db' = db
      /\ pc' = pc /\ height' = height /\ pos' = pos /\ batch' = batch /\ stage' = stage
      /\ journal' = journal
  BY DEF NodeAdvance, processing
<1>2. world \in Worlds /\ tip \in 1..Len(world.chain) /\ Len(world.chain) \in Nat
  BY ChainFacts DEF ExplorerInv, ProcessInv
<1>3. tip' \in 1..Len(world.chain) /\ \A h \in 1..tip : h \in 1..tip'
  BY <1>1, <1>2
<1>4. ProcessInv'
  BY <1>1, <1>3 DEF ExplorerInv, ProcessInv, IsSequence, Content
<1>5. TablesInv'
  BY <1>1, TablesFrame DEF ExplorerInv, processing
<1>6. /\ Confirmed(tip) \subseteq Confirmed(tip)' /\ Listed(height)' = Listed(height)
      /\ Fetched' = Fetched /\ BatchOnce' = BatchOnce
  BY <1>1, <1>3 DEF Confirmed, Listed, Content, Fetched, BatchOnce
<1>7. \A i \in DOMAIN batch : PairedRight(batch[i]) => PairedRight(batch[i])'
  BY <1>1, <1>6 DEF PairedRight
<1>8. /\ PairsAgree(db.blocks, Unpaired)'
      /\ pc = "exec" => PairsAgree(stage.blocks, UnpairedBy(pos))'
  <2>1. Unpaired' = Unpaired
    BY <1>1, UnpairedFrame
  <2>2. UnpairedBy(pos)' = UnpairedBy(pos)
    BY <1>1, <2>1 DEF UnpairedBy, Stored, Concerns
  <2> QED  BY <1>1, <2>1, <2>2 DEF ExplorerInv, PairsInv, PairsAgree
<1>9. PairsInv'
  BY <1>1, <1>6, <1>7, <1>8 DEF ExplorerInv, PairsInv, IsSequence
<1> QED  BY <1>1, <1>4, <1>5, <1>9, RefreshFrame, NoReopen DEF ExplorerInv, Kept

\* One lemma per step of processing: the height is chosen.
LEMMA ProcessMomentumKeeps ==
  ASSUME ExplorerInv, NEW m \in 1..tip, ProcessMomentum(m), UNCHANGED refreshVars
  PROVE  Kept
<1>1. /\ pc' = "queue" /\ height' = m /\ pos' = 0 /\ batch' = <<>>
      /\ world' = world /\ tip' = tip /\ db' = db /\ stage' = stage /\ journal' = journal
  BY DEF ProcessMomentum
<1>2. world \in Worlds /\ tip \in 1..Len(world.chain) /\ Len(world.chain) \in Nat
  BY ChainFacts DEF ExplorerInv, ProcessInv
<1>3. Len(Content(m)) \in Nat
  BY <1>2, ChainFacts
<1>4. ProcessInv'
  BY <1>1, <1>2, <1>3 DEF ProcessInv, IsSequence, Content
<1>5. TablesInv'
  BY <1>1 DEF ExplorerInv, TablesInv, HeightsIn
<1>6. Confirmed(tip)' = Confirmed(tip) /\ PairsAgree(db.blocks, Unpaired)'
  <2>1. Confirmed(tip)' = Confirmed(tip)
    BY <1>1 DEF Confirmed, Content
  <2>2. PairsAgree(db'.blocks, Unpaired')
    BY <1>1, UnpairedFrame DEF ExplorerInv, PairsInv
  <2> QED  BY <1>1, <2>1, <2>2, PairsPrimed
<1>7. PairsInv'
  BY <1>1, <1>6 DEF ExplorerInv, PairsInv, IsSequence, BatchOnce
<1> QED  BY <1>1, <1>4, <1>5, <1>7, RefreshFrame, NoReopen DEF ExplorerInv, Kept

\* While blocks are fetched the committed tables stay as they are.
LEMMA QueueFrame ==
  ASSUME ExplorerInv, pc = "queue", pc' = "queue",
         UNCHANGED <<world, tip, db, height, journal, refreshVars>>,
         pos' \in 0..Len(Content(height)), IsSequence(batch'), BatchOnce',
         \A i \in DOMAIN batch' : /\ Item(batch'[i])
                                  /\ batch'[i].kind = "block" => PairedRight(batch'[i])
                                  /\ batch'[i].kind = "block" => batch'[i].hash \in Fetched'
  PROVE  Kept
<1>1. ProcessInv'
  BY DEF ExplorerInv, ProcessInv, Content
<1>2. TablesInv'
  BY DEF ExplorerInv, TablesInv, HeightsIn
<1>3. /\ Confirmed(tip)' = Confirmed(tip) /\ PairsAgree(db.blocks, Unpaired)'
      /\ Listed(height)' = Listed(height)
  <2>1. Confirmed(tip)' = Confirmed(tip) /\ Listed(height)' = Listed(height)
    BY DEF Confirmed, Listed, Content
  <2>2. PairsAgree(db'.blocks, Unpaired')
    BY UnpairedFrame DEF ExplorerInv, PairsInv
  <2> QED  BY <2>1, <2>2, PairsPrimed
<1>4. \A i \in DOMAIN batch' : PairedRight(batch'[i]) => PairedRight(batch[i])'
  BY <1>3 DEF PairedRight
<1>5. IsSequence(journal)'
  BY DEF ExplorerInv, PairsInv, IsSequence
<1>6. PairsInv'
  BY <1>3, <1>4, <1>5 DEF ExplorerInv, PairsInv
<1> QED  BY <1>1, <1>2, <1>6, RefreshFrame, NoReopen DEF ExplorerInv, Kept

\* A block is fetched and its entry queued.
LEMMA FetchBlockKeeps ==
  ASSUME ExplorerInv, NEW lookup, NEW n \in height..tip, FetchBlock(lookup, n),
         UNCHANGED refreshVars
  PROVE  Kept
<1> DEFINE hash == Content(height)[pos + 1]
           q == Queued(hash, lookup, n)
           L == Len(batch)
<1>1. /\ pc = "queue" /\ pc' = "queue" /\ pos < Len(Content(height)) /\ pos' = pos + 1
      /\ batch' = Append(batch, q)
      /\ UNCHANGED <<world, tip, db, height, journal, refreshVars>>
  BY DEF FetchBlock
<1>2. /\ world \in Worlds /\ tip \in 1..Len(world.chain) /\ height \in 1..tip
      /\ pos \in 0..Len(Content(height)) /\ IsSequence(batch) /\ BatchOnce
      /\ \A i \in DOMAIN batch : /\ Item(batch[i])
                                 /\ batch[i].kind = "block" => PairedRight(batch[i])
                                 /\ batch[i].kind = "block" => batch[i].hash \in Fetched
  BY <1>1 DEF ExplorerInv, ProcessInv, PairsInv
<1>3. /\ Len(Content(height)) \in Nat /\ DOMAIN Content(height) = 1..Len(Content(height))
      /\ height \in DOMAIN world.chain
  <2>1. height \in 1..Len(world.chain) /\ DOMAIN world.chain = 1..Len(world.chain)
    BY <1>2, ChainFacts
  <2> QED  BY <1>2, <2>1, ChainFacts
<1>4. pos' \in 0..Len(Content(height)) /\ hash \in Listed(height)
  BY <1>1, <1>2, <1>3 DEF Listed
<1>5. Fetched' = Fetched \cup {hash}
  <2>1. \A k : Content(height)[k]' = Content(height)[k] /\ Content(height)' = Content(height)
    BY <1>1 DEF Content
  <2>2. Fetched' = {Content(height)[k] : k \in 1..(pos + 1)}
    BY <1>1, <2>1 DEF Fetched
  <2>3. /\ pos + 1 \in 1..(pos + 1) /\ \A k \in 1..pos : k \in 1..(pos + 1)
        /\ \A k \in 1..(pos + 1) : k = pos + 1 \/ k \in 1..pos
    BY <1>2
  <2> QED  BY <2>2, <2>3 DEF Fetched
<1>6. hash \notin Fetched
  <2> SUFFICES ASSUME NEW k \in 1..pos, hash = Content(height)[k] PROVE FALSE
    BY DEF Fetched
  <2>1. k \in DOMAIN Content(height) /\ pos + 1 \in DOMAIN Content(height) /\ k # pos + 1
    BY <1>1, <1>2, <1>3
  <2>2. \A i, j \in DOMAIN Content(height) : Content(height)[i] = Content(height)[j] => i = j
    <3>1. \A g, h \in DOMAIN world.chain :
            \A i \in DOMAIN world.chain[g].content, j \in DOMAIN world.chain[h].content :
              world.chain[g].content[i] = world.chain[h].content[j] => g = h /\ i = j
      BY <1>2, WorldsAssumption
    <3> QED  BY <1>3, <3>1 DEF Content
  <2> QED  BY <2>1, <2>2
<1>7. q.hash = hash
  BY DEF Queued
<1> HIDE DEF hash
<1>8. Item(q) /\ PairedRight(q)
  BY <1>1, <1>4, FetchedRight DEF ExplorerInv
<1> HIDE DEF q
<1>9. /\ L \in Nat /\ DOMAIN batch = 1..L
      /\ IsSequence(batch') /\ DOMAIN batch' = 1..(L + 1) /\ batch'[L + 1] = q
      /\ \A i \in 1..L : batch'[i] = batch[i]
  <2> DEFINE S == {batch[j] : j \in DOMAIN batch} \cup {q}
  <2>1. batch \in Seq(S) /\ q \in S
    BY <1>2 DEF IsSequence
  <2> HIDE DEF S
  <2>2. /\ batch' \in Seq(S) /\ Len(batch') = L + 1 /\ batch'[L + 1] = q
        /\ \A i \in 1..L : batch'[i] = batch[i]
    BY <1>1, <2>1, AppendProperties
  <2>3. DOMAIN batch' = 1..(L + 1) /\ IsSequence(batch')
    BY <2>2, OverSet, LenProperties
  <2> QED  BY <1>2, <2>2, <2>3, SequenceDomain
<1> HIDE DEF L
<1>10. \A i \in DOMAIN batch' : i = L + 1 \/ i \in 1..L
  BY <1>9
<1>11. \A i \in DOMAIN batch' :
         /\ Item(batch'[i])
         /\ batch'[i].kind = "block" => PairedRight(batch'[i])
         /\ batch'[i].kind = "block" => batch'[i].hash \in Fetched'
  BY <1>2, <1>5, <1>7, <1>8, <1>9, <1>10
<1>12. BatchOnce'
  <2> SUFFICES ASSUME NEW i \in DOMAIN batch', NEW j \in DOMAIN batch',
                      batch'[i].kind = "block", batch'[j].kind = "block",
                      batch'[i].hash = batch'[j].hash
               PROVE  i = j
    BY DEF BatchOnce
  <2>1. CASE i \in 1..L /\ j \in 1..L
    BY <1>2, <1>9, <2>1 DEF BatchOnce
  <2>2. CASE i = L + 1 /\ j \in 1..L
    BY <1>2, <1>6, <1>7, <1>9, <2>2
  <2>3. CASE i \in 1..L /\ j = L + 1
    BY <1>2, <1>6, <1>7, <1>9, <2>3
  <2> QED  BY <1>10, <2>1, <2>2, <2>3
<1> QED  BY <1>1, <1>4, <1>9, <1>11, <1>12, QueueFrame

\* A block that cannot be fetched is left out of the batch.
LEMMA SkipBlockKeeps ==
  ASSUME ExplorerInv, SkipBlock, UNCHANGED refreshVars
  PROVE  Kept
<1>1. /\ pc = "queue" /\ pc' = "queue" /\ pos < Len(Content(height)) /\ pos' = pos + 1
      /\ batch' = batch /\ UNCHANGED <<world, tip, db, height, journal, refreshVars>>
  BY DEF SkipBlock
<1>2. /\ world \in Worlds /\ tip \in 1..Len(world.chain) /\ height \in 1..tip
      /\ pos \in 0..Len(Content(height)) /\ IsSequence(batch) /\ BatchOnce
      /\ \A i \in DOMAIN batch : /\ Item(batch[i])
                                 /\ batch[i].kind = "block" => PairedRight(batch[i])
                                 /\ batch[i].kind = "block" => batch[i].hash \in Fetched
  BY <1>1 DEF ExplorerInv, ProcessInv, PairsInv
<1>3. Len(Content(height)) \in Nat
  BY <1>2, ChainFacts
<1>4. pos' \in 0..Len(Content(height)) /\ IsSequence(batch') /\ BatchOnce'
  BY <1>1, <1>2, <1>3 DEF IsSequence, BatchOnce
<1>5. Fetched \subseteq Fetched'
  <2>1. \A k \in 1..pos : k \in 1..pos'
    BY <1>1, <1>2
  <2> QED  BY <1>1, <2>1 DEF Fetched, Content
<1> QED  BY <1>1, <1>2, <1>4, <1>5, QueueFrame

\* The balances of the momentum's addresses are queued one entry per block.
LEMMA BalanceItemsQueued ==
  ASSUME NEW m, Len(Content(m)) \in Nat, DOMAIN Content(m) = 1..Len(Content(m)), NEW at
  PROVE  /\ IsSequence(updateBalances(m, at))
         /\ \A i \in DOMAIN updateBalances(m, at) :
              Item(updateBalances(m, at)[i]) /\ updateBalances(m, at)[i].kind = "balance"
<1> DEFINE u == updateBalances(m, at)
           a(i) == world.blocks[Content(m)[i]].address
           I(i) == [kind |-> "balance", address |-> a(i), asOf |-> at[i],
                    info |-> IF at[i] = 0 THEN <<>>
                             ELSE [t \in DOMAIN AccountInfo(a(i), at[i]) |->
                                     safeBigIntToInt64(AccountInfo(a(i), at[i])[t])]]
<1>1. u = [i \in Asked(m) |-> I(i)]
  BY DEF updateBalances
<1>2. \A i : I(i).kind = "balance"
  OBVIOUS
<1> HIDE DEF u, I
<1>3. PICK k \in Nat : Asked(m) = 1..k
  <2>1. 1..0 = {} /\ 0 \in Nat
    OBVIOUS
  <2> QED  BY <2>1 DEF Asked
<1>4. u = [i \in 1..k |-> I(i)]
  BY <1>1, <1>3
<1>5. IsSequence(u)
  BY <1>4, SequenceOf
<1>6. \A i \in DOMAIN u : u[i].kind = "balance"
  BY <1>2, <1>4
<1> QED  BY <1>5, <1>6 DEF Item, u

\* Balances and the momentum's own statements are queued, and the stage begins.
LEMMA QueueMomentumKeeps ==
  ASSUME ExplorerInv, QueueMomentum, UNCHANGED refreshVars
  PROVE  Kept
<1>0. PICK at \in [Asked(height) -> Frontiers \cup {0}] :
        batch' = batch \o updateBalances(height, at) \o <<MomentumItem(height)>>
  BY DEF QueueMomentum
<1> DEFINE u == updateBalances(height, at)
           i == MomentumItem(height)
           two == batch \o u
           one == <<i>>
           all == two \o one
<1>1. /\ pc = "queue" /\ pc' = "exec" /\ pos' = 0 /\ stage' = db /\ batch' = all
      /\ world' = world /\ tip' = tip /\ db' = db /\ height' = height /\ journal' = journal
  BY <1>0 DEF QueueMomentum
<1>2. /\ world \in Worlds /\ tip \in 1..Len(world.chain) /\ height \in 1..tip
      /\ IsSequence(batch) /\ BatchOnce
      /\ \A k \in DOMAIN batch : /\ Item(batch[k])
                                 /\ batch[k].kind = "block" => PairedRight(batch[k])
  BY <1>1 DEF ExplorerInv, ProcessInv, PairsInv
<1>3. IsSequence(u) /\ \A k \in DOMAIN u : Item(u[k]) /\ u[k].kind = "balance"
  BY <1>2, ChainFacts, BalanceItemsQueued
<1>4. i.kind = "momentum" /\ Item(i)
  BY DEF MomentumItem, Item
<1> HIDE DEF u, i
<1> DEFINE S == {batch[k] : k \in DOMAIN batch} \cup {u[k] : k \in DOMAIN u} \cup {i}
<1>5. SequenceIn(batch, S) /\ SequenceIn(u, S)
  BY <1>2, <1>3 DEF SequenceIn
<1>6. SequenceIn(one, S) /\ Len(one) = 1 /\ one[1] = i
  BY DEF SequenceIn, IsSequence
<1> HIDE DEF S, one
<1>7. SequenceIn(two, S)
  BY <1>5, Concatenation
<1>18. \A k \in DOMAIN two : two[k].kind = "block" => k \in DOMAIN batch /\ two[k] = batch[k]
  <2> SUFFICES ASSUME NEW k \in DOMAIN two, two[k].kind = "block"
               PROVE  k \in DOMAIN batch /\ two[k] = batch[k]
    OBVIOUS
  <2>1. \/ k \in DOMAIN batch /\ two[k] = batch[k]
        \/ \E j \in DOMAIN u : two[k] = u[j]
    BY <1>2, <1>3, ConcatEntries
  <2> QED  BY <1>3, <2>1
<1> HIDE DEF two
<1>8. SequenceIn(all, S) /\ Joins(all, two, one)
  BY <1>6, <1>7, Concatenation
<1>19. \A k \in DOMAIN all : all[k].kind = "block" => k \in DOMAIN batch /\ all[k] = batch[k]
  <2> SUFFICES ASSUME NEW k \in DOMAIN all, all[k].kind = "block"
               PROVE  k \in DOMAIN batch /\ all[k] = batch[k]
    OBVIOUS
  <2>1. \/ k \in DOMAIN two /\ all[k] = two[k]
        \/ \E j \in DOMAIN one : all[k] = one[j]
    BY <1>6, <1>7, ConcatEntries DEF SequenceIn
  <2>2. \A j \in DOMAIN one : one[j].kind = "momentum"
    BY <1>4 DEF one
  <2> QED  BY <1>18, <2>1, <2>2
<1>9. all[Len(all)] = i /\ Len(all) = Len(two) + 1
  BY <1>6, <1>8 DEF Joins
<1> HIDE DEF all
<1>10. Len(all) \in Nat /\ Len(two) \in Nat
  BY <1>7, <1>8, SequenceDomain DEF SequenceIn
<1>11. Len(all) >= 1 /\ all # <<>>
  BY <1>9, <1>10
<1>12. \A k \in DOMAIN all : Item(all[k]) /\ (all[k].kind = "block" => PairedRight(all[k]))
  <2> SUFFICES ASSUME NEW s \in S
               PROVE  Item(s) /\ (s.kind = "block" => PairedRight(s))
    BY <1>8 DEF SequenceIn
  <2> QED  BY <1>2, <1>3, <1>4 DEF S
<1>13. ProcessInv'
  BY <1>1, <1>2, <1>4, <1>8, <1>9, <1>10, <1>11, <1>12 DEF ProcessInv, SequenceIn
<1>14. TablesInv'
  <2>1. HeightsIn(db, DOMAIN db.momentums \cup {height})
    BY DEF ExplorerInv, TablesInv, HeightsIn
  <2>2. pos' # Len(batch')
    BY <1>1, <1>10, <1>11
  <2> QED  BY <1>1, <2>1, <2>2, NoReopen DEF ExplorerInv, TablesInv, HeightsIn
<1>15. /\ Confirmed(tip)' = Confirmed(tip) /\ Listed(height)' = Listed(height)
       /\ PairsAgree(db.blocks, Unpaired)' /\ PairsAgree(stage.blocks, UnpairedBy(pos))'
  <2>1. Unpaired' = Unpaired
    BY <1>1, UnpairedFrame
  <2>2. UnpairedBy(pos)' = Unpaired
    <3>1. \A k : k \notin 1..0
      OBVIOUS
    <3>2. UnpairedBy(pos)' = {x \in DOMAIN world.blocks : x \in Unpaired}
      BY <1>1, <2>1, <3>1 DEF UnpairedBy
    <3>3. Unpaired \subseteq DOMAIN world.blocks
      BY DEF Unpaired
    <3> QED  BY <3>2, <3>3
  <2>3. Confirmed(tip)' = Confirmed(tip) /\ Listed(height)' = Listed(height)
    BY <1>1 DEF Confirmed, Listed, Content
  <2>4. PairsAgree(db'.blocks, Unpaired') /\ PairsAgree(stage'.blocks, UnpairedBy(pos)')
    BY <1>1, <2>1, <2>2 DEF ExplorerInv, PairsInv
  <2> QED  BY <1>1, <2>3, <2>4, PairsPrimed
<1>16. \A k \in DOMAIN all : PairedRight(all[k]) => PairedRight(batch[k])'
  BY <1>1, <1>15 DEF PairedRight
<1>20. BatchOnce'
  BY <1>1, <1>2, <1>19 DEF BatchOnce
<1>21. IsSequence(journal)'
  BY <1>1 DEF ExplorerInv, PairsInv, IsSequence
<1>17. PairsInv'
  BY <1>1, <1>12, <1>15, <1>16, <1>20, <1>21 DEF ExplorerInv, PairsInv
<1> QED  BY <1>1, <1>13, <1>14, <1>17, RefreshFrame, NoReopen DEF ExplorerInv, Kept

\* One entry of the queue in the transaction's image.
LEMMA ExecItemKeeps ==
  ASSUME ExplorerInv, ExecItem, UNCHANGED refreshVars
  PROVE  Kept
<1> DEFINE q == batch[pos + 1]
           e == Execute(stage, q, height)
<1>1. /\ pc = "exec" /\ pos < Len(batch) /\ stage' = e /\ pos' = pos + 1
      /\ UNCHANGED <<world, tip, db, pc, height, batch, journal>>
  BY DEF ExecItem
<1>2. /\ world \in Worlds /\ tip \in 1..Len(world.chain) /\ height \in 1..tip
      /\ IsSequence(batch) /\ pos \in 0..Len(batch) /\ batch[Len(batch)].kind = "momentum"
      /\ \A k \in DOMAIN batch : /\ Item(batch[k])
                                 /\ batch[k].kind = "block" => PairedRight(batch[k])
  BY <1>1 DEF ExplorerInv, ProcessInv, PairsInv
<1>3. Len(batch) \in Nat /\ DOMAIN batch = 1..Len(batch)
  BY <1>2, SequenceDomain
<1>4. pos' \in 0..Len(batch) /\ pos + 1 \in DOMAIN batch
  BY <1>1, <1>2, <1>3
<1>5. Item(q) /\ (q.kind = "block" => PairedRight(q)) /\ height # Null
  BY <1>2, <1>4 DEF Null
<1>6. /\ Fine(stage) /\ Refers(stage) /\ NothingReopens(db, stage)
      /\ HeightsIn(stage, DOMAIN stage.momentums \cup {height})
      /\ PairsAgree(stage.blocks, UnpairedBy(pos))
      /\ DOMAIN stage.blocks \subseteq DOMAIN db.blocks \cup Listed(height)
  BY <1>1 DEF ExplorerInv, TablesInv, PairsInv
<1>17. UnpairedBy(pos + 1) = IF q.kind = "block" THEN LeftBy(UnpairedBy(pos), q)
                             ELSE UnpairedBy(pos)
  <2>1. pos \in Nat
    BY <1>2, <1>3
  <2>2. UnpairedBy(pos + 1) =
          IF batch[pos + 1].kind = "block" THEN LeftBy(UnpairedBy(pos), batch[pos + 1])
          ELSE UnpairedBy(pos)
    BY <2>1, UnpairedNext
  <2> QED  BY <2>2
<1>7. /\ pos' = Len(batch) => q.kind = "momentum"
  BY <1>1, <1>2, <1>3
<1> HIDE DEF q
<1>8. /\ Steps(stage, e)
      /\ e.blocks = IF q.kind = "block" THEN BlockWrites(stage.blocks, q, height)
                    ELSE stage.blocks
      /\ DOMAIN e.momentums = IF q.kind = "momentum" THEN DOMAIN stage.momentums \cup {height}
                              ELSE DOMAIN stage.momentums
  BY <1>5, <1>6, ExecuteSteps
<1> HIDE DEF e
<1>9. q.kind = "block" => Stores(e.blocks, stage.blocks, q, height)
  BY <1>6, <1>8, BlockWritesStore DEF Refers
<1>10. HeightsIn(e, DOMAIN e.momentums \cup {height})
  <2>1. CASE q.kind = "block"
    <3>1. DOMAIN e.momentums = DOMAIN stage.momentums
      BY <1>8, <2>1
    <3>2. \A x \in DOMAIN e.blocks :
            \/ e.blocks[x].height = height
            \/ x \in DOMAIN stage.blocks /\ e.blocks[x].height = stage.blocks[x].height
      BY <1>9, <2>1 DEF Stores, StoresRow
    <3> QED  BY <1>6, <3>1, <3>2 DEF HeightsIn
  <2>2. CASE q.kind # "block"
    BY <1>6, <1>8, <2>2 DEF HeightsIn
  <2> QED  BY <2>1, <2>2
<1>11. /\ PairsAgree(e.blocks, UnpairedBy(pos + 1))
       /\ DOMAIN e.blocks \subseteq DOMAIN db.blocks \cup Listed(height)
  <2>1. CASE q.kind = "block"
    <3>1. /\ PairsAgree(e.blocks, LeftBy(UnpairedBy(pos), q))
          /\ DOMAIN e.blocks \subseteq DOMAIN db.blocks \cup Listed(height)
      BY <1>1, <1>5, <1>6, <1>9, <2>1, StoredPairs DEF ExplorerInv
    <3> QED  BY <1>17, <2>1, <3>1
  <2>2. CASE q.kind # "block"
    BY <1>6, <1>8, <1>17, <2>2
  <2> QED  BY <2>1, <2>2
<1>12. ProcessInv'
  BY <1>1, <1>4 DEF ExplorerInv, ProcessInv, IsSequence
<1>13. TablesInv'
  <2>1. Fine(e) /\ Refers(e) /\ NothingReopens(db, e)
    BY <1>6, <1>8, NothingReopensTrans DEF Steps
  <2>2. pos' = Len(batch) => height \in DOMAIN e.momentums
    BY <1>7, <1>8
  <2> QED  BY <1>1, <1>10, <2>1, <2>2 DEF ExplorerInv, TablesInv, HeightsIn
<1>14. /\ Confirmed(tip)' = Confirmed(tip) /\ Listed(height)' = Listed(height)
       /\ PairsAgree(db.blocks, Unpaired)' /\ PairsAgree(stage.blocks, UnpairedBy(pos))'
  <2>1. Unpaired' = Unpaired
    BY <1>1, UnpairedFrame
  <2>2. UnpairedBy(pos)' = UnpairedBy(pos + 1)
    BY <1>1, <2>1 DEF UnpairedBy, Stored, Concerns
  <2>3. Confirmed(tip)' = Confirmed(tip) /\ Listed(height)' = Listed(height)
    BY <1>1 DEF Confirmed, Listed, Content
  <2>4. PairsAgree(db'.blocks, Unpaired') /\ PairsAgree(stage'.blocks, UnpairedBy(pos)')
    BY <1>1, <1>11, <2>1, <2>2 DEF ExplorerInv, PairsInv
  <2> QED  BY <1>1, <2>3, <2>4, PairsPrimed
<1>15. \A k \in DOMAIN batch : PairedRight(batch[k]) => PairedRight(batch[k])'
  BY <1>1, <1>14 DEF PairedRight
<1>18. BatchOnce' /\ IsSequence(journal)'
  BY <1>1 DEF ExplorerInv, PairsInv, IsSequence, BatchOnce
<1>16. PairsInv'
  BY <1>1, <1>2, <1>11, <1>14, <1>15, <1>18 DEF ExplorerInv, PairsInv
<1> QED  BY <1>1, <1>12, <1>13, <1>16, RefreshFrame, NoReopen DEF ExplorerInv, Kept

\* The batch is dropped and the tables stay as they were.
LEMMA RollbackKeeps ==
  ASSUME ExplorerInv, Idle, UNCHANGED <<world, tip, db, journal>>
  PROVE  ProcessInv' /\ TablesInv' /\ PairsInv' /\ NothingReopens(db, db')
<1>1. /\ Fine(db') /\ Refers(db') /\ HeightsIn(db', DOMAIN db'.momentums)
      /\ PairsAgree(db'.blocks, Unpaired') /\ DOMAIN db'.blocks \subseteq Confirmed(tip)
      /\ IsSequence(journal')
  BY UnpairedFrame DEF ExplorerInv, TablesInv, PairsInv
<1> QED  BY <1>1, IdleInv, NoReopen DEF ExplorerInv

\* The steps of the transaction add up to one step of the committed tables.
LEMMA CommitKeeps ==
  ASSUME ExplorerInv, Commit, UNCHANGED refreshVars
  PROVE  Kept
<1>1. /\ pc = "exec" /\ pos = Len(batch) /\ db' = stage /\ Idle /\ world' = world /\ tip' = tip
      /\ journal' = Append(journal, Entry)
  BY DEF Commit
<1>2. /\ Fine(stage) /\ Refers(stage) /\ NothingReopens(db, stage)
      /\ HeightsIn(stage, DOMAIN stage.momentums \cup {height})
      /\ height \in DOMAIN stage.momentums
      /\ PairsAgree(stage.blocks, UnpairedBy(pos))
      /\ DOMAIN stage.blocks \subseteq DOMAIN db.blocks \cup Listed(height)
      /\ DOMAIN db.blocks \subseteq Confirmed(tip)
  BY <1>1 DEF ExplorerInv, TablesInv, PairsInv
<1>3. HeightsIn(stage, DOMAIN stage.momentums)
  BY <1>2 DEF HeightsIn
<1>4. Listed(height) \subseteq Confirmed(tip)
  BY <1>1, ConfirmedFacts DEF ExplorerInv, ProcessInv
<1>5. DOMAIN stage.blocks \subseteq Confirmed(tip)
  BY <1>2, <1>4
<1>7. Unpaired' = UnpairedBy(pos)
  <2>1. /\ world \in Worlds /\ height \in 1..Len(world.chain) /\ IsSequence(batch)
        /\ IsSequence(journal) /\ BatchOnce
        /\ \A i \in DOMAIN batch : batch[i].kind = "block" => PairedRight(batch[i])
    BY <1>1, ChainFacts DEF ExplorerInv, ProcessInv, PairsInv
  <2> QED  BY <1>1, <2>1, UnpairedCommit
<1>8. IsSequence(journal')
  <2> DEFINE new == Entry
             S == {journal[e] : e \in DOMAIN journal} \cup {new}
  <2> HIDE DEF new
  <2>1. journal \in Seq(S) /\ journal' = Append(journal, new)
    BY <1>1 DEF ExplorerInv, PairsInv, IsSequence, new
  <2>2. journal' \in Seq(S)
    BY <2>1
  <2> HIDE DEF S
  <2> QED  BY <2>2, OverSet
<1>9. PairsAgree(db'.blocks, Unpaired')
  BY <1>1, <1>2, <1>7
<1>6. ProcessInv' /\ TablesInv' /\ PairsInv'
  BY <1>1, <1>2, <1>3, <1>5, <1>8, <1>9, IdleInv DEF ExplorerInv
<1> QED  BY <1>1, <1>2, <1>6, RefreshFrame DEF ExplorerInv, Kept

\* A step that leaves the momentum's processing alone.
LEMMA BesideKeeps ==
  ASSUME ExplorerInv, UNCHANGED <<world, tip, processing, journal>>, RefreshInv',
         db' = db \/ (pc # "exec" /\ Steps(db, db')),
         db'.blocks = db.blocks, DOMAIN db'.momentums = DOMAIN db.momentums
  PROVE  Kept
<1>1. NothingReopens(db, db')
  BY NoReopen DEF Steps
<1> QED  BY <1>1, ProcessFrame, TablesFrame, PairsFrame DEF ExplorerInv, Kept

\* The next list is begun with nothing fetched.
LEMMA StartListInv ==
  ASSUME NEW what \in DOMAIN After \cup {"idle"}, StartList(what)
  PROVE  RefreshInv'
BY DEF StartList, RefreshInv, IsSequence

\* The order of the refreshed lists.
LEMMA AfterLists ==
  /\ DOMAIN After = {"pillars", "sentinels", "projects", "assets"}
  /\ \A what \in DOMAIN After : After[what] \in DOMAIN After \cup {"idle"}
BY DEF After

\* A page of a list of the node.
LEMMA PageInv ==
  ASSUME ProcessInv, NEW what \in DOMAIN After, NEW i \in Nat, NEW f \in Frontiers
  PROVE  IsSequence(PageOf(what, i, f))
<1> DEFINE l == NodeList(what, f)
<1>1. world \in Worlds /\ f \in DOMAIN world.chain
  BY ChainFacts DEF ProcessInv, Frontiers
<1>2. IsSequence(l)
  BY <1>1, ListsAssumption, AfterLists DEF NodeList
<1> HIDE DEF l
<1>3. CASE what \notin Paged
  BY <1>2, <1>3 DEF PageOf, l
<1>4. CASE what \in Paged
  <2> DEFINE last == (i + 1) * PageSize
             m == i * PageSize + 1
             n == IF last < Len(l) THEN last ELSE Len(l)
             S == {l[k] : k \in DOMAIN l}
  <2>1. Len(l) \in Nat /\ DOMAIN l = 1..Len(l)
    BY <1>2, SequenceDomain
  <2>2. last \in Nat /\ m \in Nat /\ m >= 1
    BY CachedDataAssumption
  <2>3. PageOf(what, i, f) = SubSeq(l, m, n)
    BY <1>4 DEF PageOf, l
  <2> HIDE DEF last, m
  <2>4. n \in Nat /\ n <= Len(l)
    BY <2>1, <2>2
  <2> HIDE DEF n
  <2>5. \A k \in m..n : l[k] \in S
    BY <2>1, <2>2, <2>4
  <2> HIDE DEF S
  <2>6. SubSeq(l, m, n) \in Seq(S)
    BY <2>2, <2>4, <2>5, SubSeqProperties
  <2> QED  BY <2>3, <2>6, OverSet
<1> QED  BY <1>3, <1>4

\* The steps of a refresh that write no table.
LEMMA RefreshControlKeeps ==
  ASSUME ExplorerInv,
         \/ \E all \in BOOLEAN : StartRefresh(all)
         \/ \E n \in Frontiers : FetchList(n)
         \/ FetchFails \/ PublishPillars \/ PageDone
  PROVE  Kept
<1>1. UNCHANGED <<world, tip, processing, journal>> /\ db' = db
  BY DEF StartRefresh, FetchList, FetchFails, PublishPillars, PageDone, ledgerVars, processing
<1>2. RefreshInv
  BY DEF ExplorerInv
<1>3. ASSUME NEW all \in BOOLEAN, StartRefresh(all) PROVE RefreshInv'
  <2>1. StartList("pillars")
    BY <1>3 DEF StartRefresh
  <2> QED  BY <2>1, AfterLists, StartListInv
<1>4. ASSUME NEW n \in Frontiers, FetchList(n) PROVE RefreshInv'
  <2>1. /\ refresh # "idle" /\ refresh' = refresh /\ page' = page /\ fetched' = TRUE
        /\ list' = PageOf(refresh, page, n) /\ row' = 0
    BY <1>4 DEF FetchList
  <2>2. refresh \in DOMAIN After /\ page \in Nat
    BY <1>2, <2>1 DEF RefreshInv
  <2>3. IsSequence(PageOf(refresh, page, n))
    BY <2>2, PageInv DEF ExplorerInv
  <2>4. IsSequence(list') /\ Len(list') \in Nat
    BY <2>1, <2>3, SequenceDomain
  <2> QED  BY <2>1, <2>2, <2>4 DEF RefreshInv
<1>5. ASSUME FetchFails PROVE RefreshInv'
  <2> DEFINE next == IF refresh = "pillars" THEN "idle" ELSE After[refresh]
  <2>1. refresh \in DOMAIN After /\ StartList(next)
    BY <1>2, <1>5 DEF RefreshInv, FetchFails
  <2>2. next \in DOMAIN After \cup {"idle"}
    BY <2>1, AfterLists
  <2> HIDE DEF next
  <2> QED  BY <2>1, <2>2, StartListInv
<1>6. ASSUME PublishPillars PROVE RefreshInv'
  <2> DEFINE next == IF full THEN After["pillars"] ELSE "idle"
  <2>1. StartList(next)
    BY <1>6 DEF PublishPillars
  <2>2. next \in DOMAIN After \cup {"idle"}
    BY AfterLists
  <2> HIDE DEF next
  <2> QED  BY <2>1, <2>2, StartListInv
<1>7. ASSUME PageDone PROVE RefreshInv'
  <2>1. refresh \in DOMAIN After
    BY <1>2, <1>7 DEF RefreshInv, PageDone
  <2>2. CASE StartList(After[refresh])
    BY <2>1, <2>2, AfterLists, StartListInv
  <2>3. CASE fetched' = FALSE /\ list' = <<>> /\ row' = 0 /\ page' = page + 1 /\ refresh' = refresh
    BY <1>2, <2>1, <2>3 DEF RefreshInv, IsSequence
  <2> QED  BY <1>7, <2>2, <2>3 DEF PageDone
<1>8. RefreshInv'
  BY <1>3, <1>4, <1>5, <1>6, <1>7
<1> QED  BY <1>1, <1>8, BesideKeeps

\* One row of a refresh, from a list older than the tables: nothing closed comes back.
LEMMA WriteRowKeeps ==
  ASSUME ExplorerInv, NEW ok \in BOOLEAN, WriteRow(ok)
  PROVE  Kept
<1>1. /\ pc # "exec" /\ fetched /\ row < Len(list)
      /\ row' = row \/ row' = row + 1
      /\ \/ db' = StoreRow(db, refresh, list[row + 1], sub)
         \/ db' = db
      /\ UNCHANGED <<world, tip, processing, journal, refresh, fetched, list, page>>
  BY DEF WriteRow
<1>2. /\ refresh \in DOMAIN After /\ IsSequence(list) /\ page \in Nat /\ row \in 0..Len(list)
      /\ Len(list) \in Nat
  BY <1>1, SequenceDomain DEF ExplorerInv, RefreshInv
<1>3. row' \in 0..Len(list)
  BY <1>1, <1>2
<1>4. RefreshInv'
  BY <1>1, <1>2, <1>3 DEF RefreshInv
<1>5. Fine(db) /\ Refers(db)
  BY DEF ExplorerInv, TablesInv
<1>6. CASE db' = db
  BY <1>1, <1>4, <1>6, BesideKeeps
<1>7. CASE db' = StoreRow(db, refresh, list[row + 1], sub)
  <2>1. Steps(db, db') /\ db'.blocks = db.blocks /\ db'.momentums = db.momentums
    BY <1>2, <1>5, <1>7, StoreRowSteps
  <2> QED  BY <1>1, <1>4, <2>1, BesideKeeps
<1> QED  BY <1>1, <1>6, <1>7

\* One statement of a job writes pillars, tokens or stats.
LEMMA CronKeeps ==
  ASSUME ExplorerInv, NEW d, Cron(d), NEW F \in SUBSET {"pillars", "tokens", "stats"},
         Only(db, d, F), "pillars" \in F => PillarStep(db.pillars, d.pillars)
  PROVE  Kept
<1>1. pc # "exec" /\ db' = d /\ UNCHANGED <<world, tip, processing, journal, refreshVars>>
  BY DEF Cron
<1>2. Fine(db) /\ Refers(db)
  BY DEF ExplorerInv, TablesInv
<1>3. /\ "blocks" \notin F /\ "momentums" \notin F /\ "projects" \notin F /\ "phases" \notin F
      /\ "balances" \notin F
      /\ "accounts" \notin F /\ "delegations" \notin F
      /\ "stakes" \notin F /\ "fusions" \notin F /\ "htlcs" \notin F
      /\ "rewards" \notin F /\ "mints" \notin F /\ "burns" \notin F /\ "sentinels" \notin F
  OBVIOUS
<1>4. Steps(db, d) /\ d.blocks = db.blocks /\ d.momentums = db.momentums
  BY <1>2, <1>3, WritesSteps
<1> QED  BY <1>1, <1>4, BesideKeeps, RefreshFrame DEF ExplorerInv

\* The cron job over the voting activity.
LEMMA VotingActivityKeeps ==
  ASSUME ExplorerInv, NEW owner, runVotingActivity(owner)
  PROVE  Kept
<1> DEFINE since    == GetSpawnTimestampByOwner(db.pillars, owner)
           projects == ProjectIDsCreatedAtOrAfter(db.projects, since)
           phases   == PhaseIDsCreatedAtOrAfter(db.phases, since)
           voted    == GetVoteCountForProjects(db.votes, owner, projects)
                         + GetVoteCountForPhases(db.votes, owner, phases)
           votable  == Cardinality(projects) + Cardinality(phases)
           u == UpdateVotingActivity(db.pillars, owner, voted, votable)
           d == [db EXCEPT !.pillars = u]
<1>1. Cron(d)
  BY DEF runVotingActivity
<1>2. Fine(db) /\ PillarRows(db.pillars)
  BY DEF ExplorerInv, TablesInv, Fine
<1> HIDE DEF since
<1>3. voted <= votable
  BY <1>2, VotesAmongVotable
<1> HIDE DEF projects, phases, voted, votable
<1>4. PillarStep(db.pillars, u)
  BY <1>2, <1>3, PillarUpdates DEF PillarStep
<1> HIDE DEF u
<1>5. Only(db, d, {"pillars"}) /\ d.pillars = u
  BY <1>2 DEF Only, Fine, Tables, EmptyDB
<1> HIDE DEF d
<1> QED  BY <1>1, <1>4, <1>5, CronKeeps

\* A job that writes the tokens or the statistics.
LEMMA FigureKeeps ==
  ASSUME ExplorerInv, NEW u, \/ Cron([db EXCEPT !.tokens = u])
                             \/ Cron([db EXCEPT !.stats = u])
  PROVE  Kept
<1> DEFINE d == [db EXCEPT !.tokens = u]
           e == [db EXCEPT !.stats = u]
<1>1. Fine(db)
  BY DEF ExplorerInv, TablesInv
<1>2. Only(db, d, {"tokens"}) /\ Only(db, e, {"stats"})
  BY <1>1 DEF Only, Fine, Tables, EmptyDB
<1>3. Cron(d) \/ Cron(e)
  OBVIOUS
<1> HIDE DEF d, e
<1> QED  BY <1>2, <1>3, CronKeeps

\* The cron jobs over statistics.
LEMMA StatisticsKeep ==
  ASSUME ExplorerInv,
         \/ \E t \in DOMAIN db.tokens : runTokenHolderCounts(t)
         \/ snapshotNetworkStats
         \/ \E t \in DOMAIN db.tokens : snapshotTokenStats(t)
         \/ \E o \in GetPillars : \E counted \in BOOLEAN : snapshotPillarStats(o, counted)
  PROVE  Kept
<1>1. ASSUME NEW t, runTokenHolderCounts(t) PROVE Kept
  BY <1>1, FigureKeeps DEF runTokenHolderCounts
<1>2. ASSUME snapshotNetworkStats PROVE Kept
  BY <1>2, FigureKeeps DEF snapshotNetworkStats
<1>3. ASSUME NEW t, snapshotTokenStats(t) PROVE Kept
  BY <1>3, FigureKeeps DEF snapshotTokenStats
<1>4. ASSUME NEW o, NEW counted, snapshotPillarStats(o, counted) PROVE Kept
  BY <1>4, FigureKeeps DEF snapshotPillarStats
<1> QED  BY <1>1, <1>2, <1>3, <1>4

\* A restart forgets the batch and the refresh.
LEMMA RestartKeeps ==
  ASSUME ExplorerInv, Restart
  PROVE  Kept
<1>1. Idle /\ UNCHANGED <<world, tip, db, journal>> /\ StartList("idle")
  BY DEF Restart, Crash
<1>2. RefreshInv'
  BY <1>1, StartListInv
<1> QED  BY <1>1, <1>2, RollbackKeeps DEF ExplorerInv, Kept

\* Steps of the reading client.
LEMMA StutterKeeps ==
  ASSUME ExplorerInv, UNCHANGED cachedVars
  PROVE  Kept
<1>1. UNCHANGED <<world, tip, processing, journal, refreshVars>> /\ db' = db
  BY DEF cachedVars, ledgerVars
<1> QED  BY <1>1, BesideKeeps, RefreshFrame DEF ExplorerInv

\* Every step keeps the invariant and reopens nothing.
LEMMA NextKeeps ==
  ASSUME ExplorerInv, [Next]_vars
  PROVE  Kept
<1>1. ASSUME LedgerNext, UNCHANGED refreshVars PROVE Kept
  <2>1. CASE NodeAdvance
    BY <1>1, <2>1, NodeAdvanceKeeps
  <2>2. ASSUME NEW m \in 1..tip, ProcessMomentum(m) PROVE Kept
    BY <1>1, <2>2, ProcessMomentumKeeps
  <2>3. ASSUME NEW lookup \in BOOLEAN, NEW n \in height..tip, FetchBlock(lookup, n) PROVE Kept
    BY <1>1, <2>3, FetchBlockKeeps
  <2>4. CASE SkipBlock
    BY <1>1, <2>4, SkipBlockKeeps
  <2>5. CASE QueueMomentum
    BY <1>1, <2>5, QueueMomentumKeeps
  <2>6. CASE ExecItem
    BY <1>1, <2>6, ExecItemKeeps
  <2>7. CASE Rollback
    <3>1. Idle /\ UNCHANGED <<world, tip, db, journal>>
      BY <2>7 DEF Rollback
    <3> QED  BY <1>1, <3>1, RollbackKeeps, RefreshFrame DEF ExplorerInv, Kept
  <2>8. CASE Commit
    BY <1>1, <2>8, CommitKeeps
  <2> QED  BY <1>1, <2>1, <2>2, <2>3, <2>4, <2>5, <2>6, <2>7, <2>8 DEF LedgerNext
<1>2. ASSUME CachedNext PROVE Kept
  <2>1. ASSUME NEW ok \in BOOLEAN, WriteRow(ok) PROVE Kept
    BY <2>1, WriteRowKeeps
  <2>2. ASSUME NEW o \in GetPillars, runVotingActivity(o) PROVE Kept
    BY <2>2, VotingActivityKeeps
  <2> QED  BY <1>1, <1>2, <2>1, <2>2, RefreshControlKeeps, StatisticsKeep, RestartKeeps
           DEF CachedNext
<1>3. ASSUME UNCHANGED cachedVars PROVE Kept
  BY <1>3, StutterKeeps
<1> QED  BY <1>2, <1>3 DEF Next, StartWalk, ReadPage, vars

\* The invariant of the writers holds in every reachable state.
THEOREM Reachable == Spec => []ExplorerInv
<1>1. Init => ExplorerInv
  BY InitInv
<1>2. ExplorerInv /\ [Next]_vars => ExplorerInv'
  BY NextKeeps DEF Kept
<1> QED  BY <1>1, <1>2, PTL DEF Spec

\* What the tables refer to can be fetched, whatever was skipped, repeated or rolled
\* back: the rows a transaction refers to are written by the same transaction.
THEOREM TypeCorrect == Spec => []TypeOK
<1>1. ASSUME ExplorerInv PROVE TypeOK
  <2> USE <1>1
  <2>1. /\ tip \in 1..Len(world.chain) /\ pc \in {"idle", "queue", "exec"}
        /\ pc = "exec" => pos <= Len(batch)
    <3>1. pc = "exec" => pos \in 0..Len(batch) /\ IsSequence(batch)
      BY DEF ExplorerInv, ProcessInv
    <3>2. pc = "exec" => pos <= Len(batch)
      BY <3>1, SequenceDomain
    <3> QED  BY <3>2 DEF ExplorerInv, ProcessInv
  <2>2. refresh \in DOMAIN After \cup {"idle"} /\ row <= Len(list)
    <3>1. IsSequence(list) /\ row \in 0..Len(list)
      BY DEF ExplorerInv, RefreshInv
    <3> QED  BY <3>1, SequenceDomain DEF ExplorerInv, RefreshInv
  <2>3. Fine(db) /\ Refers(db) /\ HeightsIn(db, DOMAIN db.momentums)
    BY DEF ExplorerInv, TablesInv
  <2>4. \A t : \A k \in DOMAIN t : Found(GetItem(t, k))
    BY DEF GetItem, Found, OK
  <2>5. \A x \in DOMAIN db.blocks :
          /\ Found(MomentumsGetByHeight(db, db.blocks[x].height))
          /\ Found(AccountsGet(db, db.blocks[x].address))
          /\ Found(AccountsGet(db, db.blocks[x].to))
    BY <2>3, <2>4 DEF HeightsIn, Refers, MomentumsGetByHeight, AccountsGet
  <2>6. \A x \in DOMAIN db.rewards \cup DOMAIN db.mints \cup DOMAIN db.burns :
          Found(AccountBlocksGet(db, x))
    BY <2>3, <2>4 DEF Refers, Events, AccountBlocksGet
  <2>7. \A x \in DOMAIN db.phases : x \in ProjectsPhases(db, db.phases[x].project).body
    BY DEF ProjectsPhases, PhasesByProject, OK
  <2>8. \A o \in DOMAIN db.pillars : db.pillars[o].votes <= db.pillars[o].votable
    BY <2>3 DEF Fine, PillarRows
  <2> QED  BY <2>1, <2>2, <2>5, <2>6, <2>7, <2>8 DEF TypeOK
<1> QED  BY <1>1, Reachable, PTL

\* No delegator has two open intervals, and an account delegates where its open
\* interval says: the two statements of a Delegate and of an Undelegate commit
\* together, in whatever order momentums are processed.
THEOREM DelegationsConsistent == Spec => []DelegationHistory
<1>1. ExplorerInv => DelegationHistory
  BY DEF ExplorerInv, TablesInv, Fine, DelegationHistory
<1> QED  BY <1>1, Reachable, PTL

\* A stored send and its stored receive name each other, whichever was stored first
\* and whatever the nodes asked knew of the other by then, except a send processed last
\* through a node without its receive: it names none, until one of the two is processed
\* again.
THEOREM PairsSymmetric == Spec => []PairedSymmetric
<1>1. ExplorerInv => PairedSymmetric
  BY DEF ExplorerInv, PairsInv, PairedSymmetric
<1> QED  BY <1>1, Reachable, PTL

\* No step of any writer reopens or drops what is over: a stake, fusion, HTLC,
\* sentinel or delegation interval, or a revoked pillar.
THEOREM NeverReopened == Spec => ClosedStaysClosed
<1>1. ExplorerInv /\ [Next]_vars => [NothingReopens(db, db')]_vars
  BY NextKeeps DEF Kept
<1> QED  BY <1>1, Reachable, PTL DEF Spec, ClosedStaysClosed

-----------------------------------------------------------------------------
(* Balances: the invariant *)

\* What the indexer stores for an address when it reads it at frontier n.
Capped(a, n) == [t \in DOMAIN AccountInfo(a, n) |-> safeBigIntToInt64(AccountInfo(a, n)[t])]

\* The table shows what the address held at n.
Shows(balances, a, n) ==
  \A t \in DOMAIN Capped(a, n) :
    <<a, t>> \in DOMAIN balances /\ balances[<<a, t>>] = Capped(a, n)[t]

\* An entry of the batch that writes balances.
Reading(q) == q.kind = "balance" /\ q.info # <<>>

\* None of these entries of the batch writes the address's balances.
Unread(a, i, j) == \A k \in i..j : Reading(batch[k]) => batch[k].address # a

\* The last reading of an address by committed momentums, unless one of the first k
\* entries of the batch has written over it.
JournalShown(balances, k) ==
  \A e \in DOMAIN journal : \A i \in DOMAIN journal[e].readings :
    LastReading(e, i) /\ Unread(journal[e].readings[i].address, 1, k) =>
      Shows(balances, journal[e].readings[i].address, journal[e].readings[i].asOf)

\* The last reading of an address among the entries executed so far.
BatchShown(balances) ==
  \A i \in 1..pos :
    Reading(batch[i]) /\ Unread(batch[i].address, i + 1, pos) =>
      Shows(balances, batch[i].address, batch[i].asOf)

\* What an entry writes is what the node asked had.
ReadRight(q) == Reading(q) => q.asOf \in Nat /\ q.info = Capped(q.address, q.asOf)

\* The invariant behind BalancesCurrent: the rows of an address are those of the last
\* reading, in the journal or in the part of the batch that was executed.
BalancesInv ==
  /\ IsSequence(journal) /\ \A e \in DOMAIN journal : journal[e].height \in 1..tip
  /\ \A e \in DOMAIN journal : \A i \in DOMAIN journal[e].readings :
       journal[e].readings[i].asOf \in Nat
  /\ JournalShown(db.balances, 0)
  /\ pc = "queue" => \A i \in DOMAIN batch : batch[i].kind # "balance"
  /\ pc = "exec" => /\ \A i \in DOMAIN batch : ReadRight(batch[i])
                    /\ JournalShown(stage.balances, pos) /\ BatchShown(stage.balances)

-----------------------------------------------------------------------------
(* Balances: the steps *)

\* What a behaviour never changes.
LEMMA ChainFixed ==
  ASSUME world' = world
  PROVE  \A a, n : Capped(a, n)' = Capped(a, n)
<1>1. \A a, n : AccountInfo(a, n)' = AccountInfo(a, n)
  BY DEF AccountInfo, Confirmed, Content
<1> QED  BY <1>1 DEF Capped

\* An address that nothing touched between two heights holds the same at both.
LEMMA SameHoldings ==
  ASSUME NEW a, NEW n \in Nat, NEW m \in Nat, n <= m,
         \A k \in (n + 1)..m : a \notin Touched(k)
  PROVE  Capped(a, n) = Capped(a, m)
<1> DEFINE Own(i) == {x \in Confirmed(i) : world.blocks[x].address = a}
<1>1. Own(n) \subseteq Own(m)
  <2>1. \A h \in 1..n : h \in 1..m
    OBVIOUS
  <2> QED  BY <2>1 DEF Confirmed
<1>2. ASSUME NEW x \in Own(m) PROVE x \in Own(n)
  <2>1. PICK h \in 1..m : \E i \in DOMAIN Content(h) : x = Content(h)[i]
    BY <1>2 DEF Confirmed
  <2>2. a \in Touched(h)
    BY <1>2, <2>1 DEF Touched
  <2>3. h \in 1..n
    BY <2>1, <2>2
  <2> QED  BY <1>2, <2>1, <2>3 DEF Confirmed
<1>3. Own(n) = Own(m)
  BY <1>1, <1>2
<1>4. AccountInfo(a, n) = AccountInfo(a, m)
  BY <1>3 DEF AccountInfo
<1> QED  BY <1>4 DEF Capped

\* The journal as it is, and tables with the same balances.
LEMMA JournalStays ==
  ASSUME world' = world, journal' = journal, NEW balances, NEW k, JournalShown(balances, k),
         k = 0 \/ batch' = batch
  PROVE  JournalShown(balances, k)'
<1>1. \A a, n : Capped(a, n)' = Capped(a, n)
  BY ChainFixed
<1>2. \A e, i : LastReading(e, i)' = LastReading(e, i)
  BY DEF LastReading
<1>3. \A a : Unread(a, 1, k)' = Unread(a, 1, k)
  <2>1. CASE k = 0
    <3>1. 1..k = {}
      BY <2>1
    <3> QED  BY <3>1 DEF Unread
  <2>2. CASE batch' = batch
    BY <2>2 DEF Unread, Reading
  <2> QED  BY <2>1, <2>2
<1> QED  BY <1>1, <1>2, <1>3 DEF JournalShown, Shows

\* A step that leaves journal, processing and balances alone; the frontier may rise.
LEMMA BalancesFrame ==
  ASSUME BalancesInv, UNCHANGED <<world, processing, journal>>, db'.balances = db.balances,
         1..tip \subseteq 1..tip'
  PROVE  BalancesInv'
<1>1. /\ pc' = pc /\ height' = height /\ pos' = pos /\ batch' = batch /\ stage' = stage
      /\ world' = world /\ journal' = journal
  BY DEF processing
<1>2. \A a, n : Capped(a, n)' = Capped(a, n)
  BY <1>1, ChainFixed
<1>3. \A q : ReadRight(q) => ReadRight(q)'
  BY <1>2 DEF ReadRight, Reading
<1>4. /\ JournalShown(db.balances, 0)'
      /\ pc = "exec" => JournalShown(stage.balances, pos)'
  <2>1. JournalShown(db.balances, 0) /\ (pc = "exec" => JournalShown(stage.balances, pos))
    BY DEF BalancesInv
  <2>2. db.balances' = db.balances /\ stage.balances' = stage.balances
    BY <1>1
  <2> QED  BY <1>1, <2>1, <2>2, JournalStays DEF JournalShown
<1>5. pc = "exec" => BatchShown(stage.balances)'
  BY <1>1, <1>2 DEF BalancesInv, BatchShown, Shows, Unread, Reading
<1>6. pc = "exec" => (\A i \in DOMAIN batch : ReadRight(batch[i]))'
  BY <1>1, <1>3 DEF BalancesInv
<1>7. /\ IsSequence(journal') /\ \A e \in DOMAIN journal' : journal'[e].height \in 1..tip'
      /\ \A e \in DOMAIN journal' : \A i \in DOMAIN journal'[e].readings :
           journal'[e].readings[i].asOf \in Nat
  BY <1>1 DEF BalancesInv
<1> QED  BY <1>1, <1>4, <1>5, <1>6, <1>7 DEF BalancesInv

\* Before the transaction begins, or after it was dropped.
LEMMA NotExecuting ==
  ASSUME BalancesInv, UNCHANGED <<world, tip, db, journal>>, pc' # "exec",
         pc' = "queue" => \A i \in DOMAIN batch' : batch'[i].kind # "balance"
  PROVE  BalancesInv'
<1>1. JournalShown(db.balances, 0)
  BY DEF BalancesInv
<1>2. JournalShown(db.balances, 0)'
  BY <1>1, JournalStays DEF JournalShown
<1> QED  BY <1>2 DEF BalancesInv, IsSequence

\* The nodes' highest frontier rises.
LEMMA NodeAdvanceBalances ==
  ASSUME ExplorerInv, BalancesInv, NodeAdvance
  PROVE  BalancesInv'
<1>1. tip' = tip + 1 /\ db' = db /\ UNCHANGED <<world, processing, journal>>
  BY DEF NodeAdvance
<1>2. tip \in Nat
  BY ChainFacts DEF ExplorerInv, ProcessInv
<1>3. 1..tip \subseteq 1..tip'
  BY <1>1, <1>2
<1> QED  BY <1>1, <1>3, BalancesFrame

\* The steps up to the queue.
LEMMA QueueBalances ==
  ASSUME ExplorerInv, BalancesInv,
         \/ \E m \in 1..tip : ProcessMomentum(m)
         \/ \E lookup \in BOOLEAN : \E n \in Frontiers \cap height..tip : FetchBlock(lookup, n)
         \/ SkipBlock
  PROVE  BalancesInv'
<1>1. UNCHANGED <<world, tip, db, journal>> /\ pc' = "queue"
  BY DEF ProcessMomentum, FetchBlock, SkipBlock
<1>2. ASSUME NEW m, ProcessMomentum(m) PROVE \A i \in DOMAIN batch' : batch'[i].kind # "balance"
  <2>1. batch' = <<>>
    BY <1>2 DEF ProcessMomentum
  <2> QED  BY <2>1
<1>3. ASSUME SkipBlock PROVE \A i \in DOMAIN batch' : batch'[i].kind # "balance"
  <2>1. pc = "queue" /\ batch' = batch
    BY <1>3 DEF SkipBlock
  <2> QED  BY <2>1 DEF BalancesInv
<1>4. ASSUME NEW lookup, NEW n, FetchBlock(lookup, n)
      PROVE  \A i \in DOMAIN batch' : batch'[i].kind # "balance"
  <2> DEFINE q == Queued(Content(height)[pos + 1], lookup, n)
             S == {batch[j] : j \in DOMAIN batch} \cup {q}
  <2>1. pc = "queue" /\ batch' = Append(batch, q)
    BY <1>4 DEF FetchBlock
  <2>2. q.kind = "block"
    BY DEF Queued
  <2> HIDE DEF q
  <2>3. IsSequence(batch) /\ \A j \in DOMAIN batch : batch[j].kind # "balance"
    BY <2>1 DEF ExplorerInv, ProcessInv, BalancesInv
  <2>4. batch \in Seq(S)
    BY <2>3 DEF IsSequence
  <2>5. batch' \in Seq(S)
    BY <2>1, <2>4
  <2>6. \A s \in S : s.kind # "balance"
    BY <2>2, <2>3
  <2> HIDE DEF S
  <2> QED  BY <2>5, <2>6, OverSet
<1> QED  BY <1>1, <1>2, <1>3, <1>4, NotExecuting

\* Every reading of the batch is right as of the frontier of the node that was asked.
LEMMA BalanceItemsRead ==
  ASSUME NEW m, NEW at \in [Asked(m) -> Nat], NEW i \in DOMAIN updateBalances(m, at)
  PROVE  ReadRight(updateBalances(m, at)[i])
<1> DEFINE a(j) == world.blocks[Content(m)[j]].address
           I(j) == [kind |-> "balance", address |-> a(j), asOf |-> at[j],
                    info |-> IF at[j] = 0 THEN <<>>
                             ELSE [t \in DOMAIN AccountInfo(a(j), at[j]) |->
                                     safeBigIntToInt64(AccountInfo(a(j), at[j])[t])]]
<1>1. updateBalances(m, at) = [j \in Asked(m) |-> I(j)]
  BY DEF updateBalances
<1>2. /\ I(i).asOf = at[i] /\ I(i).address = a(i)
      /\ I(i).info # <<>> => I(i).info = Capped(a(i), at[i])
  BY DEF Capped
<1> HIDE DEF I
<1>3. i \in Asked(m) /\ updateBalances(m, at)[i] = I(i)
  BY <1>1
<1>4. at[i] \in Nat
  BY <1>3
<1> QED  BY <1>2, <1>3, <1>4 DEF ReadRight, Reading

\* The balances are read and queued; the transaction begins with the committed tables.
LEMMA QueueMomentumBalances ==
  ASSUME ExplorerInv, BalancesInv, QueueMomentum
  PROVE  BalancesInv'
<1>0. PICK at \in [Asked(height) -> Frontiers \cup {0}] :
        batch' = batch \o updateBalances(height, at) \o <<MomentumItem(height)>>
  BY DEF QueueMomentum
<1> DEFINE u == updateBalances(height, at)
           i == MomentumItem(height)
           two == batch \o u
           one == <<i>>
           all == two \o one
<1>1. /\ pc = "queue" /\ pc' = "exec" /\ pos' = 0 /\ stage' = db /\ batch' = all
      /\ world' = world /\ tip' = tip /\ db' = db /\ height' = height /\ journal' = journal
  BY <1>0 DEF QueueMomentum
<1>2. /\ world \in Worlds /\ tip \in 1..Len(world.chain) /\ height \in 1..tip
      /\ IsSequence(batch) /\ \A k \in DOMAIN batch : ReadRight(batch[k])
  BY <1>1 DEF ExplorerInv, ProcessInv, BalancesInv, ReadRight, Reading
<1>3. IsSequence(u) /\ \A k \in DOMAIN u : ReadRight(u[k])
  <2>1. IsSequence(u)
    BY <1>2, ChainFacts, BalanceItemsQueued
  <2>2. Frontiers \cup {0} \subseteq Nat
    <3>1. tip \in Nat
      BY <1>2, ChainFacts
    <3> QED  BY <3>1 DEF Frontiers
  <2>3. at \in [Asked(height) -> Nat]
    BY <1>0, <2>2
  <2> QED  BY <2>1, <2>3, BalanceItemsRead
<1>4. ReadRight(i)
  BY DEF MomentumItem, ReadRight, Reading
<1> HIDE DEF u, i
<1> DEFINE S == {batch[k] : k \in DOMAIN batch} \cup {u[k] : k \in DOMAIN u} \cup {i}
<1>5. \A q \in S : ReadRight(q)
  BY <1>2, <1>3, <1>4
<1>6. SequenceIn(batch, S) /\ SequenceIn(u, S) /\ SequenceIn(one, S)
  BY <1>2, <1>3 DEF SequenceIn, IsSequence
<1> HIDE DEF S, one
<1>7. SequenceIn(two, S)
  BY <1>6, Concatenation
<1> HIDE DEF two
<1>8. SequenceIn(all, S)
  BY <1>6, <1>7, Concatenation
<1> HIDE DEF all
<1>9. \A k \in DOMAIN all : ReadRight(all[k])
  BY <1>5, <1>8 DEF SequenceIn
<1>10. \A q : ReadRight(q) => ReadRight(q)'
  BY <1>1, ChainFixed DEF ReadRight, Reading
<1>11. (\A k \in DOMAIN batch : ReadRight(batch[k]))'
  BY <1>1, <1>9, <1>10
<1>12. JournalShown(db.balances, 0)' /\ JournalShown(stage.balances, pos)'
  <2>1. JournalShown(db.balances, 0)
    BY DEF BalancesInv
  <2>2. JournalShown(db.balances, 0)'
    BY <1>1, <2>1, JournalStays DEF JournalShown
  <2> QED  BY <1>1, <2>2 DEF JournalShown
<1>13. BatchShown(stage.balances)'
  BY <1>1 DEF BatchShown
<1> QED  BY <1>1, <1>11, <1>12, <1>13 DEF BalancesInv, IsSequence

\* A balance entry replaces the rows of its address by what was read, whatever they
\* were, and leaves those of other addresses.
LEMMA UpsertShows ==
  ASSUME NEW q, NEW balances, NEW a, NEW n,
         \/ Shows(balances, a, n) /\ (Reading(q) => q.address # a)
         \/ Reading(q) /\ q.address = a /\ q.info = Capped(a, n),
         q.kind = "balance"
  PROVE  Shows(BalanceUpsert(balances, q.address, q.info), a, n)
<1> DEFINE u == BalanceUpsert(balances, q.address, q.info)
           c == Capped(a, n)
<1>1. /\ DOMAIN u = DOMAIN balances \cup ({q.address} \X DOMAIN q.info)
      /\ \A k \in DOMAIN u : u[k] = IF k[1] = q.address /\ k[2] \in DOMAIN q.info
                                    THEN q.info[k[2]] ELSE balances[k]
  BY DEF BalanceUpsert
<1> HIDE DEF u, c
<1>3. CASE Reading(q) /\ q.address = a /\ q.info = Capped(a, n)
  <2>1. q.info = c
    BY <1>3 DEF c
  <2>2. \A t \in DOMAIN c : <<a, t>> \in DOMAIN u /\ u[<<a, t>>] = c[t]
    BY <1>1, <1>3, <2>1
  <2> QED  BY <2>2 DEF Shows, u, c
<1>4. CASE q.address # a /\ Shows(balances, a, n)
  <2>1. \A t \in DOMAIN c : <<a, t>> \in DOMAIN balances /\ balances[<<a, t>>] = c[t]
    BY <1>4 DEF Shows, c
  <2>2. \A t \in DOMAIN c : <<a, t>> \in DOMAIN u /\ u[<<a, t>>] = c[t]
    BY <1>1, <1>4, <2>1
  <2> QED  BY <2>2 DEF Shows, u, c
<1>5. CASE ~Reading(q) /\ Shows(balances, a, n)
  <2>1. \A t \in DOMAIN c : <<a, t>> \in DOMAIN balances /\ balances[<<a, t>>] = c[t]
    BY <1>5 DEF Shows, c
  <2>2. DOMAIN q.info = {}
    BY <1>5 DEF Reading
  <2>3. \A t \in DOMAIN c : <<a, t>> \in DOMAIN u /\ u[<<a, t>>] = c[t]
    BY <1>1, <2>1, <2>2
  <2> QED  BY <2>3 DEF Shows, u, c
<1> QED  BY <1>3, <1>4, <1>5

\* One entry of the batch is executed.
LEMMA ExecItemBalances ==
  ASSUME ExplorerInv, BalancesInv, ExecItem
  PROVE  BalancesInv'
<1> DEFINE q == batch[pos + 1]
           b == Execute(stage, q, height).balances
<1>1. /\ pc = "exec" /\ pos < Len(batch) /\ stage'.balances = b /\ pos' = pos + 1
      /\ UNCHANGED <<world, tip, db, pc, height, batch, journal>>
  BY DEF ExecItem
<1>2. /\ tip \in Nat /\ height \in 1..tip /\ IsSequence(batch) /\ pos \in 0..Len(batch)
      /\ \A k \in DOMAIN batch : Item(batch[k])
  BY <1>1, ChainFacts DEF ExplorerInv, ProcessInv
<1>3. Len(batch) \in Nat /\ pos + 1 \in DOMAIN batch /\ pos \in Nat
  BY <1>1, <1>2, SequenceDomain
<1>4. Item(q) /\ height # Null /\ Fine(stage) /\ Refers(stage)
  BY <1>1, <1>2, <1>3 DEF Null, ExplorerInv, TablesInv
<1>5. ReadRight(q) /\ JournalShown(stage.balances, pos) /\ BatchShown(stage.balances)
  BY <1>1, <1>3 DEF BalancesInv
<1> HIDE DEF q
<1>6. b = IF q.kind = "balance" THEN BalanceUpsert(stage.balances, q.address, q.info)
          ELSE stage.balances
  BY <1>4, ExecuteSteps
<1> HIDE DEF b
<1>7. ASSUME NEW a, NEW n,
             \/ Shows(stage.balances, a, n) /\ (Reading(q) => q.address # a)
             \/ Reading(q) /\ q.address = a /\ q.info = Capped(a, n)
      PROVE  Shows(b, a, n)
  <2>1. CASE q.kind = "balance"
    BY <1>6, <1>7, <2>1, UpsertShows
  <2>2. CASE q.kind # "balance"
    BY <1>6, <1>7, <2>2 DEF Reading
  <2> QED  BY <2>1, <2>2
<1>8. ASSUME NEW a, NEW i \in 1..(pos + 1), Unread(a, i, pos + 1)
      PROVE  Unread(a, i, pos) /\ (Reading(q) => q.address # a)
  <2>1. i..pos \subseteq i..(pos + 1) /\ pos + 1 \in i..(pos + 1)
    BY <1>3
  <2> QED  BY <1>8, <2>1 DEF Unread, q
<1>9. JournalShown(b, pos + 1)
  <2> SUFFICES ASSUME NEW e \in DOMAIN journal, NEW i \in DOMAIN journal[e].readings,
                      LastReading(e, i),
                      Unread(journal[e].readings[i].address, 1, pos + 1)
               PROVE  Shows(b, journal[e].readings[i].address, journal[e].readings[i].asOf)
    BY DEF JournalShown
  <2> DEFINE a == journal[e].readings[i].address
             n == journal[e].readings[i].asOf
  <2>1. 1 \in 1..(pos + 1)
    BY <1>3
  <2>2. Unread(a, 1, pos) /\ (Reading(q) => q.address # a)
    BY <1>8, <2>1
  <2>3. Shows(stage.balances, a, n)
    BY <1>5, <2>2 DEF JournalShown
  <2> HIDE DEF a, n
  <2>4. Shows(b, a, n)
    BY <1>7, <2>2, <2>3
  <2> QED  BY <2>4 DEF a, n
<1>10. ASSUME NEW i \in 1..(pos + 1), Reading(batch[i]), Unread(batch[i].address, i + 1, pos + 1)
       PROVE  Shows(b, batch[i].address, batch[i].asOf)
  <2> DEFINE a == batch[i].address
             n == batch[i].asOf
  <2>1. CASE i = pos + 1
    <3>1. batch[i] = q
      BY <2>1 DEF q
    <3>2. Reading(q) /\ q.address = a /\ q.info = Capped(a, n)
      BY <1>5, <1>10, <3>1 DEF ReadRight
    <3> HIDE DEF a, n
    <3>3. Shows(b, a, n)
      BY <1>7, <3>2
    <3> QED  BY <3>3 DEF a, n
  <2>2. CASE i \in 1..pos
    <3>1. i + 1 \in 1..(pos + 1)
      BY <1>3, <2>2
    <3>2. Unread(a, i + 1, pos) /\ (Reading(q) => q.address # a)
      BY <1>8, <1>10, <3>1
    <3>3. Shows(stage.balances, a, n)
      BY <1>5, <1>10, <2>2, <3>2 DEF BatchShown
    <3> HIDE DEF a, n
    <3>4. Shows(b, a, n)
      BY <1>7, <3>2, <3>3
    <3> QED  BY <3>4 DEF a, n
  <2> QED  BY <1>3, <2>1, <2>2
<1>11. \A a, m : Capped(a, m)' = Capped(a, m)
  BY <1>1, ChainFixed
<1>12. JournalShown(db.balances, 0)' /\ JournalShown(stage.balances, pos)'
  <2>1. JournalShown(db.balances, 0)
    BY DEF BalancesInv
  <2>2. JournalShown(db.balances, 0)'
    BY <1>1, <2>1, JournalStays DEF JournalShown
  <2> QED  BY <1>1, <1>9, <1>11, <2>2 DEF JournalShown, LastReading, Unread, Reading, Shows
<1>13. BatchShown(stage.balances)'
  BY <1>1, <1>10, <1>11 DEF BatchShown, Shows, Unread, Reading
<1>14. (\A i \in DOMAIN batch : ReadRight(batch[i]))'
  BY <1>1, <1>11 DEF BalancesInv, ReadRight, Reading
<1> QED  BY <1>1, <1>12, <1>13, <1>14 DEF BalancesInv, IsSequence

\* The transaction's readings become the journal's.
LEMMA CommitBalances ==
  ASSUME ExplorerInv, BalancesInv, Commit
  PROVE  BalancesInv'
<1> DEFINE L == Len(journal)
           new == Entry
<1>1. /\ pc = "exec" /\ pos = Len(batch) /\ db' = stage /\ pc' = "idle"
      /\ world' = world /\ tip' = tip /\ journal' = Append(journal, new)
  BY DEF Commit, Idle
<1>2. /\ IsSequence(batch) /\ DOMAIN batch = 1..pos /\ height \in 1..tip /\ IsSequence(journal)
      /\ \A i \in DOMAIN batch : ReadRight(batch[i])
      /\ JournalShown(stage.balances, pos) /\ BatchShown(stage.balances)
  BY <1>1, SequenceDomain DEF ExplorerInv, ProcessInv, BalancesInv
<1>3. /\ new.height = height
      /\ \A i : i \in DOMAIN new.readings <=> i \in 1..pos /\ Reading(batch[i])
      /\ \A i \in DOMAIN new.readings :
           /\ new.readings[i].address = batch[i].address
           /\ new.readings[i].asOf = batch[i].asOf
  BY <1>2 DEF Entry, BalancesRead, Reading
<1> HIDE DEF new
<1>4. /\ L \in Nat /\ DOMAIN journal = 1..L
      /\ IsSequence(journal') /\ DOMAIN journal' = 1..(L + 1) /\ journal'[L + 1] = new
      /\ \A e \in 1..L : journal'[e] = journal[e]
  <2> DEFINE S == {journal[e] : e \in DOMAIN journal} \cup {new}
  <2>1. journal \in Seq(S) /\ new \in S
    BY <1>2 DEF IsSequence
  <2> HIDE DEF S
  <2>2. /\ journal' \in Seq(S) /\ Len(journal') = L + 1 /\ journal'[L + 1] = new
        /\ \A e \in 1..L : journal'[e] = journal[e]
    BY <1>1, <2>1, AppendProperties
  <2>3. DOMAIN journal' = 1..(L + 1) /\ IsSequence(journal')
    BY <2>2, OverSet, LenProperties
  <2> QED  BY <1>2, <2>2, <2>3, SequenceDomain
<1> HIDE DEF L
<1>5. ASSUME NEW e \in 1..L, NEW i \in DOMAIN journal[e].readings, LastReading(e, i)'
      PROVE  Shows(stage.balances, journal[e].readings[i].address, journal[e].readings[i].asOf)
  <2> DEFINE a == journal[e].readings[i].address
  <2>1. /\ journal'[e] = journal[e] /\ L + 1 > e /\ L + 1 \in DOMAIN journal'
    BY <1>4
  <2>2. \A f \in DOMAIN journal' : \A j \in DOMAIN journal'[f].readings :
          f > e \/ (f = e /\ j > i) => journal'[f].readings[j].address # a
    BY <1>5, <2>1 DEF LastReading
  <2>3. LastReading(e, i)
    <3>1. \A f \in DOMAIN journal : f \in DOMAIN journal' /\ journal'[f] = journal[f]
      BY <1>4
    <3> QED  BY <2>2, <3>1 DEF LastReading
  <2>4. \A j \in DOMAIN new.readings : new.readings[j].address # a
    BY <1>4, <2>1, <2>2
  <2>5. Unread(a, 1, pos)
    BY <1>3, <2>4 DEF Unread
  <2> QED  BY <1>2, <1>4, <2>3, <2>5 DEF JournalShown
<1>6. ASSUME NEW e, e = L + 1, NEW i \in DOMAIN new.readings, LastReading(e, i)'
      PROVE  Shows(stage.balances, new.readings[i].address, new.readings[i].asOf)
  <2>1. /\ i \in 1..pos /\ Reading(batch[i])
        /\ new.readings[i].address = batch[i].address
        /\ new.readings[i].asOf = batch[i].asOf
    BY <1>3
  <2>2. \A j \in DOMAIN new.readings : j > i => new.readings[j].address # batch[i].address
    <3>1. e \in DOMAIN journal' /\ journal'[e] = new
      BY <1>4, <1>6
    <3>2. \A j \in DOMAIN new.readings : j > i => new.readings[j].address # new.readings[i].address
      BY <1>6, <3>1 DEF LastReading
    <3> QED  BY <2>1, <3>2
  <2>3. ASSUME NEW j \in (i + 1)..pos, Reading(batch[j]) PROVE batch[j].address # batch[i].address
    <3>1. j \in 1..pos /\ j > i
      BY <2>1
    <3>2. j \in DOMAIN new.readings
      BY <1>3, <2>3, <3>1
    <3> QED  BY <1>3, <2>2, <3>1, <3>2
  <2>4. Unread(batch[i].address, i + 1, pos)
    BY <2>3 DEF Unread
  <2> QED  BY <1>2, <2>1, <2>4 DEF BatchShown
<1>7. \A e \in DOMAIN journal' : e \in 1..L \/ e = L + 1
  BY <1>4
<1>8. ASSUME NEW e \in DOMAIN journal', NEW i \in DOMAIN journal'[e].readings, LastReading(e, i)'
      PROVE  Shows(stage.balances, journal'[e].readings[i].address, journal'[e].readings[i].asOf)
  <2>1. CASE e \in 1..L
    BY <1>4, <1>5, <1>8, <2>1
  <2>2. CASE e = L + 1
    BY <1>4, <1>6, <1>8, <2>2
  <2> QED  BY <1>7, <2>1, <2>2
<1>9. JournalShown(db.balances, 0)'
  <2>1. \A a, n : Shows(stage.balances, a, n) => Shows(db.balances, a, n)'
    BY <1>1, ChainFixed DEF Shows
  <2> QED  BY <1>8, <2>1 DEF JournalShown
<1>10. \A i \in DOMAIN new.readings : new.readings[i].asOf \in Nat
  BY <1>2, <1>3 DEF ReadRight
<1>11. \A e \in DOMAIN journal' :
         /\ journal'[e].height \in 1..tip'
         /\ \A i \in DOMAIN journal'[e].readings : journal'[e].readings[i].asOf \in Nat
  BY <1>1, <1>2, <1>3, <1>4, <1>7, <1>10 DEF BalancesInv
<1> QED  BY <1>1, <1>4, <1>9, <1>11 DEF BalancesInv

\* The refresh and the jobs write no balances.
LEMMA BesideBalances ==
  ASSUME ExplorerInv, BalancesInv,
         \/ \E all \in BOOLEAN : StartRefresh(all)
         \/ \E n \in Frontiers : FetchList(n)
         \/ FetchFails \/ PublishPillars \/ PageDone
         \/ \E ok \in BOOLEAN : WriteRow(ok)
         \/ \E o \in GetPillars : runVotingActivity(o)
         \/ \E o \in GetPillars : \E counted \in BOOLEAN : snapshotPillarStats(o, counted)
         \/ \E t \in DOMAIN db.tokens : runTokenHolderCounts(t) \/ snapshotTokenStats(t)
         \/ snapshotNetworkStats
  PROVE  BalancesInv'
<1>1. Fine(db) /\ Refers(db)
  BY DEF ExplorerInv, TablesInv
<1>2. ASSUME \/ \E all \in BOOLEAN : StartRefresh(all)
             \/ (\E n \in Frontiers : FetchList(n)) \/ FetchFails \/ PublishPillars \/ PageDone
      PROVE  UNCHANGED <<world, tip, processing, journal>> /\ db' = db
  BY <1>2 DEF StartRefresh, FetchList, FetchFails, PublishPillars, PageDone, ledgerVars
<1>3. ASSUME NEW ok \in BOOLEAN, WriteRow(ok)
      PROVE  UNCHANGED <<world, tip, processing, journal>> /\ db'.balances = db.balances
  <2>1. /\ UNCHANGED <<world, tip, processing, journal>> /\ fetched
        /\ db' = db \/ db' = StoreRow(db, refresh, list[row + 1], sub)
    BY <1>3 DEF WriteRow
  <2>2. refresh \in DOMAIN After
    BY <2>1 DEF ExplorerInv, RefreshInv
  <2> QED  BY <1>1, <2>1, <2>2, StoreRowSteps
<1>4. ASSUME NEW u, \/ Cron([db EXCEPT !.tokens = u]) \/ Cron([db EXCEPT !.stats = u])
                    \/ Cron([db EXCEPT !.pillars = u])
      PROVE  UNCHANGED <<world, tip, processing, journal>> /\ db'.balances = db.balances
  <2>1. /\ UNCHANGED <<world, tip, processing, journal>>
        /\ \/ db' = [db EXCEPT !.tokens = u] \/ db' = [db EXCEPT !.stats = u]
           \/ db' = [db EXCEPT !.pillars = u]
    BY <1>4 DEF Cron
  <2>2. DOMAIN db = Tables /\ "balances" \in Tables
    BY <1>1 DEF Fine, Tables, EmptyDB
  <2> QED  BY <2>1, <2>2
<1>5. ASSUME NEW o, runVotingActivity(o) PROVE BalancesInv'
  BY <1>4, <1>5, BalancesFrame DEF runVotingActivity
<1>6. ASSUME NEW o, NEW counted, snapshotPillarStats(o, counted) PROVE BalancesInv'
  BY <1>4, <1>6, BalancesFrame DEF snapshotPillarStats
<1>7. ASSUME NEW t, runTokenHolderCounts(t) PROVE BalancesInv'
  BY <1>4, <1>7, BalancesFrame DEF runTokenHolderCounts
<1>8. ASSUME NEW t, snapshotTokenStats(t) PROVE BalancesInv'
  BY <1>4, <1>8, BalancesFrame DEF snapshotTokenStats
<1>9. ASSUME snapshotNetworkStats PROVE BalancesInv'
  BY <1>4, <1>9, BalancesFrame DEF snapshotNetworkStats
<1> QED  BY <1>2, <1>3, <1>5, <1>6, <1>7, <1>8, <1>9, BalancesFrame

\* Every step keeps BalancesInv.
LEMMA BalancesStep == ExplorerInv /\ BalancesInv /\ [Next]_vars => BalancesInv'
<1> SUFFICES ASSUME ExplorerInv, BalancesInv, [Next]_vars PROVE BalancesInv'
  OBVIOUS
<1>1. ASSUME LedgerNext PROVE BalancesInv'
  <2>1. ASSUME QueueMomentum PROVE BalancesInv'
    BY <2>1, QueueMomentumBalances
  <2>2. CASE Rollback
    <3>1. pc' = "idle" /\ UNCHANGED <<world, tip, db, journal>>
      BY <2>2 DEF Rollback, Idle
    <3> QED  BY <3>1, NotExecuting
  <2> QED  BY <1>1, <2>1, <2>2, NodeAdvanceBalances, QueueBalances, ExecItemBalances,
              CommitBalances DEF LedgerNext
<1>2. ASSUME Restart PROVE BalancesInv'
  <2>1. pc' = "idle" /\ UNCHANGED <<world, tip, db, journal>>
    BY <1>2 DEF Restart, Crash, Idle
  <2> QED  BY <2>1, NotExecuting
<1>3. ASSUME CachedNext PROVE BalancesInv'
  BY <1>1, <1>2, <1>3, BesideBalances DEF CachedNext
<1>4. ASSUME UNCHANGED cachedVars PROVE BalancesInv'
  BY <1>4, BalancesFrame DEF cachedVars, ledgerVars
<1> QED  BY <1>3, <1>4 DEF Next, StartWalk, ReadPage, vars

\* The API shows for an address what the last committed reading found, whichever node
\* was asked and whatever was read before it, and that is what the address holds for as
\* long as no momentum above the reading's frontier touches it.
THEOREM BalancesAreCurrent == Spec => []BalancesCurrent
<1>1. Init => BalancesInv
  BY DEF Init, CachedInit, LedgerInit, BalancesInv, JournalShown, IsSequence
<1>2. ASSUME ExplorerInv, BalancesInv PROVE BalancesCurrent
  <2> SUFFICES ASSUME NEW e \in DOMAIN journal, NEW i \in DOMAIN journal[e].readings,
                      LastReading(e, i), NEW m \in journal[e].readings[i].asOf..tip,
                      \A h \in (journal[e].readings[i].asOf + 1)..m :
                        journal[e].readings[i].address \notin Touched(h),
                      NEW t \in DOMAIN AccountInfo(journal[e].readings[i].address, m)
               PROVE  LET a == journal[e].readings[i].address IN
                      /\ <<a, t>> \in AccountsBalances(db, a).body
                      /\ db.balances[<<a, t>>] = safeBigIntToInt64(AccountInfo(a, m)[t])
    BY DEF BalancesCurrent
  <2> DEFINE a == journal[e].readings[i].address
             n == journal[e].readings[i].asOf
  <2>1. n \in Nat /\ tip \in Nat
    BY <1>2, ChainFacts DEF BalancesInv, ExplorerInv, ProcessInv
  <2>2. Shows(db.balances, a, n)
    <3>1. Unread(a, 1, 0)
      <4>1. 1..0 = {}
        OBVIOUS
      <4> QED  BY <4>1 DEF Unread
    <3> QED  BY <1>2, <3>1 DEF BalancesInv, JournalShown
  <2>3. \A h \in (n + 1)..m : a \notin Touched(h)
    OBVIOUS
  <2>4. m \in n..tip /\ t \in DOMAIN AccountInfo(a, m)
    OBVIOUS
  <2> HIDE DEF a, n
  <2>5. m \in Nat /\ n <= m
    BY <2>1, <2>4
  <2>6. Capped(a, n) = Capped(a, m)
    BY <2>1, <2>3, <2>5, SameHoldings
  <2>7. Shows(db.balances, a, m)
    BY <2>2, <2>6 DEF Shows
  <2>8. /\ <<a, t>> \in DOMAIN db.balances
        /\ db.balances[<<a, t>>] = safeBigIntToInt64(AccountInfo(a, m)[t])
    BY <2>4, <2>7 DEF Shows, Capped
  <2>9. AccountsBalances(db, a).body = {k \in DOMAIN db.balances : k[1] = a}
    BY DEF AccountsBalances, OK, BalanceListByAddress
  <2>10. <<a, t>> \in AccountsBalances(db, a).body
    BY <2>8, <2>9
  <2> QED  BY <2>8, <2>10 DEF a
<1> QED  BY <1>1, <1>2, Reachable, BalancesStep, PTL DEF Spec

-----------------------------------------------------------------------------
(* Pages: what the statements leave in the columns lists are sorted by *)

\* Rows that can be counted and sorted by the column c.
Numbered(t, c) ==
  IsFiniteSet(DOMAIN t) /\ \A x \in DOMAIN t : c \in DOMAIN t[x] /\ t[x][c] \in Int

\* INSERT or UPDATE of one whole row.
LEMMA NumberedPut ==
  ASSUME NEW t, NEW c, Numbered(t, c), NEW k, NEW r, c \in DOMAIN r, r[c] \in Int
  PROVE  Numbered(Put(t, k, r), c)
<1> DEFINE u == Put(t, k, r)
<1>1. DOMAIN u = DOMAIN t \cup {k} /\ \A x \in DOMAIN u : u[x] = IF x = k THEN r ELSE t[x]
  BY DEF Put
<1> HIDE DEF u
<1>2. IsFiniteSet(DOMAIN u)
  BY <1>1, FS_AddElement DEF Numbered
<1>3. Numbered(u, c)
  BY <1>1, <1>2 DEF Numbered
<1> QED  BY <1>3 DEF u

\* INSERT ... ON CONFLICT DO NOTHING.
LEMMA NumberedInsert ==
  ASSUME NEW t, NEW c, Numbered(t, c), NEW k, NEW r, c \in DOMAIN r, r[c] \in Int
  PROVE  Numbered(InsertOrIgnore(t, k, r), c)
BY NumberedPut DEF InsertOrIgnore

\* The row an upsert starts from: the stored one or a new one.
LEMMA NumberedRow ==
  ASSUME NEW t, NEW c, Numbered(t, c), NEW k, NEW r, c \in DOMAIN r, r[c] \in Int
  PROVE  c \in DOMAIN Row(t, k, r) /\ Row(t, k, r)[c] \in Int
BY DEF Row, Numbered

\* The statements of stakes.
LEMMA StakesNumbered ==
  ASSUME NEW t, Numbered(t, "started"), NEW k, NEW a, NEW c, NEW ts \in Int
  PROVE  /\ Numbered(StakeInsert(t, k, a, c, ts), "started")
         /\ Numbered(StakeSetInactive(t, c, a), "started")
<1>1. Numbered(StakeInsert(t, k, a, c, ts), "started")
  <2> DEFINE r == [address |-> a, cancelID |-> c, started |-> ts, active |-> TRUE]
  <2>1. "started" \in DOMAIN r /\ r["started"] \in Int
    OBVIOUS
  <2> HIDE DEF r
  <2>2. Numbered(InsertOrIgnore(t, k, r), "started")
    BY <2>1, NumberedInsert
  <2> QED  BY <2>2 DEF StakeInsert, r
<1>2. Numbered(StakeSetInactive(t, c, a), "started")
  BY DEF Numbered, StakeSetInactive
<1> QED  BY <1>1, <1>2

\* The statements of fusions.
LEMMA FusionsNumbered ==
  ASSUME NEW t, Numbered(t, "height"), NEW k, NEW a, NEW b, NEW c, NEW ts \in Int
  PROVE  /\ Numbered(FusionInsert(t, k, a, b, c, ts), "height")
         /\ Numbered(FusionSetInactive(t, c, a), "height")
<1>1. Numbered(FusionInsert(t, k, a, b, c, ts), "height")
  <2> DEFINE r == [address |-> a, beneficiary |-> b, cancelID |-> c, height |-> ts,
                   active |-> TRUE]
  <2>1. "height" \in DOMAIN r /\ r["height"] \in Int
    OBVIOUS
  <2> HIDE DEF r
  <2>2. Numbered(InsertOrIgnore(t, k, r), "height")
    BY <2>1, NumberedInsert
  <2> QED  BY <2>2 DEF FusionInsert, r
<1>2. Numbered(FusionSetInactive(t, c, a), "height")
  BY DEF Numbered, FusionSetInactive
<1> QED  BY <1>1, <1>2

\* The statements of htlcs.
LEMMA HtlcsNumbered ==
  ASSUME NEW t, Numbered(t, "created"), NEW k, NEW a, NEW s, NEW ts \in Int
  PROVE  /\ Numbered(HtlcInsert(t, k, [status |-> "active", locked |-> a, created |-> ts,
                                       settled |-> Null]), "created")
         /\ Numbered(HtlcSettle(t, k, s, ts), "created")
<1>1. Numbered(HtlcInsert(t, k, [status |-> "active", locked |-> a, created |-> ts,
                                 settled |-> Null]), "created")
  <2> DEFINE r == [status |-> "active", locked |-> a, created |-> ts, settled |-> Null]
  <2>1. "created" \in DOMAIN r /\ r["created"] \in Int
    OBVIOUS
  <2> HIDE DEF r
  <2>2. Numbered(InsertOrIgnore(t, k, r), "created")
    BY <2>1, NumberedInsert
  <2> QED  BY <2>2 DEF HtlcInsert, r
<1>2. Numbered(HtlcSettle(t, k, s, ts), "created")
  BY DEF Numbered, HtlcSettle
<1> QED  BY <1>1, <1>2

\* The statement of swap_retrievals.
LEMMA RetrievalsNumbered ==
  ASSUME NEW t, Numbered(t, "height"), NEW k, NEW a, NEW b, NEW c, NEW ts \in Int
  PROVE  Numbered(InsertRetrieval(t, k, a, b, c, ts), "height")
<1> DEFINE r == [address |-> a, znn |-> b, qsr |-> c, height |-> ts]
<1>1. "height" \in DOMAIN r /\ r["height"] \in Int
  OBVIOUS
<1> HIDE DEF r
<1>2. Numbered(InsertOrIgnore(t, k, r), "height")
  BY <1>1, NumberedInsert
<1> QED  BY <1>2 DEF InsertRetrieval, r

\* The statement of reward_transactions.
LEMMA RewardsNumbered ==
  ASSUME NEW t, Numbered(t, "height"), NEW k, NEW a, NEW b, NEW c, NEW n, NEW ts \in Int
  PROVE  Numbered(InsertRewardTransaction(t, k,
           [address |-> a, type |-> b, token |-> c, amount |-> n, height |-> ts]), "height")
<1> DEFINE r == [address |-> a, type |-> b, token |-> c, amount |-> n, height |-> ts]
<1>1. "height" \in DOMAIN r /\ r["height"] \in Int
  OBVIOUS
<1> HIDE DEF r
<1>2. Numbered(InsertOrIgnore(t, k, r), "height")
  BY <1>1, NumberedInsert
<1> QED  BY <1>2 DEF InsertRewardTransaction, r

\* The statement of votes.
LEMMA VotesNumbered ==
  ASSUME NEW t, Numbered(t, "height"), NEW a, NEW id, NEW p, NEW f, NEW v, NEW ts \in Int
  PROVE  Numbered(VoteInsert(t, a, id, [project |-> p, phase |-> f, vote |-> v, height |-> ts]),
                  "height")
<1> DEFINE new == [project |-> p, phase |-> f, vote |-> v, height |-> ts]
           r == Row(t, <<a, id>>, new)
           s == [r EXCEPT !.vote = new.vote, !.height = new.height]
<1>1. "height" \in DOMAIN new /\ new["height"] = ts
  OBVIOUS
<1> HIDE DEF new
<1>2. "height" \in DOMAIN r
  BY <1>1, NumberedRow
<1> HIDE DEF r
<1>3. "height" \in DOMAIN s /\ s["height"] \in Int
  BY <1>1, <1>2
<1> HIDE DEF s
<1>4. Numbered(Put(t, <<a, id>>, s), "height")
  BY <1>3, NumberedPut
<1> QED  BY <1>4 DEF VoteInsert, s, r, new

\* The statements of sentinels.
LEMMA SentinelsNumbered ==
  ASSUME NEW t, Numbered(t, "registered"), NEW o, NEW n \in Int, NEW b
  PROVE  /\ Numbered(SentinelUpsert(t, o, n, b), "registered")
         /\ Numbered(SentinelSetInactive(t, o), "registered")
<1>1. Numbered(SentinelUpsert(t, o, n, b), "registered")
  <2> DEFINE r == [active |-> b, registered |-> n]
  <2>1. "registered" \in DOMAIN r /\ r["registered"] \in Int
    OBVIOUS
  <2> HIDE DEF r
  <2>2. Numbered(InsertOrIgnore(t, o, r), "registered")
    BY <2>1, NumberedInsert
  <2> QED  BY <2>2 DEF SentinelUpsert, r
<1>2. Numbered(SentinelSetInactive(t, o), "registered")
  BY DEF Numbered, SentinelSetInactive
<1> QED  BY <1>1, <1>2

\* The statement of projects.
LEMMA ProjectsNumbered ==
  ASSUME NEW t, Numbered(t, "created"), NEW id, NEW v, NEW n \in Int, NEW st
  PROVE  Numbered(ProjectUpsert(t, id, v, n, st), "created")
<1> DEFINE new == [votingID |-> v, created |-> n, status |-> st]
           r == Row(t, id, new)
           s == [r EXCEPT !.status = st]
<1>1. "created" \in DOMAIN new /\ new["created"] \in Int
  OBVIOUS
<1> HIDE DEF new
<1>2. "created" \in DOMAIN r /\ r["created"] \in Int
  BY <1>1, NumberedRow
<1> HIDE DEF r
<1>3. "created" \in DOMAIN s /\ s["created"] \in Int
  BY <1>2
<1> HIDE DEF s
<1>4. Numbered(Put(t, id, s), "created")
  BY <1>3, NumberedPut
<1> QED  BY <1>4 DEF ProjectUpsert, s, r, new

\* The statements of pillars.
LEMMA PillarsNumbered ==
  ASSUME NEW t, Numbered(t, "rank"), NEW p, p.rank \in Int, NEW o, NEW n, NEW ts, NEW x, NEW y
  PROVE  /\ Numbered(PillarUpsert(t, p), "rank")
         /\ Numbered(SetAsRevoked(t, o, n, ts), "rank")
         /\ Numbered(UpdateSpawnInfo(t, o, ts, x), "rank")
         /\ Numbered(IncrementMomentumCount(t, o), "rank")
         /\ Numbered(UpdateVotingActivity(t, o, x, y), "rank")
<1>0. \A m : "rank" \in DOMAIN Pillar(m) /\ Pillar(m)["rank"] \in Int
  BY DEF Pillar
<1>1. Numbered(PillarUpsert(t, p), "rank")
  <2> DEFINE r == Row(t, p.owner, Pillar(p.name))
             s == [r EXCEPT !.name = p.name, !.rank = p.rank, !.producer = p.producer,
                            !.withdraw = p.withdraw, !.revokedAt = p.revokedAt]
  <2>1. "rank" \in DOMAIN r
    BY <1>0, NumberedRow
  <2> HIDE DEF r
  <2>2. "rank" \in DOMAIN s /\ s["rank"] \in Int
    BY <2>1
  <2> HIDE DEF s
  <2>3. Numbered(Put(t, p.owner, s), "rank")
    BY <2>2, NumberedPut
  <2> QED  BY <2>3 DEF PillarUpsert, s, r
<1>2. Numbered(SetAsRevoked(t, o, n, ts), "rank")
  <2> DEFINE r == Row(t, o, Pillar(n))
             s == [r EXCEPT !.revokedAt = ts, !.revoked = TRUE]
  <2>1. "rank" \in DOMAIN r /\ r["rank"] \in Int
    BY <1>0, NumberedRow
  <2> HIDE DEF r
  <2>2. "rank" \in DOMAIN s /\ s["rank"] \in Int
    BY <2>1
  <2> HIDE DEF s
  <2>3. Numbered(Put(t, o, s), "rank")
    BY <2>2, NumberedPut
  <2> QED  BY <2>3 DEF SetAsRevoked, s, r
<1>3. Numbered(UpdateSpawnInfo(t, o, ts, x), "rank")
  BY DEF Numbered, UpdateSpawnInfo
<1>4. Numbered(IncrementMomentumCount(t, o), "rank")
  BY DEF Numbered, IncrementMomentumCount
<1>5. Numbered(UpdateVotingActivity(t, o, x, y), "rank")
  BY DEF Numbered, UpdateVotingActivity
<1> QED  BY <1>1, <1>2, <1>3, <1>4, <1>5

\* The statements of tokens.
LEMMA TokensNumbered ==
  ASSUME NEW t, Numbered(t, "holders"), NEW k, NEW a, NEW n \in Int
  PROVE  /\ Numbered(TokenUpsert(t, k, a), "holders")
         /\ Numbered(UpdateBurnAmount(t, k, a), "holders")
         /\ Numbered(UpdateLastUpdateTimestamp(t, k, a), "holders")
         /\ Numbered(IncrementTransactionCount(t, k), "holders")
         /\ Numbered(UpdateHolderCount(t, k, n), "holders")
<1>1. Numbered(TokenUpsert(t, k, a), "holders")
  <2> DEFINE new == Token(a)
             r == Row(t, k, new)
             s == [r EXCEPT !.supply = a]
  <2>1. "holders" \in DOMAIN new /\ new["holders"] \in Int
    BY DEF Token
  <2> HIDE DEF new
  <2>2. "holders" \in DOMAIN r /\ r["holders"] \in Int
    BY <2>1, NumberedRow
  <2> HIDE DEF r
  <2>3. "holders" \in DOMAIN s /\ s["holders"] \in Int
    BY <2>2
  <2> HIDE DEF s
  <2>4. Numbered(Put(t, k, s), "holders")
    BY <2>3, NumberedPut
  <2> QED  BY <2>4 DEF TokenUpsert, s, r, new
<1>2. Numbered(UpdateBurnAmount(t, k, a), "holders")
  BY DEF Numbered, UpdateBurnAmount
<1>3. Numbered(UpdateLastUpdateTimestamp(t, k, a), "holders")
  BY DEF Numbered, UpdateLastUpdateTimestamp
<1>4. Numbered(IncrementTransactionCount(t, k), "holders")
  BY DEF Numbered, IncrementTransactionCount
<1>5. Numbered(UpdateHolderCount(t, k, n), "holders")
  BY DEF Numbered, UpdateHolderCount
<1> QED  BY <1>1, <1>2, <1>3, <1>4, <1>5

\* The statements of accounts.
LEMMA AccountsNumbered ==
  ASSUME NEW t, Numbered(t, "since"), NEW a, NEW h, NEW token, NEW amount, NEW ts
  PROVE  /\ Numbered(AccountUpsert(t, a, h), "since")
         /\ Numbered(AddSend(t, a, token, amount, ts), "since")
         /\ Numbered(AddReceive(t, a, token, amount, ts), "since")
         /\ Numbered(SetGenesisBalance(t, a, token, amount), "since")
         /\ Numbered(BumpTxCount(t, a, ts), "since")
         /\ ts \in Int => Numbered(UpdateDelegate(t, a, h, ts), "since")
<1> DEFINE r == Row(t, a, Account)
<1>0. "since" \in DOMAIN r /\ r["since"] \in Int
  <2>1. "since" \in DOMAIN Account /\ Account["since"] \in Int
    BY DEF Account, Null
  <2> QED  BY <2>1, NumberedRow
<1> HIDE DEF r
<1>1. Numbered(AccountUpsert(t, a, h), "since")
  <2> DEFINE s == [r EXCEPT !.blockCount = h]
  <2>1. "since" \in DOMAIN s /\ s["since"] \in Int
    BY <1>0
  <2> HIDE DEF s
  <2>2. Numbered(Put(t, a, s), "since")
    BY <2>1, NumberedPut
  <2> QED  BY <2>2 DEF AccountUpsert, s, r
<1>2. Numbered(AddSend(t, a, token, amount, ts), "since")
  <2> DEFINE s == [r EXCEPT !.sent = flowColumn(@, token, amount), !.active = Widen(@, ts)]
  <2>1. "since" \in DOMAIN s /\ s["since"] \in Int
    BY <1>0
  <2> HIDE DEF s
  <2>2. Numbered(Put(t, a, s), "since")
    BY <2>1, NumberedPut
  <2> QED  BY <2>2 DEF AddSend, s, r
<1>3. Numbered(AddReceive(t, a, token, amount, ts), "since")
  <2> DEFINE s == [r EXCEPT !.received = flowColumn(@, token, amount), !.active = Widen(@, ts)]
  <2>1. "since" \in DOMAIN s /\ s["since"] \in Int
    BY <1>0
  <2> HIDE DEF s
  <2>2. Numbered(Put(t, a, s), "since")
    BY <2>1, NumberedPut
  <2> QED  BY <2>2 DEF AddReceive, s, r
<1>4. Numbered(SetGenesisBalance(t, a, token, amount), "since")
  <2> DEFINE s == [r EXCEPT !.genesis[token] = amount]
  <2>1. "since" \in DOMAIN s /\ s["since"] \in Int
    BY <1>0
  <2> HIDE DEF s
  <2>2. Numbered(Put(t, a, s), "since")
    BY <2>1, NumberedPut
  <2> QED  BY <2>2 DEF SetGenesisBalance, s, r
<1>5. Numbered(BumpTxCount(t, a, ts), "since")
  <2> DEFINE s == [r EXCEPT !.seen = Widen(@, ts), !.txCount = @ + 1]
  <2>1. "since" \in DOMAIN s /\ s["since"] \in Int
    BY <1>0
  <2> HIDE DEF s
  <2>2. Numbered(Put(t, a, s), "since")
    BY <2>1, NumberedPut
  <2> QED  BY <2>2 DEF BumpTxCount, s, r
<1>6. ts \in Int => Numbered(UpdateDelegate(t, a, h, ts), "since")
  BY DEF Numbered, UpdateDelegate
<1> QED  BY <1>1, <1>2, <1>3, <1>4, <1>5, <1>6

-----------------------------------------------------------------------------
(* Pages: the tables together *)

\* The column each list is sorted by.
Column ==
  [tokens |-> "holders", pillars |-> "rank", sentinels |-> "registered", projects |-> "created",
   stakes |-> "started", fusions |-> "height", htlcs |-> "created", retrievals |-> "height",
   accounts |-> "since", rewards |-> "height", votes |-> "height"]

\* Every list can be counted and sorted.
Sortable(d) ==
  /\ \A n \in DOMAIN Column : Numbered(d[n], Column[n])
  /\ IsFiniteSet(DOMAIN d.balances) /\ \A k \in DOMAIN d.balances : d.balances[k] \in Int

\* Column, written out; the other tables are read by no sorted list.
LEMMA ColumnNames ==
  /\ DOMAIN Column = {"tokens", "pillars", "sentinels", "projects", "stakes", "fusions",
                      "htlcs", "retrievals", "accounts", "rewards", "votes"}
  /\ Column.tokens = "holders" /\ Column.pillars = "rank"
  /\ Column.sentinels = "registered" /\ Column.projects = "created"
  /\ Column.stakes = "started" /\ Column.fusions = "height"
  /\ Column.htlcs = "created" /\ Column.retrievals = "height"
  /\ Column.accounts = "since" /\ Column.rewards = "height"
  /\ Column.votes = "height"
  /\ {"updates", "delegations", "mints", "burns", "cumulative", "blocks", "momentums", "assets",
      "stats", "phases"} = Tables \ (DOMAIN Column \cup {"balances"})
BY DEF Column, Tables, EmptyDB

\* Sortable, table by table.
LEMMA SortableTables ==
  ASSUME NEW d
  PROVE  Sortable(d) <=>
           /\ Numbered(d.tokens, "holders") /\ Numbered(d.pillars, "rank")
           /\ Numbered(d.sentinels, "registered") /\ Numbered(d.projects, "created")
           /\ Numbered(d.stakes, "started") /\ Numbered(d.fusions, "height")
           /\ Numbered(d.htlcs, "created") /\ Numbered(d.retrievals, "height")
           /\ Numbered(d.accounts, "since") /\ Numbered(d.rewards, "height")
           /\ Numbered(d.votes, "height")
           /\ IsFiniteSet(DOMAIN d.balances) /\ \A k \in DOMAIN d.balances : d.balances[k] \in Int
BY ColumnNames DEF Sortable

\* It is enough to look at the lists that are written.
LEMMA OnlySortable ==
  ASSUME NEW d, Sortable(d), NEW e, NEW F, Only(d, e, F), "balances" \notin F,
         \A n \in F \cap DOMAIN Column : Numbered(e[n], Column[n])
  PROVE  Sortable(e)
<1>1. DOMAIN Column \subseteq Tables /\ "balances" \in Tables
  BY DEF Column, Tables, EmptyDB
<1>2. ASSUME NEW n \in DOMAIN Column PROVE Numbered(e[n], Column[n])
  <2>1. CASE n \in F
    BY <2>1
  <2>2. CASE n \notin F
    BY <1>1, <2>2 DEF Only, Sortable
  <2> QED  BY <2>1, <2>2
<1>3. e.balances = d.balances
  BY <1>1 DEF Only
<1> QED  BY <1>2, <1>3 DEF Sortable

\* One list is replaced.
LEMMA OneSortable ==
  ASSUME NEW d, DOMAIN d = Tables, Sortable(d), NEW n \in DOMAIN Column, NEW u,
         Numbered(u, Column[n])
  PROVE  Sortable([d EXCEPT ![n] = u])
<1> DEFINE e == [d EXCEPT ![n] = u]
<1>1. DOMAIN Column \subseteq Tables /\ "balances" \notin DOMAIN Column
  BY DEF Column, Tables, EmptyDB
<1>2. Only(d, e, {n}) /\ e[n] = u
  BY <1>1 DEF Only
<1> HIDE DEF e
<1>3. Sortable(e)
  BY <1>1, <1>2, OnlySortable
<1> QED  BY <1>3 DEF e

\* A table no list is read from is replaced.
LEMMA NoneSortable ==
  ASSUME NEW d, DOMAIN d = Tables, Sortable(d),
         NEW n \in Tables \ (DOMAIN Column \cup {"balances"}),
         NEW u
  PROVE  Sortable([d EXCEPT ![n] = u])
<1> DEFINE e == [d EXCEPT ![n] = u]
<1>1. Only(d, e, {n})
  BY DEF Only
<1> HIDE DEF e
<1>2. Sortable(e)
  BY <1>1, OnlySortable
<1> QED  BY <1>2 DEF e

\* The statements of a contract call.
LEMMA PillarSortable ==
  ASSUME NEW d, DOMAIN d = Tables, Sortable(d), NEW q, NEW ts \in Int
  PROVE  Sortable(indexPillarContract(d, q, ts))
<1> DEFINE c == q.call
           sender == q.paired.address
           ds == q.block.descendants
           cost == world.blocks[ds[1]]
           spawned == ds # <<>> /\ cost.to = "token"
           amount == safeBigIntToInt64(cost.amount)
           ups == PillarUpdateInsert(d.updates, sender, c.producer, c.withdraw, c.name, ts)
           pil == IF spawned THEN UpdateSpawnInfo(d.pillars, sender, ts, amount)
                  ELSE d.pillars
           e1 == [d EXCEPT !.updates = ups, !.pillars = pil]
           acc == UpdateDelegate(d.accounts, sender, q.pillarOwner, ts)
           del == OpenDelegation(CloseActive(d.delegations, sender, ts), sender, q.pillarOwner, ts)
           e2 == [d EXCEPT !.accounts = acc, !.delegations = del]
           acc3 == UpdateDelegate(d.accounts, sender, "", Null)
           del3 == CloseActive(d.delegations, sender, ts)
           e3 == [d EXCEPT !.accounts = acc3, !.delegations = del3]
           pil4 == SetAsRevoked(d.pillars, sender, c.name, ts)
           e4 == [d EXCEPT !.pillars = pil4]
<1>0. indexPillarContract(d, q, ts) \in {e1, e2, e3, e4, d}
  <2>1. CASE c.method \in {"Register", "RegisterLegacy"} /\ c.name # ""
    <3>1. indexPillarContract(d, q, ts) = e1
      BY <2>1 DEF indexPillarContract
    <3> QED  BY <3>1
  <2>2. CASE c.method = "Delegate"
    <3>1. indexPillarContract(d, q, ts) \in {e2, d}
      BY <2>2 DEF indexPillarContract
    <3> QED  BY <3>1
  <2>3. CASE c.method = "Undelegate"
    <3>1. indexPillarContract(d, q, ts) = e3
      BY <2>3 DEF indexPillarContract
    <3> QED  BY <3>1
  <2>4. CASE c.method = "Revoke"
    <3>1. indexPillarContract(d, q, ts) \in {e4, d}
      BY <2>4 DEF indexPillarContract
    <3> QED  BY <3>1
  <2>5. CASE /\ ~(c.method \in {"Register", "RegisterLegacy"} /\ c.name # "")
             /\ c.method \notin {"Delegate", "Undelegate", "Revoke"}
    <3>1. indexPillarContract(d, q, ts) = d
      BY <2>5 DEF indexPillarContract
    <3> QED  BY <3>1
  <2> QED  BY <2>1, <2>2, <2>3, <2>4, <2>5
<1>1. Numbered(d.pillars, "rank") /\ Numbered(d.accounts, "since")
  BY SortableTables
<1>2. Numbered(pil, "rank") /\ Numbered(pil4, "rank")
  <2>1. [rank |-> 0].rank \in Int
    OBVIOUS
  <2>2. /\ Numbered(UpdateSpawnInfo(d.pillars, sender, ts, amount), "rank")
        /\ Numbered(SetAsRevoked(d.pillars, sender, c.name, ts), "rank")
    <3> HIDE DEF sender, amount, c
    <3> QED  BY <1>1, <2>1, PillarsNumbered
  <2> QED  BY <1>1, <2>2
<1>3. Numbered(acc, "since") /\ Numbered(acc3, "since")
  <2>1. Null \in Int
    BY DEF Null
  <2> HIDE DEF sender
  <2> QED  BY <1>1, <2>1, AccountsNumbered
<1> HIDE DEF ups, pil, acc, del, acc3, del3, pil4
<1>4. Only(d, e1, {"updates", "pillars"}) /\ e1.pillars = pil
  BY DEF Only, Tables, EmptyDB
<1>5. Only(d, e2, {"accounts", "delegations"}) /\ e2.accounts = acc
  BY DEF Only, Tables, EmptyDB
<1>6. Only(d, e3, {"accounts", "delegations"}) /\ e3.accounts = acc3
  BY DEF Only, Tables, EmptyDB
<1>7. Only(d, e4, {"pillars"}) /\ e4.pillars = pil4
  BY DEF Only, Tables, EmptyDB
<1> HIDE DEF e1, e2, e3, e4
<1>8. Sortable(e1) /\ Sortable(e4)
  BY <1>2, <1>4, <1>7, OnlySortable, ColumnNames
<1>9. Sortable(e2) /\ Sortable(e3)
  BY <1>3, <1>5, <1>6, OnlySortable, ColumnNames
<1> QED  BY <1>0, <1>8, <1>9

\* The stake contract's statements.
LEMMA StakeSortable ==
  ASSUME NEW d, DOMAIN d = Tables, Sortable(d), NEW q, NEW ts \in Int
  PROVE  Sortable(indexStakeContract(d, q, ts))
<1> DEFINE ins == StakeInsert(d.stakes, q.paired.hash, q.paired.address,
                              getStakeCancelID(q.paired.hash), ts)
           off == StakeSetInactive(d.stakes, getStakeCancelID(q.call.id), q.paired.address)
<1>0. indexStakeContract(d, q, ts) \in {[d EXCEPT !.stakes = ins], [d EXCEPT !.stakes = off], d}
  BY DEF indexStakeContract
<1>1. Numbered(ins, Column.stakes) /\ Numbered(off, Column.stakes)
  BY StakesNumbered, SortableTables, ColumnNames
<1> HIDE DEF ins, off
<1>2. Sortable([d EXCEPT !.stakes = ins]) /\ Sortable([d EXCEPT !.stakes = off])
  BY <1>1, OneSortable, ColumnNames
<1> QED  BY <1>0, <1>2

\* The sentinel contract's.
LEMMA SentinelSortable ==
  ASSUME NEW d, DOMAIN d = Tables, Sortable(d), NEW q
  PROVE  Sortable(indexSentinelContract(d, q))
<1> DEFINE off == SentinelSetInactive(d.sentinels, q.paired.address)
<1>0. indexSentinelContract(d, q) \in {[d EXCEPT !.sentinels = off], d}
  BY DEF indexSentinelContract
<1>1. Numbered(off, Column.sentinels)
  BY 0 \in Int, SentinelsNumbered, SortableTables, ColumnNames
<1> HIDE DEF off
<1>2. Sortable([d EXCEPT !.sentinels = off])
  BY <1>1, OneSortable, ColumnNames
<1> QED  BY <1>0, <1>2

\* The plasma contract's.
LEMMA PlasmaSortable ==
  ASSUME NEW d, DOMAIN d = Tables, Sortable(d), NEW q, NEW ts \in Int
  PROVE  Sortable(indexPlasmaContract(d, q, ts))
<1> DEFINE to  == IF q.call.address = "" THEN q.paired.address ELSE q.call.address
           ins == FusionInsert(d.fusions, q.paired.hash, q.paired.address, to,
                               getFusionCancelID(q.paired.hash), ts)
           off == FusionSetInactive(d.fusions, getFusionCancelID(q.call.id), q.paired.address)
<1>0. indexPlasmaContract(d, q, ts)
        \in {[d EXCEPT !.fusions = ins], [d EXCEPT !.fusions = off], d}
  BY DEF indexPlasmaContract
<1>1. Numbered(ins, Column.fusions) /\ Numbered(off, Column.fusions)
  <2> HIDE DEF to
  <2> QED  BY FusionsNumbered, SortableTables, ColumnNames
<1> HIDE DEF ins, off
<1>2. Sortable([d EXCEPT !.fusions = ins]) /\ Sortable([d EXCEPT !.fusions = off])
  BY <1>1, OneSortable, ColumnNames
<1> QED  BY <1>0, <1>2

\* The accelerator's.
LEMMA AcceleratorSortable ==
  ASSUME NEW d, DOMAIN d = Tables, Sortable(d), NEW q, NEW ts \in Int
  PROVE  Sortable(indexAcceleratorContract(d, q, ts))
<1> DEFINE v == VoteInsert(d.votes, q.voter, q.call.id,
                  [project |-> q.votedOn[1], phase |-> q.votedOn[2],
                   vote |-> q.call.vote, height |-> ts])
<1>0. indexAcceleratorContract(d, q, ts) \in {[d EXCEPT !.votes = v], d}
  BY DEF indexAcceleratorContract
<1>1. Numbered(v, Column.votes)
  BY VotesNumbered, SortableTables, ColumnNames
<1> HIDE DEF v
<1>2. Sortable([d EXCEPT !.votes = v])
  BY <1>1, OneSortable, ColumnNames
<1> QED  BY <1>0, <1>2

\* The token contract's.
LEMMA TokenSortable ==
  ASSUME NEW d, DOMAIN d = Tables, Sortable(d), NEW q, NEW ts \in Int
  PROVE  Sortable(indexTokenContract(d, q, ts))
<1> DEFINE m  == InsertMint(d.mints, q.hash, q.call.token, q.call.amount, ts)
           e1 == [d EXCEPT !.mints = m]
           amount == safeBigIntToInt64(q.paired.amount)
           b  == InsertBurn(d.burns, q.hash, q.paired.token, amount, ts)
           k  == UpdateBurnAmount(d.tokens, q.paired.token, amount)
           e2 == [d EXCEPT !.burns = b, !.tokens = k]
           u  == UpdateLastUpdateTimestamp(d.tokens, q.call.token, ts)
           e3 == [d EXCEPT !.tokens = u]
<1>0. indexTokenContract(d, q, ts) \in {e1, e2, e3, d}
  <2>1. CASE q.call.method = "Mint" /\ q.call.amount <= MaxInt64
    <3>1. indexTokenContract(d, q, ts) = e1
      BY <2>1 DEF indexTokenContract
    <3> QED  BY <3>1
  <2>2. CASE q.call.method = "Burn"
    <3>1. indexTokenContract(d, q, ts) = e2
      BY <2>2 DEF indexTokenContract
    <3> QED  BY <3>1
  <2>3. CASE q.call.method = "UpdateToken"
    <3>1. indexTokenContract(d, q, ts) \in {e3, d}
      BY <2>3 DEF indexTokenContract
    <3> QED  BY <3>1
  <2>4. CASE /\ ~(q.call.method = "Mint" /\ q.call.amount <= MaxInt64)
             /\ q.call.method \notin {"Burn", "UpdateToken"}
    <3>1. indexTokenContract(d, q, ts) = d
      BY <2>4 DEF indexTokenContract
    <3> QED  BY <3>1
  <2> QED  BY <2>1, <2>2, <2>3, <2>4
<1>1. Numbered(k, "holders") /\ Numbered(u, "holders")
  <2> HIDE DEF amount
  <2> QED  BY 0 \in Int, TokensNumbered, SortableTables
<1> HIDE DEF m, b, k, u
<1>2. Only(d, e2, {"burns", "tokens"}) /\ e2.tokens = k
  BY DEF Only, Tables, EmptyDB
<1>3. Sortable(e1)
  BY NoneSortable, ColumnNames
<1>4. Sortable(e3)
  BY <1>1, OneSortable, ColumnNames
<1> HIDE DEF e1, e2, e3
<1>5. Sortable(e2)
  BY <1>1, <1>2, OnlySortable, ColumnNames
<1> QED  BY <1>0, <1>3, <1>4, <1>5

\* The swap contract's.
LEMMA SwapSortable ==
  ASSUME NEW d, DOMAIN d = Tables, Sortable(d), NEW q, NEW ts \in Int
  PROVE  Sortable(indexSwapContract(d, q, ts))
<1> DEFINE r == InsertRetrieval(d.retrievals, q.paired.hash, q.paired.address,
                                Payout(q.block, "znn"), Payout(q.block, "qsr"), ts)
<1>0. indexSwapContract(d, q, ts) \in {[d EXCEPT !.retrievals = r], d}
  BY DEF indexSwapContract
<1>1. Numbered(r, Column.retrievals)
  <2>1. Numbered(d.retrievals, "height")
    BY SortableTables
  <2> QED  BY <2>1, RetrievalsNumbered, ColumnNames
<1> HIDE DEF r
<1>2. Sortable([d EXCEPT !.retrievals = r])
  BY <1>1, OneSortable, ColumnNames
<1> QED  BY <1>0, <1>2

\* The HTLC contract's.
LEMMA HtlcSortable ==
  ASSUME NEW d, DOMAIN d = Tables, Sortable(d), NEW q, NEW ts \in Int
  PROVE  Sortable(indexHtlcContract(d, q, ts))
<1> DEFINE new == [status |-> "active", locked |-> q.paired.address, created |-> ts,
                   settled |-> Null]
           t1 == HtlcInsert(d.htlcs, q.paired.hash, new)
           t2 == HtlcSettle(d.htlcs, q.call.id, "unlocked", ts)
           t3 == HtlcSettle(d.htlcs, q.call.id, "reclaimed", ts)
<1>0. indexHtlcContract(d, q, ts) \in {[d EXCEPT !.htlcs = t1], [d EXCEPT !.htlcs = t2],
                                       [d EXCEPT !.htlcs = t3], d}
  BY DEF indexHtlcContract
<1>1. Numbered(t1, Column.htlcs) /\ Numbered(t2, Column.htlcs) /\ Numbered(t3, Column.htlcs)
  BY HtlcsNumbered, SortableTables, ColumnNames
<1> HIDE DEF t1, t2, t3
<1>2. /\ Sortable([d EXCEPT !.htlcs = t1]) /\ Sortable([d EXCEPT !.htlcs = t2])
      /\ Sortable([d EXCEPT !.htlcs = t3])
  BY <1>1, OneSortable, ColumnNames
<1> QED  BY <1>0, <1>2

\* Whichever contract the block belongs to.
LEMMA EmbeddedSortable ==
  ASSUME NEW d, DOMAIN d = Tables, Sortable(d), NEW q, NEW ts \in Int
  PROVE  Sortable(indexEmbeddedContracts(d, q, ts))
BY PillarSortable, StakeSortable, SentinelSortable, PlasmaSortable, AcceleratorSortable,
   TokenSortable, SwapSortable, HtlcSortable DEF indexEmbeddedContracts

\* A reward and its running total.
LEMMA RewardSortable ==
  ASSUME NEW d, DOMAIN d = Tables, Sortable(d), NEW q, NEW type, NEW ts \in Int
  PROVE  Sortable(RecordReward(d, q, type, ts))
<1> DEFINE amount == safeBigIntToInt64(q.paired.amount)
           new == [address |-> q.block.address, type |-> type, token |-> q.paired.token,
                   amount |-> amount, height |-> ts]
           r == InsertRewardTransaction(d.rewards, q.hash, new)
           c == UpdateCumulativeRewards(d.cumulative, q.block.address, type, q.paired.token,
                                        amount)
           e == [d EXCEPT !.rewards = r, !.cumulative = c]
<1>0. RecordReward(d, q, type, ts) = e
  BY DEF RecordReward
<1>1. Numbered(r, "height")
  <2> HIDE DEF amount
  <2> QED  BY RewardsNumbered, SortableTables
<1> HIDE DEF r, c
<1>2. Only(d, e, {"rewards", "cumulative"}) /\ e.rewards = r
  BY DEF Only, Tables, EmptyDB
<1> HIDE DEF e
<1> QED  BY <1>0, <1>1, <1>2, OnlySortable, ColumnNames

\* The account rows of one block.
LEMMA AccountWritesNumbered ==
  ASSUME NEW t, Numbered(t, "since"), NEW q, NEW ts
  PROVE  Numbered(AccountWrites(t, q, ts), "since")
<1> DEFINE b      == q.block
           amount == safeBigIntToInt64(b.amount)
           own    == AccountUpsert(t, b.address, b.height)
           flow   == CASE b.type \in Sends -> AddSend(own, b.address, b.token, amount, ts)
                       [] b.type \in Receives -> AddReceive(own, b.address, b.token, amount, ts)
                       [] OTHER -> own
           seeded == IF b.type = "genesisReceive" /\ ts = 1
                       THEN SetGenesisBalance(flow, b.address, b.token, amount) ELSE flow
           bumped == BumpTxCount(seeded, b.address, ts)
           all    == IF b.to \notin {"", b.address} THEN BumpTxCount(bumped, b.to, ts)
                     ELSE bumped
<1>0. AccountWrites(t, q, ts) = all
  BY DEF AccountWrites
<1>1. Numbered(own, "since")
  BY AccountsNumbered
<1> HIDE DEF own, amount
<1>2. Numbered(flow, "since")
  BY <1>1, AccountsNumbered
<1> HIDE DEF flow
<1>3. Numbered(seeded, "since")
  BY <1>2, AccountsNumbered
<1> HIDE DEF seeded
<1>4. Numbered(bumped, "since")
  BY <1>3, AccountsNumbered
<1> HIDE DEF bumped
<1>5. Numbered(all, "since")
  BY <1>4, AccountsNumbered
<1> QED  BY <1>0, <1>5

-----------------------------------------------------------------------------
(* Pages: one momentum, one refresh row *)

\* Said once, where no other fact gets in the way.
LEMMA Zero == 0 \in Int
OBVIOUS

\* The statements of one block.
LEMMA ProcessSortable ==
  ASSUME NEW d, Fine(d), Refers(d), Sortable(d), NEW q, q.block.to # "", NEW ts \in Int, ts # Null
  PROVE  Sortable(processAccountBlocks(d, q, ts))
<1> DEFINE d1 == RowsWritten(d, q, ts)
           d2 == CallWritten(d1, q, ts)
           d3 == RewardWritten(d2, q, ts)
           d4 == TokenWritten(d3, q)
<1>0. processAccountBlocks(d, q, ts) = d4
  BY DEF processAccountBlocks
<1>1. Fine(d1)
  BY RowsWrittenSteps DEF Steps
<1>2. Sortable(d1)
  <2> DEFINE acc == AccountWrites(d.accounts, q, ts)
             blk == BlockWrites(d.blocks, q, ts)
             e == [d EXCEPT !.accounts = acc, !.blocks = blk]
  <2>1. Numbered(acc, "since")
    BY SortableTables, AccountWritesNumbered
  <2> HIDE DEF acc, blk
  <2>2. Only(d, e, {"accounts", "blocks"}) /\ e.accounts = acc
    BY DEF Only, Fine, Tables, EmptyDB
  <2> HIDE DEF e
  <2>3. Sortable(e)
    BY <2>1, <2>2, OnlySortable, ColumnNames
  <2> QED  BY <2>3 DEF RowsWritten, e, acc, blk
<1> HIDE DEF d1
<1>3. Writes(d1, d2, q.hash)
  BY <1>1, CallWrites
<1>4. Fine(d2) /\ Sortable(d2)
  <2>1. Fine(d2)
    BY <1>1, <1>3, WritesFine
  <2>2. Sortable(d2)
    BY <1>1, <1>2, EmbeddedSortable DEF CallWritten, Fine
  <2> QED  BY <2>1, <2>2
<1> HIDE DEF d2
<1>5. Writes(d2, d3, q.hash)
  BY <1>4, RewardWrittenWrites
<1>6. DOMAIN d3 = Tables /\ Sortable(d3)
  <2>1. DOMAIN d3 = Tables
    BY <1>5 DEF Writes
  <2>2. \A type : Sortable(RecordReward(d2, q, type, ts))
    BY <1>4, RewardSortable DEF Fine
  <2>3. Sortable(indexLiquidityReward(d2, q, ts)) /\ Sortable(indexReceivedReward(d2, q, ts))
    BY <1>4, <2>2 DEF indexLiquidityReward, indexReceivedReward
  <2>4. Sortable(d3)
    BY <1>4, <2>3 DEF RewardWritten
  <2> QED  BY <2>1, <2>4
<1> HIDE DEF d3
<1>7. Sortable(d4)
  <2> DEFINE tok == TokenWrites(d3.tokens, q.block.info)
  <2>0. TokenWritten(d3, q) \in {[d3 EXCEPT !.tokens = tok], d3}
    BY DEF TokenWritten
  <2>1. Numbered(tok, Column.tokens)
    <3> DEFINE k == q.block.info.token
               n == safeBigIntToInt64(q.block.info.supply)
               up == TokenUpsert(d3.tokens, k, n)
    <3>1. Numbered(d3.tokens, "holders")
      BY <1>6, SortableTables
    <3> HIDE DEF k, n
    <3>2. Numbered(up, "holders")
      BY Zero, <3>1, TokensNumbered
    <3> HIDE DEF up
    <3>3. Numbered(IncrementTransactionCount(up, k), "holders")
      BY Zero, <3>2, TokensNumbered
    <3> QED  BY <3>3, ColumnNames DEF TokenWrites, up, k, n
  <2> HIDE DEF tok
  <2>2. Sortable([d3 EXCEPT !.tokens = tok])
    BY <1>6, <2>1, OneSortable, ColumnNames
  <2> QED  BY <1>6, <2>0, <2>2
<1> QED  BY <1>0, <1>7

\* Balances of an address, as numbers.
LEMMA BalancesSortable ==
  ASSUME NEW d, DOMAIN d = Tables, Sortable(d), NEW a, NEW info,
         IsFiniteSet(DOMAIN info), \A t \in DOMAIN info : info[t] \in Int
  PROVE  Sortable([d EXCEPT !.balances = BalanceUpsert(@, a, info)])
<1> DEFINE u == BalanceUpsert(d.balances, a, info)
           e == [d EXCEPT !.balances = u]
           K == {a} \X DOMAIN info
<1>1. /\ DOMAIN u = DOMAIN d.balances \cup K
      /\ \A k \in DOMAIN u :
           u[k] = IF k[1] = a /\ k[2] \in DOMAIN info THEN info[k[2]] ELSE d.balances[k]
  BY DEF BalanceUpsert
<1>2. IsFiniteSet(DOMAIN u)
  <2>1. IsFiniteSet({a})
    BY FS_Singleton
  <2>2. IsFiniteSet(K)
    BY <2>1, FS_Product
  <2>3. IsFiniteSet(DOMAIN d.balances)
    BY DEF Sortable
  <2>4. IsFiniteSet(DOMAIN d.balances \cup K)
    <3> DEFINE D == DOMAIN d.balances
    <3>1. IsFiniteSet(D)
      BY <2>3
    <3> HIDE DEF D, K
    <3>2. IsFiniteSet(D \cup K)
      BY <3>1, <2>2, FS_Union
    <3> QED  BY <3>2 DEF D
  <2> HIDE DEF u, K
  <2>5. DOMAIN u = DOMAIN d.balances \cup K
    BY <1>1
  <2> QED  BY <2>4, <2>5
<1>3. \A k \in DOMAIN u : u[k] \in Int
  <2> HIDE DEF u
  <2> QED  BY <1>1 DEF Sortable
<1> HIDE DEF u
<1>4. Only(d, e, {"balances"}) /\ e.balances = u
  BY DEF Only, Tables, EmptyDB
<1> HIDE DEF e
<1>5. \A n \in DOMAIN Column : e[n] = d[n]
  <2>1. DOMAIN Column \subseteq Tables \ {"balances"}
    BY DEF Column, Tables, EmptyDB
  <2> QED  BY <1>4, <2>1 DEF Only
<1>6. Sortable(e)
  BY <1>2, <1>3, <1>4, <1>5 DEF Sortable
<1> QED  BY <1>6 DEF e, u

\* What the node holds for an address are numbers.
LEMMA CappedNumbers ==
  ASSUME NEW a, NEW n
  PROVE  /\ IsFiniteSet(DOMAIN Capped(a, n))
         /\ \A t \in DOMAIN Capped(a, n) : Capped(a, n)[t] \in Int
<1> DEFINE i == AccountInfo(a, n)
<1>1. DOMAIN i \subseteq Tokens /\ \A t \in DOMAIN i : i[t] \in Nat
  BY DEF AccountInfo, Holdings
<1> HIDE DEF i
<1>2. IsFiniteSet(DOMAIN i)
  <2>1. IsFiniteSet({"znn", "qsr"})
    <3>1. {"znn", "qsr"} = {"znn"} \cup {"qsr"} /\ IsFiniteSet({"znn"})
      BY FS_Singleton
    <3> QED  BY <3>1, FS_AddElement
  <2> QED  BY <1>1, <2>1, FS_Subset DEF Tokens
<1>3. \A v \in Nat : safeBigIntToInt64(v) \in Int
  BY MaxInt64Assumption DEF safeBigIntToInt64
<1>4. Capped(a, n) = [t \in DOMAIN i |-> safeBigIntToInt64(i[t])]
  BY DEF Capped, i
<1> QED  BY <1>1, <1>2, <1>3, <1>4

\* One entry of the batch.
LEMMA ExecuteSortable ==
  ASSUME NEW d, Fine(d), Refers(d), Sortable(d), NEW q, Item(q), NEW ts \in Int, ts # Null,
         NEW n, Reading(q) => q.info = Capped(q.address, n)
  PROVE  Sortable(Execute(d, q, ts))
<1>1. CASE q.kind = "block"
  BY <1>1, ProcessSortable DEF Execute, Item
<1>2. CASE q.kind = "balance"
  <2>1. q.info = <<>> \/ q.info = Capped(q.address, n)
    BY <1>2 DEF Reading
  <2>2. IsFiniteSet(DOMAIN q.info) /\ \A t \in DOMAIN q.info : q.info[t] \in Int
    <3>1. CASE q.info = <<>>
      <4>1. DOMAIN q.info = {}
        BY <3>1
      <4> QED  BY <4>1, FS_EmptySet
    <3>2. CASE q.info = Capped(q.address, n)
      BY <3>2, CappedNumbers
    <3> QED  BY <2>1, <3>1, <3>2
  <2>3. Execute(d, q, ts) = [d EXCEPT !.balances = BalanceUpsert(@, q.address, q.info)]
    BY <1>2 DEF Execute
  <2> QED  BY <2>2, <2>3, BalancesSortable DEF Fine
<1>3. CASE q.kind = "momentum"
  <2> DEFINE u == IncrementMomentumCount(d.pillars, q.owner)
             m == MomentumInsert(d.momentums, ts, q.txs, q.producer, q.owner)
             e == [d EXCEPT !.pillars = u, !.momentums = m]
  <2>1. Execute(d, q, ts) = e
    BY <1>3 DEF Execute
  <2>2. Numbered(u, "rank")
    <3>1. [rank |-> 0].rank \in Int /\ Numbered(d.pillars, "rank")
      BY SortableTables
    <3> QED  BY <3>1, PillarsNumbered
  <2> HIDE DEF u, m
  <2>3. Only(d, e, {"pillars", "momentums"}) /\ e.pillars = u
    BY DEF Only, Fine, Tables, EmptyDB
  <2> HIDE DEF e
  <2> QED  BY <2>1, <2>2, <2>3, OnlySortable, ColumnNames
<1> QED  BY <1>1, <1>2, <1>3 DEF Item

\* A row whose sort column is a number.
RowNumber(what, r) ==
  /\ what = "pillars" => r.rank \in Int
  /\ what = "sentinels" => r.registered \in Int
  /\ what = "projects" => r.created \in Int

\* A row of a list a refresh copies.
LEMMA StoreRowSortable ==
  ASSUME NEW d, DOMAIN d = Tables, Sortable(d), NEW what \in DOMAIN After, NEW k,
         NEW r, RowNumber(what, r)
  PROVE  Sortable(StoreRow(d, what, r, k))
<1>0. what \in {"pillars", "sentinels", "projects", "assets"}
  BY DEF After
<1>1. CASE what = "pillars"
  <2> DEFINE u == PillarUpsert(d.pillars, r)
  <2>1. StoreRow(d, what, r, k) = [d EXCEPT !.pillars = u]
    BY <1>1 DEF StoreRow
  <2>2. Numbered(u, Column.pillars)
    <3>1. Numbered(d.pillars, "rank") /\ r.rank \in Int
      BY <1>1, SortableTables DEF RowNumber
    <3> QED  BY <3>1, PillarsNumbered, ColumnNames
  <2> HIDE DEF u
  <2> QED  BY <2>1, <2>2, OneSortable, ColumnNames
<1>2. CASE what = "sentinels"
  <2> DEFINE u == SentinelUpsert(d.sentinels, r.owner, r.registered, r.active)
  <2>1. StoreRow(d, what, r, k) = [d EXCEPT !.sentinels = u]
    BY <1>2 DEF StoreRow
  <2>2. Numbered(u, Column.sentinels)
    <3>1. Numbered(d.sentinels, "registered") /\ r.registered \in Int
      BY <1>2, SortableTables DEF RowNumber
    <3> QED  BY <3>1, SentinelsNumbered, ColumnNames
  <2> HIDE DEF u
  <2> QED  BY <2>1, <2>2, OneSortable, ColumnNames
<1>3. CASE what = "assets"
  <2> DEFINE u == UpsertAsset(d.assets, r.key, [c \in Flows |-> safeBigIntToInt64(r.left[c])])
  <2>1. StoreRow(d, what, r, k) = [d EXCEPT !.assets = u]
    BY <1>3 DEF StoreRow
  <2> HIDE DEF u
  <2> QED  BY <2>1, NoneSortable, ColumnNames
<1>4. CASE what = "projects"
  <2> DEFINE p == r.phases[k]
             u == ProjectUpsert(d.projects, r.id, getVotingID(r.id), r.created, r.status)
             v == ProjectPhaseUpsert(d.phases, p.id, r.id, getVotingID(p.id), p.created, p.status)
             e1 == [d EXCEPT !.projects = u]
             e2 == [d EXCEPT !.phases = v]
  <2>1. StoreRow(d, what, r, k) = IF k = 0 THEN e1 ELSE e2
    BY <1>4 DEF StoreRow
  <2>2. Numbered(u, Column.projects)
    <3>1. Numbered(d.projects, "created") /\ r.created \in Int
      BY <1>4, SortableTables DEF RowNumber
    <3> QED  BY <3>1, ProjectsNumbered, ColumnNames
  <2> HIDE DEF u, v
  <2>3. Sortable(e1)
    BY <2>2, OneSortable, ColumnNames
  <2>4. Sortable(e2)
    BY NoneSortable, ColumnNames
  <2> HIDE DEF e1, e2
  <2> QED  BY <2>1, <2>3, <2>4
<1> QED  BY <1>0, <1>1, <1>2, <1>3, <1>4

\* A page holds rows of the node's list.
LEMMA PageRows ==
  ASSUME ProcessInv, NEW what \in DOMAIN After, NEW i \in Nat, NEW f \in Frontiers
  PROVE  \A k \in DOMAIN PageOf(what, i, f) : RowNumber(what, PageOf(what, i, f)[k])
<1> DEFINE l == NodeList(what, f)
<1>1. world \in Worlds /\ f \in DOMAIN world.chain
  <2>1. /\ world \in Worlds /\ tip \in Nat /\ tip <= Len(world.chain)
        /\ Len(world.chain) \in Nat /\ DOMAIN world.chain = 1..Len(world.chain)
    BY ChainFacts DEF ProcessInv
  <2>2. f \in 1..tip
    BY DEF Frontiers
  <2> QED  BY <2>1, <2>2
<1>2. IsSequence(l) /\ \A k \in DOMAIN l : RowNumber(what, l[k])
  BY <1>1, ListsAssumption, AfterLists DEF NodeList, RowNumber
<1> HIDE DEF l
<1>3. CASE what \notin Paged
  <2>1. PageOf(what, i, f) = l
    BY <1>3 DEF PageOf, l
  <2> QED  BY <1>2, <2>1
<1>4. CASE what \in Paged
  <2> DEFINE last == (i + 1) * PageSize
             m == i * PageSize + 1
             n == IF last < Len(l) THEN last ELSE Len(l)
             S == {l[k] : k \in DOMAIN l}
  <2>1. Len(l) \in Nat /\ DOMAIN l = 1..Len(l)
    BY <1>2, SequenceDomain
  <2>2. last \in Nat /\ m \in Nat /\ m >= 1
    BY CachedDataAssumption
  <2>3. PageOf(what, i, f) = SubSeq(l, m, n)
    BY <1>4 DEF PageOf, l
  <2> HIDE DEF last, m
  <2>4. n \in Nat /\ n <= Len(l)
    BY <2>1, <2>2
  <2> HIDE DEF n
  <2>5. \A k \in m..n : l[k] \in S
    BY <2>1, <2>2, <2>4
  <2>6. \A r \in S : RowNumber(what, r)
    BY <1>2
  <2> HIDE DEF S
  <2>7. SubSeq(l, m, n) \in Seq(S)
    BY <2>2, <2>4, <2>5, SubSeqProperties
  <2> QED  BY <2>3, <2>6, <2>7, OverSet
<1> QED  BY <1>3, <1>4

-----------------------------------------------------------------------------
(* Pages: every step *)

\* A fetched list has numbers to sort by.
ListNumbers == fetched => \A i \in DOMAIN list : RowNumber(refresh, list[i])

\* The lists can be sorted, before, in and after a transaction, and momentums are
\* never taken out.
TableNumbers ==
  /\ Sortable(db) /\ DOMAIN db.momentums \subseteq 1..tip
  /\ pc = "exec" => /\ Sortable(stage) /\ DOMAIN stage.momentums \subseteq 1..tip
                    /\ DOMAIN db.momentums \subseteq DOMAIN stage.momentums

\* What a step may do to the committed momentums.
Grows == TableNumbers' /\ DOMAIN db.momentums \subseteq DOMAIN db'.momentums

\* Every step keeps the fetched list's numbers.
LEMMA ListNumbersStep == ExplorerInv /\ ListNumbers /\ [Next]_vars => ListNumbers'
<1> SUFFICES ASSUME ExplorerInv, ListNumbers, [Next]_vars PROVE ListNumbers'
  OBVIOUS
<1>1. ASSUME UNCHANGED <<fetched, refresh, list>> PROVE ListNumbers'
  BY <1>1 DEF ListNumbers
<1>2. ASSUME ~fetched' PROVE ListNumbers'
  BY <1>2 DEF ListNumbers
<1>3. ASSUME NEW f \in Frontiers, FetchList(f) PROVE ListNumbers'
  <2>1. /\ refresh # "idle" /\ refresh' = refresh /\ list' = PageOf(refresh, page, f)
    BY <1>3 DEF FetchList
  <2>2. refresh \in DOMAIN After /\ page \in Nat /\ ProcessInv
    BY <2>1 DEF ExplorerInv, RefreshInv
  <2> QED  BY <2>1, <2>2, PageRows DEF ListNumbers
<1>4. ASSUME CachedNext PROVE ListNumbers'
  <2>1. ASSUME NEW d, Cron(d) PROVE ListNumbers'
    BY <2>1, <1>1 DEF Cron, refreshVars
  <2>2. ASSUME NEW what, StartList(what) PROVE ListNumbers'
    BY <2>2, <1>2 DEF StartList
  <2>3. ASSUME NEW all, StartRefresh(all) PROVE ListNumbers'
    BY <2>2, <2>3 DEF StartRefresh
  <2>4. ASSUME FetchFails PROVE ListNumbers'
    BY <2>2, <2>4 DEF FetchFails
  <2>5. ASSUME PublishPillars PROVE ListNumbers'
    BY <2>2, <2>5 DEF PublishPillars
  <2>6. ASSUME PageDone PROVE ListNumbers'
    BY <1>2, <2>2, <2>6 DEF PageDone
  <2>7. ASSUME NEW ok, WriteRow(ok) PROVE ListNumbers'
    BY <1>1, <2>7 DEF WriteRow
  <2>8. ASSUME Restart PROVE ListNumbers'
    BY <2>2, <2>8 DEF Restart
  <2>9. ASSUME UNCHANGED refreshVars PROVE ListNumbers'
    BY <1>1, <2>9 DEF refreshVars
  <2>10. ASSUME NEW o, runVotingActivity(o) PROVE ListNumbers'
    BY <2>1, <2>10 DEF runVotingActivity
  <2>11. ASSUME NEW o, NEW counted, snapshotPillarStats(o, counted) PROVE ListNumbers'
    BY <2>1, <2>11 DEF snapshotPillarStats
  <2>12. ASSUME NEW t, runTokenHolderCounts(t) PROVE ListNumbers'
    BY <2>1, <2>12 DEF runTokenHolderCounts
  <2>13. ASSUME NEW t, snapshotTokenStats(t) PROVE ListNumbers'
    BY <2>1, <2>13 DEF snapshotTokenStats
  <2>14. ASSUME snapshotNetworkStats PROVE ListNumbers'
    BY <2>1, <2>14 DEF snapshotNetworkStats
  <2> QED  BY <1>3, <1>4, <2>3, <2>4, <2>5, <2>6, <2>7, <2>8, <2>9, <2>10, <2>11, <2>12, <2>13,
              <2>14 DEF CachedNext
<1>5. ASSUME UNCHANGED cachedVars PROVE ListNumbers'
  BY <1>1, <1>5 DEF cachedVars, refreshVars
<1> QED  BY <1>4, <1>5 DEF Next, StartWalk, ReadPage, vars

\* A step beside the transaction.
LEMMA BesideGrows ==
  ASSUME TableNumbers, UNCHANGED <<tip, processing>>,
         db' = db \/ (pc # "exec" /\ Sortable(db') /\ DOMAIN db'.momentums = DOMAIN db.momentums)
  PROVE  Grows
<1>1. pc' = pc /\ stage' = stage /\ tip' = tip
  BY DEF processing
<1> QED  BY <1>1 DEF TableNumbers, Grows

\* No transaction is open after the step.
LEMMA ClosedGrows ==
  ASSUME TableNumbers, UNCHANGED <<tip, db>>, pc' # "exec"
  PROVE  Grows
BY DEF TableNumbers, Grows

\* The frontier rises.
LEMMA NodeAdvanceGrows ==
  ASSUME ExplorerInv, TableNumbers, NodeAdvance
  PROVE  Grows
<1>1. tip' = tip + 1 /\ db' = db /\ pc' = pc /\ stage' = stage
  BY DEF NodeAdvance, processing
<1>2. tip \in Nat
  BY ChainFacts DEF ExplorerInv, ProcessInv
<1>3. 1..tip \subseteq 1..tip'
  BY <1>1, <1>2
<1> QED  BY <1>1, <1>3 DEF TableNumbers, Grows

\* One entry of the batch.
LEMMA ExecItemGrows ==
  ASSUME ExplorerInv, BalancesInv, TableNumbers, ExecItem
  PROVE  Grows
<1> DEFINE q == batch[pos + 1]
           e == Execute(stage, q, height)
<1>1. /\ pc = "exec" /\ pos < Len(batch) /\ stage' = e
      /\ UNCHANGED <<tip, db, pc>>
  BY DEF ExecItem
<1>2. /\ tip \in Nat /\ height \in 1..tip /\ IsSequence(batch) /\ pos \in 0..Len(batch)
      /\ \A k \in DOMAIN batch : Item(batch[k])
  BY <1>1, ChainFacts DEF ExplorerInv, ProcessInv
<1>3. Len(batch) \in Nat /\ pos + 1 \in DOMAIN batch
  BY <1>1, <1>2, SequenceDomain
<1>4. Item(q) /\ height # Null /\ Fine(stage) /\ Refers(stage)
  BY <1>1, <1>2, <1>3 DEF Null, ExplorerInv, TablesInv
<1>6. Reading(q) => q.info = Capped(q.address, q.asOf)
  BY <1>1, <1>3 DEF BalancesInv, ReadRight
<1>7. height \in Int /\ Sortable(stage)
  BY <1>1, <1>2 DEF TableNumbers
<1> HIDE DEF q
<1>8. Sortable(e)
  BY <1>4, <1>6, <1>7, ExecuteSortable
<1>9. DOMAIN e.momentums = IF q.kind = "momentum" THEN DOMAIN stage.momentums \cup {height}
                           ELSE DOMAIN stage.momentums
  BY <1>4, ExecuteSteps
<1> HIDE DEF e
<1> QED  BY <1>1, <1>2, <1>8, <1>9 DEF TableNumbers, Grows

\* The steps of processMomentum.
LEMMA LedgerGrows ==
  ASSUME ExplorerInv, BalancesInv, TableNumbers, LedgerNext
  PROVE  Grows
<1>1. ASSUME NEW m, ProcessMomentum(m) PROVE Grows
  <2>1. pc' = "queue" /\ UNCHANGED <<tip, db>>
    BY <1>1 DEF ProcessMomentum
  <2> QED  BY <2>1, ClosedGrows
<1>2. ASSUME NEW lookup, NEW n, FetchBlock(lookup, n) PROVE Grows
  <2>1. pc' = "queue" /\ UNCHANGED <<tip, db>>
    BY <1>2 DEF FetchBlock
  <2> QED  BY <2>1, ClosedGrows
<1>3. CASE SkipBlock
  <2>1. pc' = "queue" /\ UNCHANGED <<tip, db>>
    BY <1>3 DEF SkipBlock
  <2> QED  BY <2>1, ClosedGrows
<1>4. CASE QueueMomentum
  <2>1. stage' = db /\ UNCHANGED <<tip, db>>
    BY <1>4 DEF QueueMomentum
  <2> QED  BY <2>1 DEF TableNumbers, Grows
<1>5. CASE Rollback
  <2>1. pc' = "idle" /\ UNCHANGED <<tip, db>>
    BY <1>5 DEF Rollback, Idle
  <2> QED  BY <2>1, ClosedGrows
<1>6. CASE Commit
  <2>1. pc = "exec" /\ pc' = "idle" /\ db' = stage /\ tip' = tip
    BY <1>6 DEF Commit, Idle
  <2> QED  BY <2>1 DEF TableNumbers, Grows
<1> QED  BY <1>1, <1>2, <1>3, <1>4, <1>5, <1>6, NodeAdvanceGrows, ExecItemGrows DEF LedgerNext

\* One row of a refresh.
LEMMA WriteRowGrows ==
  ASSUME ExplorerInv, ListNumbers, TableNumbers, NEW ok \in BOOLEAN, WriteRow(ok)
  PROVE  Grows
<1> DEFINE r == list[row + 1]
<1>1. /\ pc # "exec" /\ fetched /\ row < Len(list)
      /\ db' = db \/ db' = StoreRow(db, refresh, r, sub)
      /\ UNCHANGED <<tip, processing>>
  BY DEF WriteRow
<1>2. /\ refresh \in DOMAIN After /\ IsSequence(list) /\ row \in 0..Len(list)
  BY <1>1 DEF ExplorerInv, RefreshInv
<1>3. row + 1 \in DOMAIN list
  <2>1. Len(list) \in Nat /\ DOMAIN list = 1..Len(list)
    BY <1>2, SequenceDomain
  <2> QED  BY <1>1, <1>2, <2>1
<1>4. RowNumber(refresh, r)
  BY <1>1, <1>3 DEF ListNumbers
<1>5. Fine(db) /\ Refers(db) /\ DOMAIN db = Tables /\ Sortable(db)
  BY DEF ExplorerInv, TablesInv, Fine, TableNumbers
<1> HIDE DEF r
<1>6. /\ Sortable(StoreRow(db, refresh, r, sub))
      /\ StoreRow(db, refresh, r, sub).momentums = db.momentums
  BY <1>2, <1>4, <1>5, StoreRowSortable, StoreRowSteps
<1> QED  BY <1>1, <1>6, BesideGrows

\* One statement of a job.
LEMMA CronGrows ==
  ASSUME ExplorerInv, TableNumbers
  PROVE  /\ \A u : Numbered(u, "rank") /\ Cron([db EXCEPT !.pillars = u]) => Grows
         /\ \A u : Numbered(u, "holders") /\ Cron([db EXCEPT !.tokens = u]) => Grows
         /\ \A u : Cron([db EXCEPT !.stats = u]) => Grows
<1>1. DOMAIN db = Tables /\ Sortable(db) /\ {"pillars", "tokens", "stats", "momentums"} \subseteq Tables
  BY DEF ExplorerInv, TablesInv, Fine, TableNumbers, Tables, EmptyDB
<1>2. ASSUME NEW d, Cron(d), Sortable(d), d.momentums = db.momentums PROVE Grows
  <2>1. pc # "exec" /\ db' = d /\ UNCHANGED <<tip, processing>>
    BY <1>2 DEF Cron
  <2> QED  BY <1>2, <2>1, BesideGrows
<1>3. ASSUME NEW u
      PROVE  /\ [db EXCEPT !.pillars = u].momentums = db.momentums
             /\ [db EXCEPT !.tokens = u].momentums = db.momentums
             /\ [db EXCEPT !.stats = u].momentums = db.momentums
  BY <1>1
<1>4. ASSUME NEW u, Numbered(u, "rank") PROVE Sortable([db EXCEPT !.pillars = u])
  BY <1>1, <1>4, OneSortable, ColumnNames
<1>5. ASSUME NEW u, Numbered(u, "holders") PROVE Sortable([db EXCEPT !.tokens = u])
  BY <1>1, <1>5, OneSortable, ColumnNames
<1>6. ASSUME NEW u PROVE Sortable([db EXCEPT !.stats = u])
  BY <1>1, NoneSortable, ColumnNames
<1> QED  BY <1>2, <1>3, <1>4, <1>5, <1>6

\* The cron jobs.
LEMMA JobsGrow ==
  ASSUME ExplorerInv, TableNumbers
  PROVE  /\ \A o : runVotingActivity(o) => Grows
         /\ \A t : runTokenHolderCounts(t) => Grows
         /\ snapshotNetworkStats => Grows
         /\ \A t : snapshotTokenStats(t) => Grows
         /\ \A o, counted : snapshotPillarStats(o, counted) => Grows
<1>1. /\ Numbered(db.pillars, "rank") /\ Numbered(db.tokens, "holders")
      /\ IsFiniteSet(DOMAIN db.balances)
  BY SortableTables DEF TableNumbers
<1>2. ASSUME NEW o, runVotingActivity(o) PROVE Grows
  <2> DEFINE since    == GetSpawnTimestampByOwner(db.pillars, o)
             projects == ProjectIDsCreatedAtOrAfter(db.projects, since)
             phases   == PhaseIDsCreatedAtOrAfter(db.phases, since)
             voted    == GetVoteCountForProjects(db.votes, o, projects)
                           + GetVoteCountForPhases(db.votes, o, phases)
             votable  == Cardinality(projects) + Cardinality(phases)
             u == UpdateVotingActivity(db.pillars, o, voted, votable)
  <2>1. Cron([db EXCEPT !.pillars = u])
    BY <1>2 DEF runVotingActivity
  <2> HIDE DEF voted, votable
  <2>2. Numbered(u, "rank")
    <3>1. [rank |-> 0].rank \in Int
      BY Zero
    <3> QED  BY <1>1, <3>1, PillarsNumbered
  <2> HIDE DEF u
  <2> QED  BY <2>1, <2>2, CronGrows
<1>3. ASSUME NEW t, runTokenHolderCounts(t) PROVE Grows
  <2> DEFINE n == GetHolderCount(db.balances, t)
             u == UpdateHolderCount(db.tokens, t, n)
             H == {k \in DOMAIN db.balances : k[2] = t /\ db.balances[k] > 0}
  <2>1. Cron([db EXCEPT !.tokens = u])
    BY <1>3 DEF runTokenHolderCounts
  <2>2. n \in Int
    <3>1. IsFiniteSet(H)
      BY <1>1, FS_Subset
    <3>2. n = Cardinality(H)
      BY DEF GetHolderCount
    <3> HIDE DEF H, n
    <3>3. Cardinality(H) \in Nat
      BY <3>1, FS_CardinalityType
    <3> QED  BY <3>2, <3>3
  <2> HIDE DEF n
  <2>3. Numbered(u, "holders")
    BY <1>1, <2>2, TokensNumbered
  <2> HIDE DEF u
  <2> QED  BY <2>1, <2>3, CronGrows
<1>4. snapshotNetworkStats => Grows
  BY CronGrows DEF snapshotNetworkStats
<1>5. ASSUME NEW t, snapshotTokenStats(t) PROVE Grows
  BY <1>5, CronGrows DEF snapshotTokenStats
<1>6. ASSUME NEW o, NEW counted, snapshotPillarStats(o, counted) PROVE Grows
  BY <1>6, CronGrows DEF snapshotPillarStats
<1> QED  BY <1>2, <1>3, <1>4, <1>5, <1>6

\* Every step keeps the lists sortable and drops no momentum.
LEMMA TableNumbersStep ==
  ExplorerInv /\ BalancesInv /\ ListNumbers /\ TableNumbers /\ [Next]_vars => Grows
<1> SUFFICES ASSUME ExplorerInv, BalancesInv, ListNumbers, TableNumbers, [Next]_vars PROVE Grows
  OBVIOUS
<1>1. ASSUME \/ \E all \in BOOLEAN : StartRefresh(all)
             \/ (\E n \in Frontiers : FetchList(n)) \/ FetchFails \/ PublishPillars \/ PageDone
      PROVE  Grows
  <2>1. UNCHANGED <<tip, processing>> /\ db' = db
    BY <1>1 DEF StartRefresh, FetchList, FetchFails, PublishPillars, PageDone, ledgerVars
  <2> QED  BY <2>1, BesideGrows
<1>2. ASSUME Restart PROVE Grows
  <2>1. pc' = "idle" /\ UNCHANGED <<tip, db>>
    BY <1>2 DEF Restart, Crash, Idle
  <2> QED  BY <2>1, ClosedGrows
<1>3. ASSUME CachedNext PROVE Grows
  BY <1>1, <1>2, <1>3, LedgerGrows, WriteRowGrows, JobsGrow DEF CachedNext
<1>4. ASSUME UNCHANGED cachedVars PROVE Grows
  BY <1>4, BesideGrows DEF cachedVars, ledgerVars
<1> QED  BY <1>3, <1>4 DEF Next, StartWalk, ReadPage, vars

\* Nothing is stored at first.
LEMMA NumbersInit ==
  ASSUME Init
  PROVE  ListNumbers /\ TableNumbers
<1>1. db = EmptyDB /\ pc = "idle" /\ fetched = FALSE
  BY DEF Init, CachedInit, LedgerInit
<1>2. \A t \in Tables : EmptyDB[t] = <<>>
  BY DEF EmptyDB, Tables
<1>3. DOMAIN <<>> = {} /\ IsFiniteSet({})
  BY FS_EmptySet
<1>4. Sortable(EmptyDB) /\ EmptyDB.momentums = <<>>
  <2>1. DOMAIN Column \subseteq Tables /\ EmptyDB.balances = <<>> /\ EmptyDB.momentums = <<>>
    BY DEF Column, Tables, EmptyDB
  <2>2. \A c : Numbered(<<>>, c)
    BY <1>3 DEF Numbered
  <2> QED  BY <1>2, <1>3, <2>1, <2>2 DEF Sortable
<1> QED  BY <1>1, <1>3, <1>4 DEF ListNumbers, TableNumbers

-----------------------------------------------------------------------------
(* Pages: a client that reads while momentums are stored *)

\* The rows of R listed before height h.
Ahead(R, sort, h) == {g \in R : orderClause(sort) * g < orderClause(sort) * h}

\* What the client has been shown: a momentum it is due and has not seen is not on
\* the pages it has read.  Rows stored late move the rows behind them towards later
\* pages, never towards earlier ones.
WalkInv ==
  \/ walk = NoWalk
  \/ /\ walk \in [sort : {"asc", "desc"}, page : Nat \ {0}, due : SUBSET DOMAIN db.momentums,
                  seen : SUBSET DOMAIN db.momentums, done : BOOLEAN]
     /\ walk.done => walk.due \subseteq walk.seen
     /\ \A h \in walk.due \ walk.seen :
          Cardinality(Ahead(DOMAIN db.momentums, walk.sort, h)) >= walk.page - 1

\* Ascending or descending, the order tells heights apart.
LEMMA OrderFacts ==
  ASSUME NEW sort
  PROVE  /\ \A h \in Int : orderClause(sort) * h \in Int
         /\ \A g, h \in Int : orderClause(sort) * g = orderClause(sort) * h => g = h
<1>1. orderClause(sort) = 1 \/ orderClause(sort) = -1
  BY DEF orderClause
<1> QED  BY <1>1

\* The rows before one of the heights 1..n are fewer than n.
LEMMA AheadFacts ==
  ASSUME NEW n \in Nat, NEW R \in SUBSET (1..n), NEW sort, NEW h \in R
  PROVE  /\ IsFiniteSet(Ahead(R, sort, h)) /\ Cardinality(Ahead(R, sort, h)) \in Nat
         /\ Cardinality(Ahead(R, sort, h)) < n
<1> DEFINE A == Ahead(R, sort, h)
<1>0. orderClause(sort) * h \in Int
  BY OrderFacts
<1>1. A \subseteq 1..n /\ h \notin A /\ h \in 1..n
  <2>1. A \subseteq R
    BY DEF Ahead
  <2>2. ~(orderClause(sort) * h < orderClause(sort) * h)
    BY <1>0
  <2>3. h \notin A
    BY <2>2 DEF Ahead
  <2> QED  BY <2>1, <2>3
<1>2. IsFiniteSet(1..n) /\ Cardinality(1..n) = n
  BY FS_Interval
<1> HIDE DEF A
<1>3. IsFiniteSet(A) /\ Cardinality(A) \in Nat
  BY <1>1, <1>2, FS_Subset, FS_CardinalityType
<1>4. IsFiniteSet(A \cup {h}) /\ Cardinality(A \cup {h}) = Cardinality(A) + 1
  BY <1>1, <1>3, FS_AddElement
<1>5. Cardinality(A \cup {h}) <= n
  BY <1>1, <1>2, FS_Subset
<1> QED  BY <1>3, <1>4, <1>5 DEF A

\* More rows, more of them before a given one.
LEMMA AheadGrows ==
  ASSUME NEW n \in Nat, NEW S \in SUBSET (1..n), NEW R \in SUBSET S, NEW sort, NEW h \in R
  PROVE  Cardinality(Ahead(R, sort, h)) <= Cardinality(Ahead(S, sort, h))
<1>1. Ahead(R, sort, h) \subseteq Ahead(S, sort, h)
  BY DEF Ahead
<1>2. IsFiniteSet(Ahead(S, sort, h))
  BY AheadFacts
<1> QED  BY <1>1, <1>2, FS_Subset

\* The greatest of the heights, as the list's statement finds it.
Top(R) == IF R = {} THEN 0 ELSE CHOOSE h \in R : \A g \in R : g <= h

\* A page of one momentum: the row with p - 1 rows before it.
OnePage(r, R, sort, p) ==
  /\ r.page = p /\ r.size = 1 /\ r.total = Top(R)
  /\ r.shown.must = {h \in R : Cardinality(Ahead(R, sort, h)) = p - 1}

\* What the endpoint answers to a request for one momentum.
LEMMA MomentumPage ==
  ASSUME NEW d, NEW n \in Nat, DOMAIN d.momentums \subseteq 1..n,
         NEW sort \in {"asc", "desc"}, NEW n1 \in Nat \ {0}
  PROVE  OnePage(MomentumsList(d, Request(n1, 1, sort, FALSE)), DOMAIN d.momentums, sort, n1)
<1> DEFINE R == DOMAIN d.momentums
           key == [h \in R |-> orderClause(sort) * h]
           p == [page |-> n1, size |-> 1]
           t == Top(R)
           First(x) == Cardinality({y \in R : key[y] < key[x]})
           Last(x)  == Cardinality({y \in R : key[y] <= key[x]}) - 1
<1>1. ParsePagination(Request(n1, 1, sort, FALSE)) = p
  BY PageSizeAssumption DEF ParsePagination, Request
<1>2. ParseSort(Request(n1, 1, sort, FALSE), "desc") = sort
  BY DEF ParseSort, Request
<1>3. MomentumsList(d, Request(n1, 1, sort, FALSE)) = NewPage(R, key, p, t)
  <2> HIDE DEF p
  <2>1. MomentumList(d, p, sort) = NewPage(R, key, p, t)
    BY Zenon DEF MomentumList, Top
  <2> HIDE DEF R, key, t
  <2> QED  BY <1>1, <1>2, <2>1, Zenon DEF MomentumsList
<1>4. Offset(p) = n1 - 1 /\ p.page = n1 /\ p.size = 1
  <2>1. p.page = n1 /\ p.size = 1
    OBVIOUS
  <2> HIDE DEF p
  <2>2. (n1 - 1) * 1 = n1 - 1
    OBVIOUS
  <2> QED  BY <2>1, <2>2 DEF Offset
<1>5. ASSUME NEW h \in R
      PROVE  /\ First(h) = Cardinality(Ahead(R, sort, h))
             /\ Last(h) = Cardinality(Ahead(R, sort, h))
  <2>6. R \in SUBSET (1..n)
    OBVIOUS
  <2> HIDE DEF R
  <2> DEFINE A == {y \in R : key[y] < key[h]}
  <2>1. A = Ahead(R, sort, h)
    BY DEF Ahead
  <2>0. /\ \A y \in R : key[y] \in Int
        /\ \A y \in R : key[y] = key[h] => y = h
    BY <2>6, OrderFacts
  <2>2. {y \in R : key[y] <= key[h]} = A \cup {h}
    <3> HIDE DEF key
    <3> QED  BY <2>0
  <2>3. IsFiniteSet(A) /\ Cardinality(A) \in Nat
    BY <2>1, <2>6, AheadFacts
  <2>4. h \notin A
    <3> HIDE DEF key
    <3> QED  BY <2>0
  <2> HIDE DEF A
  <2>5. Cardinality(A \cup {h}) = Cardinality(A) + 1
    BY <2>3, <2>4, FS_AddElement
  <2> DEFINE B == {y \in R : key[y] <= key[h]}
             a == Cardinality(A)
             b == Cardinality(B)
  <2>7. First(h) = a /\ Last(h) = b - 1
    BY DEF A
  <2>8. B = A \cup {h}
    BY <2>2
  <2> HIDE DEF B, First, Last
  <2>9. b = a + 1 /\ a \in Nat
    BY <2>3, <2>5, <2>8
  <2>10. Cardinality(Ahead(R, sort, h)) = a
    BY <2>1
  <2> HIDE DEF a, b
  <2> QED  BY <2>7, <2>9, <2>10
<1>6. Slice(R, key, p).must =
        {x \in R : First(x) >= Offset(p) /\ Last(x) <= Offset(p) + p.size - 1}
  BY DEF Slice
<1> HIDE DEF First, Last, key, p
<1>7. Slice(R, key, p).must = {h \in R : Cardinality(Ahead(R, sort, h)) = n1 - 1}
  <2>1. \A h \in R : Cardinality(Ahead(R, sort, h)) \in Nat
    BY AheadFacts
  <2> QED  BY <1>4, <1>5, <1>6, <2>1
<1> HIDE DEF R, t
<1>8. OnePage(NewPage(R, key, p, t), R, sort, n1)
  BY <1>4, <1>7 DEF NewPage, OnePage, t
<1> QED  BY <1>3, <1>8 DEF R

\* The greatest height stored.
LEMMA GreatestHeight ==
  ASSUME NEW n \in Nat, NEW R \in SUBSET (1..n), R # {}
  PROVE  /\ Top(R) \in R /\ \A g \in R : g <= Top(R)
         /\ {h \in R : \A g \in R : g <= h} = {Top(R)}
<1> DEFINE m == CHOOSE h \in R : \A g \in R : g <= h
<1>1. R \in SUBSET (0..n)
  OBVIOUS
<1>2. \E h \in R : \A g \in R : g <= h
  BY <1>1, Greatest
<1>3. m \in R /\ \A g \in R : g <= m
  BY <1>2
<1> HIDE DEF m
<1>4. ASSUME NEW h \in R, \A g \in R : g <= h PROVE h = m
  BY <1>3, <1>4
<1>5. {h \in R : \A g \in R : g <= h} = {m}
  BY <1>3, <1>4
<1> QED  BY <1>3, <1>5 DEF m, Top

\* Momentums are stored while the client pauses.
LEMMA WalkGrows ==
  ASSUME WalkInv, walk' = walk, NEW n \in Nat, DOMAIN db'.momentums \subseteq 1..n,
         DOMAIN db.momentums \subseteq DOMAIN db'.momentums
  PROVE  WalkInv'
<1> DEFINE R == DOMAIN db.momentums
           S == DOMAIN db'.momentums
<1>1. S \in SUBSET (1..n) /\ R \in SUBSET S /\ R \in SUBSET (1..n)
  OBVIOUS
<1>2. CASE walk = NoWalk
  BY <1>2 DEF WalkInv
<1>3. CASE walk # NoWalk
  <2>1. /\ walk \in [sort : {"asc", "desc"}, page : Nat \ {0}, due : SUBSET R, seen : SUBSET R,
                     done : BOOLEAN]
        /\ walk.done => walk.due \subseteq walk.seen
        /\ \A h \in walk.due \ walk.seen :
             Cardinality(Ahead(R, walk.sort, h)) >= walk.page - 1
    BY <1>3 DEF WalkInv
  <2> HIDE DEF R, S
  <2>2. walk \in [sort : {"asc", "desc"}, page : Nat \ {0}, due : SUBSET S, seen : SUBSET S,
                  done : BOOLEAN]
    BY <1>1, <2>1
  <2>3. ASSUME NEW h \in walk.due \ walk.seen
        PROVE  Cardinality(Ahead(S, walk.sort, h)) >= walk.page - 1
    <3> DEFINE a == Cardinality(Ahead(R, walk.sort, h))
               b == Cardinality(Ahead(S, walk.sort, h))
    <3>1. h \in R /\ h \in S
      BY <1>1, <2>1
    <3>2. a \in Nat /\ b \in Nat
      BY <1>1, <3>1, AheadFacts
    <3>3. a <= b
      BY <1>1, <3>1, AheadGrows
    <3>4. a >= walk.page - 1 /\ walk.page \in Nat
      BY <2>1
    <3> HIDE DEF a, b
    <3>5. b >= walk.page - 1
      BY <3>2, <3>3, <3>4
    <3> QED  BY <3>5 DEF b
  <2> QED  BY <2>1, <2>2, <2>3 DEF WalkInv, S
<1> QED  BY <1>2, <1>3

\* Everything stored is due, nothing has been seen.
LEMMA StartWalkKeeps ==
  ASSUME NEW n \in Nat, DOMAIN db.momentums \subseteq 1..n, NEW sort \in {"asc", "desc"},
         StartWalk(sort)
  PROVE  WalkInv'
<1> DEFINE R == DOMAIN db.momentums
<1>1. /\ walk' = [sort |-> sort, page |-> 1, due |-> R, seen |-> {}, done |-> FALSE]
      /\ db' = db
  BY DEF StartWalk, NoWalk, cachedVars, ledgerVars
<1>2. \A h \in R : Cardinality(Ahead(R, sort, h)) \in Nat
  BY AheadFacts
<1>3. /\ walk' \in [sort : {"asc", "desc"}, page : Nat \ {0}, due : SUBSET R, seen : SUBSET R,
                    done : BOOLEAN]
      /\ walk'.done = FALSE /\ walk'.due = R /\ walk'.page = 1 /\ walk'.sort = sort
  BY <1>1
<1>4. \A h \in R : Cardinality(Ahead(R, sort, h)) >= 1 - 1
  <2> HIDE DEF R
  <2> QED  BY <1>2
<1> QED  BY <1>1, <1>3, <1>4 DEF WalkInv

\* One page is read.
LEMMA ReadPageKeeps ==
  ASSUME WalkInv, NEW n \in Nat, DOMAIN db.momentums \subseteq 1..n, ReadPage
  PROVE  WalkInv'
<1> DEFINE R == DOMAIN db.momentums
           r == MomentumsList(db, Request(walk.page, 1, walk.sort, FALSE))
           W == [sort : {"asc", "desc"}, page : Nat \ {0}, due : SUBSET R, seen : SUBSET R,
                 done : BOOLEAN]
           Pos(h) == Cardinality(Ahead(R, walk.sort, h))
           must == r.shown.must
           total == r.total
           over == r.page * r.size >= total
<1>1. /\ walk.page > 0 /\ ~walk.done /\ db' = db
      /\ walk' = [walk EXCEPT !.page = @ + 1, !.seen = @ \cup must, !.done = over]
  <2>1. db' = db
    BY DEF ReadPage, cachedVars, ledgerVars
  <2> QED  BY <2>1, Zenon DEF ReadPage
<1>2. walk # NoWalk
  <2>1. ~(NoWalk.page > 0)
    BY DEF NoWalk
  <2> QED  BY <1>1, <2>1
<1>3. /\ walk \in W
      /\ \A h \in walk.due \ walk.seen : Pos(h) >= walk.page - 1
  BY <1>2 DEF WalkInv
<1>4. walk.sort \in {"asc", "desc"} /\ walk.page \in Nat \ {0} /\ walk.due \subseteq R
  BY <1>3
<1>5. /\ r.page = walk.page /\ r.size = 1
      /\ total = Top(R)
      /\ must = {h \in R : Pos(h) = walk.page - 1}
  <2>1. OnePage(r, R, walk.sort, walk.page)
    BY <1>4, MomentumPage
  <2> HIDE DEF r
  <2> QED  BY <2>1 DEF OnePage
<1>6. R \in SUBSET (1..n)
  OBVIOUS
<1>7. \A h \in R : Pos(h) \in Nat
  BY <1>6, AheadFacts
<1>8. over <=> walk.page >= total
  <2>1. walk.page * 1 = walk.page
    BY <1>4
  <2> QED  BY <1>5, <2>1
<1>9. must \subseteq R
  BY <1>5
<1> HIDE DEF must, total, r, over
<1>10. R # {} => total \in R /\ \A g \in R : g <= total
  <2> HIDE DEF R
  <2> QED  BY <1>5, <1>6, GreatestHeight
<1>11. \A h \in R : total \in Nat /\ Pos(h) < total
  <2> SUFFICES ASSUME NEW h \in R PROVE total \in Nat /\ Pos(h) < total
    OBVIOUS
  <2>1. total \in 1..n /\ \A g \in R : g <= total
    BY <1>6, <1>10
  <2>2. total \in Nat /\ R \in SUBSET (1..total)
    <3> HIDE DEF R
    <3> QED  BY <1>6, <2>1
  <2> HIDE DEF R
  <2> QED  BY <2>2, AheadFacts
<1> HIDE DEF R, Pos
<1>12. /\ walk' \in W /\ walk'.page = walk.page + 1 /\ walk'.seen = walk.seen \cup must
       /\ walk'.due = walk.due /\ walk'.sort = walk.sort /\ walk'.done = over
  <2>1. over \in BOOLEAN
    BY DEF over
  <2>2. walk.seen \cup must \in SUBSET R /\ walk.page + 1 \in Nat \ {0}
    BY <1>3, <1>4, <1>9
  <2> QED  BY <1>1, <1>3, <2>1, <2>2
<1>13. \A h \in walk'.due \ walk'.seen : Pos(h) >= walk.page
  <2>1. ASSUME NEW h \in walk'.due \ walk'.seen PROVE Pos(h) >= walk.page
    <3>1. h \in walk.due \ walk.seen /\ h \in R /\ h \notin must
      BY <1>4, <1>12
    <3>2. Pos(h) >= walk.page - 1 /\ Pos(h) # walk.page - 1 /\ Pos(h) \in Nat
      BY <1>3, <1>5, <1>7, <3>1
    <3> QED  BY <1>4, <3>2
  <2> QED  BY <2>1
<1>14. walk'.done => walk'.due \subseteq walk'.seen
  <2>1. ASSUME walk'.done, NEW h \in walk'.due \ walk'.seen PROVE FALSE
    <3>1. h \in R /\ walk.page >= total
      BY <1>4, <1>8, <1>12, <2>1
    <3>2. Pos(h) >= walk.page /\ Pos(h) < total /\ total \in Nat /\ Pos(h) \in Nat
      BY <1>7, <1>11, <1>13, <2>1, <3>1
    <3> QED  BY <1>4, <3>1, <3>2
  <2> QED  BY <2>1
<1>15. \A h \in walk'.due \ walk'.seen : Pos(h) >= walk'.page - 1
  <2>1. walk'.page - 1 = walk.page
    BY <1>4, <1>12
  <2> QED  BY <1>13, <2>1
<1> QED  BY <1>1, <1>12, <1>14, <1>15 DEF WalkInv, R, Pos

\* Every step keeps WalkInv.
LEMMA WalkStep ==
  ASSUME ExplorerInv, ExplorerInv', TableNumbers, Grows, WalkInv, [Next]_vars
  PROVE  WalkInv'
<1>1. /\ tip \in Nat /\ DOMAIN db.momentums \subseteq 1..tip
      /\ tip' \in Nat /\ DOMAIN db'.momentums \subseteq 1..tip'
      /\ DOMAIN db.momentums \subseteq DOMAIN db'.momentums
  <2>1. tip \in 1..Len(world.chain) /\ world \in Worlds
    BY DEF ExplorerInv, ProcessInv
  <2>2. tip' \in 1..Len(world'.chain) /\ world' \in Worlds
    BY DEF ExplorerInv, ProcessInv
  <2> QED  BY <2>1, <2>2 DEF TableNumbers, Grows
<1>2. ASSUME walk' = walk PROVE WalkInv'
  BY <1>1, <1>2, WalkGrows
<1>3. ASSUME NEW sort \in {"asc", "desc"}, StartWalk(sort) PROVE WalkInv'
  BY <1>1, <1>3, StartWalkKeeps
<1>4. ASSUME ReadPage PROVE WalkInv'
  BY <1>1, <1>4, ReadPageKeeps
<1> QED  BY <1>2, <1>3, <1>4 DEF Next, vars

-----------------------------------------------------------------------------
(* Pages: totals *)

\* The pagination of a request that was parsed.
Paging(p) == Offset(p) \in Nat /\ p.size \in Nat \ {0}

\* A list that is not empty has a row that no other comes before.
LEMMA FirstRow ==
  ASSUME NEW rows, IsFiniteSet(rows), rows # {}, NEW key, \A x \in rows : key[x] \in Int
  PROVE  \E x \in rows : {y \in rows : key[y] < key[x]} = {}
<1> DEFINE Before(x) == {y \in rows : key[y] < key[x]}
           N(x) == Cardinality(Before(x))
           S == {N(x) : x \in rows}
<1>1. \A x \in rows : IsFiniteSet(Before(x)) /\ N(x) \in Nat
  BY FS_Subset, FS_CardinalityType
<1>2. S \in SUBSET Nat /\ S # {}
  <2> HIDE DEF N
  <2> QED  BY <1>1
<1>3. PICK m \in S : \A k \in S : m <= k
  BY <1>2, Least
<1>4. PICK x \in rows : N(x) = m
  BY <1>3
<1>5. ASSUME NEW y \in Before(x) PROVE FALSE
  <2>1. y \in rows /\ key[y] < key[x] /\ key[x] \in Int /\ key[y] \in Int
    OBVIOUS
  <2>2. Before(y) \subseteq Before(x) /\ y \notin Before(y) /\ y \in Before(x)
    BY <2>1
  <2> HIDE DEF Before
  <2>3. N(y) <= N(x) /\ (N(x) = N(y) => Before(x) = Before(y))
    BY <1>1, <2>1, <2>2, FS_Subset
  <2>4. N(y) \in S /\ N(y) \in Nat /\ N(x) \in Nat
    BY <1>1, <2>1
  <2>5. N(x) <= N(y)
    BY <1>3, <1>4, <2>4
  <2> HIDE DEF N
  <2>6. N(x) = N(y)
    BY <2>3, <2>4, <2>5
  <2> QED  BY <2>2, <2>3, <2>6
<1> QED  BY <1>5

\* COUNT(*) OVER () and the count of the empty page say the same.
LEMMA CountedExact ==
  ASSUME NEW rows, IsFiniteSet(rows), NEW key, \A x \in rows : key[x] \in Int,
         NEW p, Paging(p)
  PROVE  Exact(Counted(rows, key, p, rows))
<1> DEFINE may == Slice(rows, key, p).may
           total == IF may # {} THEN Cardinality(rows)
                    ELSE IF Offset(p) > 0 THEN fallbackCount(rows) ELSE 0
<1>1. Counted(rows, key, p, rows) = NewPage(rows, key, p, total)
  BY DEF Counted
<1>2. /\ Counted(rows, key, p, rows).rows = rows
      /\ Counted(rows, key, p, rows).total = total
  <2> HIDE DEF total
  <2> QED  BY <1>1 DEF NewPage
<1>3. ASSUME rows # {}, ~(Offset(p) > 0) PROVE may # {}
  <2>1. PICK x \in rows : {y \in rows : key[y] < key[x]} = {}
    BY <1>3, FirstRow
  <2> DEFINE B == {y \in rows : key[y] < key[x]}
             L == {y \in rows : key[y] <= key[x]}
  <2>2. x \in may <=> /\ Cardinality(B) <= Offset(p) + p.size - 1
                      /\ Cardinality(L) - 1 >= Offset(p)
    BY DEF Slice
  <2>3. Cardinality(B) = 0
    BY <2>1, FS_EmptySet
  <2>4. Cardinality(L) \in Nat /\ Cardinality(L) # 0
    <3>1. x \in L
      BY <2>1
    <3>2. IsFiniteSet(L)
      BY FS_Subset
    <3> HIDE DEF L
    <3> QED  BY <3>1, <3>2, FS_CardinalityType, FS_EmptySet
  <2>5. Offset(p) = 0 /\ p.size \in Nat \ {0}
    BY <1>3 DEF Paging
  <2> HIDE DEF B, L, may
  <2>6. Cardinality(B) <= Offset(p) + p.size - 1 /\ Cardinality(L) - 1 >= Offset(p)
    BY <2>3, <2>4, <2>5
  <2>7. x \in may
    BY <2>2, <2>6
  <2> QED  BY <2>7
<1>4. total = Cardinality(rows)
  <2>1. rows = {} => Cardinality(rows) = 0
    BY FS_EmptySet
  <2> HIDE DEF may
  <2> QED  BY <1>3, <2>1 DEF fallbackCount
<1> HIDE DEF total
<1> QED  BY <1>2, <1>4 DEF Exact

\* A list of rows sorted by one of their columns.
LEMMA ListExact ==
  ASSUME NEW t, NEW c, Numbered(t, c), NEW rows \in SUBSET DOMAIN t, NEW p, Paging(p)
  PROVE  /\ Exact(Counted(rows, [x \in rows |-> t[x][c]], p, rows))
         /\ Exact(Counted(rows, [x \in rows |-> -t[x][c]], p, rows))
<1> DEFINE up == [x \in rows |-> t[x][c]]
           down == [x \in rows |-> -t[x][c]]
<1>1. IsFiniteSet(rows)
  BY FS_Subset DEF Numbered
<1>2. (\A x \in rows : up[x] \in Int) /\ (\A x \in rows : down[x] \in Int)
  BY DEF Numbered
<1> HIDE DEF up, down
<1>3. Exact(Counted(rows, up, p, rows)) /\ Exact(Counted(rows, down, p, rows))
  BY <1>1, <1>2, CountedExact
<1> QED  BY <1>3 DEF up, down

\* The lists over one table.
LEMMA PlainLists ==
  ASSUME NEW d, Sortable(d), NEW p, Paging(p), NEW b \in BOOLEAN, NEW a
  PROVE  /\ Exact(TokenList(d, p)) /\ Exact(PillarList(d, b, p)) /\ Exact(SentinelList(d, b, p))
         /\ Exact(ProjectList(d, p)) /\ Exact(StakeList(d, b, p)) /\ Exact(FusionList(d, b, p))
         /\ Exact(HtlcList(d, p)) /\ Exact(ListRetrievals(d, p))
         /\ Exact(StakeListByAddress(d, a, b, p)) /\ Exact(FusionListByAddress(d, a, b, p))
         /\ Exact(HistoryByAddress(d, a, p)) /\ Exact(ListDelegators(d, a, p))
         /\ Exact(VoteListByProject(d, a, p))
<1>0. /\ Numbered(d.tokens, "holders") /\ Numbered(d.pillars, "rank")
      /\ Numbered(d.sentinels, "registered") /\ Numbered(d.projects, "created")
      /\ Numbered(d.stakes, "started") /\ Numbered(d.fusions, "height")
      /\ Numbered(d.htlcs, "created") /\ Numbered(d.retrievals, "height")
      /\ Numbered(d.accounts, "since") /\ Numbered(d.rewards, "height")
      /\ Numbered(d.votes, "height")
  BY SortableTables
<1>1. Exact(TokenList(d, p))
  <2> DEFINE rows == DOMAIN d.tokens
  <2>1. TokenList(d, p) = Counted(rows, [x \in rows |-> -d.tokens[x].holders], p, rows)
    BY DEF TokenList, Desc
  <2>2. Exact(Counted(rows, [x \in rows |-> -d.tokens[x]["holders"]], p, rows))
    BY <1>0, ListExact
  <2> QED  BY <2>1, <2>2
<1>2. Exact(PillarList(d, b, p))
  <2> DEFINE rows == {x \in DOMAIN d.pillars : b \/ ~d.pillars[x].revoked}
  <2>1. PillarList(d, b, p) = Counted(rows, [x \in rows |-> d.pillars[x].rank], p, rows)
    BY DEF PillarList, Asc
  <2>2. Exact(Counted(rows, [x \in rows |-> d.pillars[x]["rank"]], p, rows))
    BY <1>0, ListExact
  <2> QED  BY <2>1, <2>2
<1>3. Exact(SentinelList(d, b, p))
  <2> DEFINE rows == {x \in DOMAIN d.sentinels : b => d.sentinels[x].active}
  <2>1. SentinelList(d, b, p) = Counted(rows, [x \in rows |-> -d.sentinels[x].registered], p, rows)
    BY DEF SentinelList, Desc
  <2>2. Exact(Counted(rows, [x \in rows |-> -d.sentinels[x]["registered"]], p, rows))
    BY <1>0, ListExact
  <2> QED  BY <2>1, <2>2
<1>4. Exact(ProjectList(d, p))
  <2> DEFINE rows == DOMAIN d.projects
  <2>1. ProjectList(d, p) = Counted(rows, [x \in rows |-> -d.projects[x].created], p, rows)
    BY DEF ProjectList, Desc
  <2>2. Exact(Counted(rows, [x \in rows |-> -d.projects[x]["created"]], p, rows))
    BY <1>0, ListExact
  <2> QED  BY <2>1, <2>2
<1>5. Exact(StakeList(d, b, p))
  <2> DEFINE rows == {x \in DOMAIN d.stakes : b => d.stakes[x].active}
  <2>1. StakeList(d, b, p) = Counted(rows, [x \in rows |-> -d.stakes[x].started], p, rows)
    BY DEF StakeList, Desc
  <2>2. Exact(Counted(rows, [x \in rows |-> -d.stakes[x]["started"]], p, rows))
    BY <1>0, ListExact
  <2> QED  BY <2>1, <2>2
<1>6. Exact(FusionList(d, b, p))
  <2> DEFINE rows == {x \in DOMAIN d.fusions : b => d.fusions[x].active}
  <2>1. FusionList(d, b, p) = Counted(rows, [x \in rows |-> -d.fusions[x].height], p, rows)
    BY DEF FusionList, Desc
  <2>2. Exact(Counted(rows, [x \in rows |-> -d.fusions[x]["height"]], p, rows))
    BY <1>0, ListExact
  <2> QED  BY <2>1, <2>2
<1>7. Exact(HtlcList(d, p))
  <2> DEFINE rows == DOMAIN d.htlcs
  <2>1. HtlcList(d, p) = Counted(rows, [x \in rows |-> -d.htlcs[x].created], p, rows)
    BY DEF HtlcList, Desc
  <2>2. Exact(Counted(rows, [x \in rows |-> -d.htlcs[x]["created"]], p, rows))
    BY <1>0, ListExact
  <2> QED  BY <2>1, <2>2
<1>8. Exact(ListRetrievals(d, p))
  <2> DEFINE rows == DOMAIN d.retrievals
  <2>1. ListRetrievals(d, p) = Counted(rows, [x \in rows |-> -d.retrievals[x].height], p, rows)
    BY DEF ListRetrievals, Desc
  <2>2. Exact(Counted(rows, [x \in rows |-> -d.retrievals[x]["height"]], p, rows))
    BY <1>0, ListExact
  <2> QED  BY <2>1, <2>2
<1>9. Exact(StakeListByAddress(d, a, b, p))
  <2> DEFINE rows == {x \in DOMAIN d.stakes : d.stakes[x].address = a /\ (b => d.stakes[x].active)}
  <2>1. StakeListByAddress(d, a, b, p) = Counted(rows, [x \in rows |-> -d.stakes[x].started], p, rows)
    BY DEF StakeListByAddress, Desc
  <2>2. Exact(Counted(rows, [x \in rows |-> -d.stakes[x]["started"]], p, rows))
    BY <1>0, ListExact
  <2> QED  BY <2>1, <2>2
<1>10. Exact(FusionListByAddress(d, a, b, p))
  <2> DEFINE rows == {x \in DOMAIN d.fusions :
                       /\ d.fusions[x].address = a \/ d.fusions[x].beneficiary = a
                       /\ b => d.fusions[x].active}
  <2>1. FusionListByAddress(d, a, b, p) = Counted(rows, [x \in rows |-> -d.fusions[x].height], p, rows)
    BY DEF FusionListByAddress, Desc
  <2>2. Exact(Counted(rows, [x \in rows |-> -d.fusions[x]["height"]], p, rows))
    BY <1>0, ListExact
  <2> QED  BY <2>1, <2>2
<1>11. Exact(HistoryByAddress(d, a, p))
  <2> DEFINE rows == {x \in DOMAIN d.rewards : d.rewards[x].address = a}
  <2>1. HistoryByAddress(d, a, p) = Counted(rows, [x \in rows |-> -d.rewards[x].height], p, rows)
    BY DEF HistoryByAddress, Desc
  <2>2. Exact(Counted(rows, [x \in rows |-> -d.rewards[x]["height"]], p, rows))
    BY <1>0, ListExact
  <2> QED  BY <2>1, <2>2
<1>12. Exact(ListDelegators(d, a, p))
  <2> DEFINE rows == {x \in DOMAIN d.accounts : d.accounts[x].delegate = a}
  <2>1. ListDelegators(d, a, p) = Counted(rows, [x \in rows |-> d.accounts[x].since], p, rows)
    BY DEF ListDelegators, Asc
  <2>2. Exact(Counted(rows, [x \in rows |-> d.accounts[x]["since"]], p, rows))
    BY <1>0, ListExact
  <2> QED  BY <2>1, <2>2
<1>13. Exact(VoteListByProject(d, a, p))
  <2> DEFINE rows == {x \in DOMAIN d.votes : d.votes[x].project = a}
  <2>1. VoteListByProject(d, a, p) = Counted(rows, [x \in rows |-> -d.votes[x].height], p, rows)
    BY DEF VoteListByProject, Desc
  <2>2. Exact(Counted(rows, [x \in rows |-> -d.votes[x]["height"]], p, rows))
    BY <1>0, ListExact
  <2> QED  BY <2>1, <2>2
<1> QED  BY <1>1, <1>2, <1>3, <1>4, <1>5, <1>6, <1>7, <1>8, <1>9, <1>10, <1>11, <1>12, <1>13

\* The lists sorted by a number that is no column: holders and momentums.
LEMMA OtherLists ==
  ASSUME NEW d, Sortable(d), NEW n \in Nat, DOMAIN d.momentums \subseteq 1..n,
         NEW p, Paging(p), NEW a
  PROVE  /\ Exact(BalanceListByToken(d, a, p))
         /\ Exact(MomentumListByProducer(d, a, p, "desc"))
<1>1. Exact(BalanceListByToken(d, a, p))
  <2> DEFINE rows == {k \in DOMAIN d.balances : k[2] = a /\ d.balances[k] > 0}
             key == [k \in rows |-> -d.balances[k]]
  <2>1. IsFiniteSet(rows)
    BY FS_Subset DEF Sortable
  <2>2. \A k \in rows : key[k] \in Int
    BY DEF Sortable
  <2>3. BalanceListByToken(d, a, p) = Counted(rows, key, p, rows)
    BY DEF BalanceListByToken, Desc
  <2> HIDE DEF rows, key
  <2> QED  BY <2>1, <2>2, <2>3, CountedExact
<1>2. Exact(MomentumListByProducer(d, a, p, "desc"))
  <2> DEFINE rows == {h \in DOMAIN d.momentums : d.momentums[h].producer = a}
             key == [h \in rows |-> orderClause("desc") * h]
  <2>1. IsFiniteSet(rows)
    <3>1. IsFiniteSet(1..n)
      BY FS_Interval
    <3>2. rows \subseteq 1..n
      OBVIOUS
    <3> QED  BY <3>1, <3>2, FS_Subset
  <2>2. \A k \in rows : key[k] \in Int
    <3>1. rows \subseteq Int
      OBVIOUS
    <3> HIDE DEF rows
    <3> QED  BY <3>1, OrderFacts
  <2>3. MomentumListByProducer(d, a, p, "desc") = Counted(rows, key, p, rows)
    BY DEF MomentumListByProducer
  <2> HIDE DEF rows, key
  <2> QED  BY <2>1, <2>2, <2>3, CountedExact
<1> QED  BY <1>1, <1>2

\* Every total of a request for pages of one row.
LEMMA RequestExact ==
  ASSUME NEW d, Sortable(d), NEW n \in Nat, DOMAIN d.momentums \subseteq 1..n,
         NEW m \in Nat \ {0}, NEW all \in BOOLEAN
  PROVE  TotalsExact(d, Request(m, 1, "", all))
<1> DEFINE req == Request(m, 1, "", all)
           p == ParsePagination(req)
<1>1. req.all = all /\ (~req.all) \in BOOLEAN /\ req.all \in BOOLEAN
  <2>1. req.all = all
    BY DEF Request
  <2> HIDE DEF req
  <2> QED  BY <2>1, Zenon
<1>2. Paging(p)
  <2>1. p = [page |-> m, size |-> 1]
    BY PageSizeAssumption DEF ParsePagination, Request
  <2> HIDE DEF p
  <2>2. p.page = m /\ p.size = 1
    BY <2>1
  <2>3. (m - 1) * 1 = m - 1 /\ m - 1 \in Nat
    OBVIOUS
  <2> QED  BY <2>2, <2>3 DEF Paging, Offset
<1> HIDE DEF req, p
<1>3. \A a : \A b \in BOOLEAN :
        /\ Exact(TokenList(d, p)) /\ Exact(PillarList(d, b, p)) /\ Exact(SentinelList(d, b, p))
        /\ Exact(ProjectList(d, p)) /\ Exact(StakeList(d, b, p)) /\ Exact(FusionList(d, b, p))
        /\ Exact(HtlcList(d, p)) /\ Exact(ListRetrievals(d, p))
        /\ Exact(StakeListByAddress(d, a, b, p)) /\ Exact(FusionListByAddress(d, a, b, p))
        /\ Exact(HistoryByAddress(d, a, p)) /\ Exact(ListDelegators(d, a, p))
        /\ Exact(VoteListByProject(d, a, p))
  BY <1>2, PlainLists
<1>4. \A a : /\ Exact(BalanceListByToken(d, a, p))
            /\ Exact(MomentumListByProducer(d, a, p, "desc"))
  BY <1>2, OtherLists
<1>5. /\ Exact(TokensList(d, req)) /\ Exact(PillarsList(d, req)) /\ Exact(SentinelsList(d, req))
      /\ Exact(ProjectsList(d, req)) /\ Exact(StakesList(d, req)) /\ Exact(FusionsList(d, req))
      /\ Exact(HtlcList(d, ParsePagination(req))) /\ Exact(ListRetrievals(d, ParsePagination(req)))
  BY <1>1, <1>3 DEF TokensList, PillarsList, SentinelsList, ProjectsList, StakesList, FusionsList, p
<1>6. \A a : /\ Exact(StakesByAddress(d, a, req)) /\ Exact(FusionsByAddress(d, a, req))
            /\ Exact(RewardsHistory(d, a, req))
  BY <1>1, <1>3 DEF StakesByAddress, FusionsByAddress, RewardsHistory, p
<1>7. \A a : /\ Exact(MomentumListByProducer(d, a, ParsePagination(req), "desc"))
            /\ Exact(TokensHolders(d, a, req)) /\ Exact(ProjectsVotes(d, a, req))
  BY <1>1, <1>3, <1>4 DEF TokensHolders, ProjectsVotes, p
<1>8. ASSUME NEW o \in DOMAIN d.pillars
      PROVE  Exact(PillarsDelegators(d, d.pillars[o].name, req).body)
  <2> DEFINE name == d.pillars[o].name
             owner == CHOOSE x \in GetByName(d, name) : TRUE
             body == ListDelegators(d, owner, p)
  <2>1. GetByName(d, name) # {}
    BY DEF GetByName
  <2>2. PillarsGetByName(d, name) # NotFound
    BY <2>1 DEF PillarsGetByName, NotFound, OK
  <2>3. PillarsDelegators(d, name, req) = OK(body)
    BY <2>2 DEF PillarsDelegators, p
  <2>4. Exact(body)
    BY <1>1, <1>3
  <2> HIDE DEF name, body
  <2>5. OK(body).body = body
    BY DEF OK
  <2> QED  BY <2>3, <2>4, <2>5 DEF name
<1>9. TotalsExact(d, req)
  BY <1>5, <1>6, <1>7, <1>8 DEF TotalsExact
<1> QED  BY <1>9 DEF req

\* The status and the latest momentum go by the same height as the list's total.
LEMMA LatestAgree ==
  ASSUME NEW d, NEW n \in Nat, DOMAIN d.momentums \subseteq 1..n
  PROVE  LET total == MomentumsList(d, Request(0, 0, "", FALSE)).total
         IN Status(d).body.latest = total /\ (total > 0 => MomentumsLatest(d).body = {total})
<1> DEFINE R == DOMAIN d.momentums
           total == MomentumsList(d, Request(0, 0, "", FALSE)).total
           L == GetLatest(d)
<1>1. total = Top(R)
  BY DEF MomentumsList, MomentumList, NewPage, Top
<1>2. R \in SUBSET (1..n)
  OBVIOUS
<1>3. L = {h \in R : \A g \in R : g <= h}
  BY DEF GetLatest
<1> HIDE DEF total, L
<1>4. R = {} => L = {} /\ Top(R) = 0
  BY <1>3 DEF Top
<1>5. R # {} => L = {Top(R)}
  <2> HIDE DEF R
  <2> QED  BY <1>2, <1>3, GreatestHeight
<1>6. Status(d).body.latest = IF L = {} THEN 0 ELSE CHOOSE h \in L : TRUE
  BY DEF Status, OK, L
<1>7. MomentumsLatest(d) = IF L = {} THEN NotFound ELSE [status |-> 200, body |-> L]
  BY DEF MomentumsLatest, OK, L
<1> HIDE DEF R
<1>8. Status(d).body.latest = total
  BY <1>1, <1>4, <1>5, <1>6
<1>9. total > 0 => MomentumsLatest(d).body = {total}
  <2> SUFFICES ASSUME total > 0 PROVE MomentumsLatest(d).body = {total}
    OBVIOUS
  <2>1. R # {}
    BY <1>1, <1>4
  <2> QED  BY <1>1, <1>5, <1>7, <2>1
<1> QED  BY <1>8, <1>9 DEF total

\* The inductive invariant of the tables, the balances, the columns and the client.
PagesInv == ExplorerInv /\ BalancesInv /\ ListNumbers /\ TableNumbers /\ WalkInv

\* It holds in every reachable state.
THEOREM PagesReachable == Spec => []PagesInv
<1>1. Init => PagesInv
  <2> SUFFICES ASSUME Init PROVE PagesInv
    OBVIOUS
  <2>1. ExplorerInv /\ ListNumbers /\ TableNumbers
    BY InitInv, NumbersInit
  <2>2. BalancesInv
    BY DEF Init, CachedInit, LedgerInit, BalancesInv, JournalShown, IsSequence
  <2>3. WalkInv
    BY DEF Init, WalkInv
  <2> QED  BY <2>1, <2>2, <2>3 DEF PagesInv
<1>2. PagesInv /\ [Next]_vars => PagesInv'
  <2> SUFFICES ASSUME ExplorerInv, BalancesInv, ListNumbers, TableNumbers, WalkInv, [Next]_vars
               PROVE  PagesInv'
    BY DEF PagesInv
  <2>1. ExplorerInv'
    BY NextKeeps DEF Kept
  <2>2. BalancesInv'
    BY BalancesStep
  <2>3. ListNumbers'
    BY ListNumbersStep
  <2>4. Grows
    BY TableNumbersStep
  <2>5. WalkInv'
    BY <2>1, <2>4, WalkStep
  <2> QED  BY <2>1, <2>2, <2>3, <2>4, <2>5 DEF Grows, PagesInv
<1> QED  BY <1>1, <1>2, PTL DEF Spec

\* A client that pages through the momentums while they are being stored, late ones
\* too, misses none that was there when it began; and no list reports a total other
\* than the number of its rows.
THEOREM PagesAreComplete == Spec => []PagesComplete
<1>1. ASSUME PagesInv PROVE PagesComplete
  <2>1. tip \in Nat /\ Sortable(db) /\ DOMAIN db.momentums \subseteq 1..tip
    BY <1>1, ChainFacts DEF PagesInv, ExplorerInv, ProcessInv, TableNumbers
  <2>2. LET total == MomentumsList(db, Request(0, 0, "", FALSE)).total
        IN Status(db).body.latest = total /\ (total > 0 => MomentumsLatest(db).body = {total})
    BY <2>1, LatestAgree
  <2>3. walk.done => walk.due \subseteq walk.seen
    <3>1. ~NoWalk.done
      BY DEF NoWalk
    <3> QED  BY <1>1, <3>1 DEF PagesInv, WalkInv
  <2>4. \A n \in 1..2 : \A all \in BOOLEAN : TotalsExact(db, Request(n, 1, "", all))
    <3>1. \A n \in 1..2 : n \in Nat \ {0}
      OBVIOUS
    <3> QED  BY <2>1, <3>1, RequestExact
  <2> QED  BY <2>2, <2>3, <2>4 DEF PagesComplete
<1> QED  BY <1>1, PagesReachable, PTL

-----------------------------------------------------------------------------
(* The voting report *)

\* The pillars of the tables are told apart by name and, while active, by producer,
\* as they are on the chain (docs/schema/pillars.md); no owner is the empty address.
PillarsDistinct(d) ==
  /\ "" \notin DOMAIN d.pillars
  /\ \A o, p \in DOMAIN d.pillars : d.pillars[o].name = d.pillars[p].name => o = p
  /\ \A o, p \in ActivePillars(d) : d.pillars[o].producer = d.pillars[p].producer => o = p

\* The owner a producer had at the vote's height, or "".
HistoricOwner(d, k) == GetInfoAtHeightByProducer(d.updates, k[1], d.votes[k].height)

\* Who a vote is counted for is who has it in his history.
LEMMA CreditedHistory ==
  ASSUME NEW d, PillarsDistinct(d), Numbered(d.pillars, "rank"),
         NEW k \in DOMAIN d.votes, NEW o \in ActivePillars(d)
  PROVE  /\ CreditedTo(d, k) \subseteq ActivePillars(d)
         /\ o \in CreditedTo(d, k) => k \in PillarVotingHistory(d, o)
         /\ k \in PillarVotingHistory(d, o) /\ k[1] \notin ActivePillars(d) \ {o}
              => o \in CreditedTo(d, k)
<1> DEFINE hist == HistoricOwner(d, k)
           A == ActivePillars(d)
           now == {x \in A : d.pillars[x].producer = k[1]}
           best == {x \in now : \A p \in now : d.pillars[x].rank <= d.pillars[p].rank}
<1>1. A \subseteq DOMAIN d.pillars /\ o \in A /\ o # ""
  BY DEF ActivePillars, PillarsDistinct
<1>2. CreditedTo(d, k) = IF k[1] \in A THEN {k[1]} ELSE IF hist # "" THEN {hist} \cap A ELSE best
  BY DEF CreditedTo, HistoricOwner
<1>3. k \in PillarVotingHistory(d, o) <=>
        \/ k[1] = o
        \/ hist = o
        \/ k[1] = d.pillars[o].producer /\ hist = ""
  BY DEF PillarVotingHistory, HistoricOwner
<1>4. k[1] = d.pillars[o].producer => o \in best
  <2> SUFFICES ASSUME k[1] = d.pillars[o].producer PROVE o \in best
    OBVIOUS
  <2>1. \A p \in now : p = o
    BY <1>1 DEF PillarsDistinct
  <2>2. d.pillars[o].rank \in Int
    BY <1>1 DEF Numbered
  <2>3. d.pillars[o].rank <= d.pillars[o].rank
    BY <2>2
  <2>4. o \in now
    BY <1>1
  <2> HIDE DEF now
  <2> QED  BY <2>1, <2>3, <2>4
<1>5. best \subseteq A /\ (o \in best => k[1] = d.pillars[o].producer)
  OBVIOUS
<1> HIDE DEF best, now, hist, A
<1>6. CreditedTo(d, k) \subseteq A
  BY <1>2, <1>5
<1>7. o \in CreditedTo(d, k) => k \in PillarVotingHistory(d, o)
  BY <1>2, <1>3, <1>5
<1>8. k \in PillarVotingHistory(d, o) /\ k[1] \notin A \ {o} => o \in CreditedTo(d, k)
  <2> SUFFICES ASSUME k \in PillarVotingHistory(d, o), k[1] \notin A \ {o}
               PROVE  o \in CreditedTo(d, k)
    OBVIOUS
  <2>1. CASE k[1] \in A
    BY <1>2, <2>1
  <2>2. CASE k[1] \notin A /\ hist # ""
    BY <1>1, <1>2, <1>3, <2>2
  <2>3. CASE k[1] \notin A /\ hist = ""
    BY <1>1, <1>2, <1>3, <1>4, <2>3
  <2> QED  BY <2>1, <2>2, <2>3
<1> QED  BY <1>6, <1>7, <1>8 DEF A

\* What the pillar's endpoint shows of its history.
LEMMA HistoryShown ==
  ASSUME NEW d, PillarsDistinct(d), NEW o \in ActivePillars(d), NEW id, NEW v
  PROVE  Said(d, o, id, v) <=>
           \E k \in PillarVotingHistory(d, o) : k[2] = id /\ VoteCodeToString(d.votes[k].vote) = v
<1> DEFINE n == d.pillars[o].name
           H == PillarVotingHistory(d, o)
           f == FromPillarVotingHistory(d, H)
<1>1. GetByName(d, n) = {o}
  BY DEF GetByName, ActivePillars, PillarsDistinct
<1>2. (CHOOSE x \in GetByName(d, n) : TRUE) = o
  BY <1>1
<1>3. PillarsVotingHistory(d, n) = OK(f)
  <2> HIDE DEF n
  <2> QED  BY <1>1, <1>2 DEF PillarsVotingHistory
<1>4. f.votes = {[votingID |-> k[2], vote |-> VoteCodeToString(d.votes[k].vote)] : k \in H}
  BY DEF FromPillarVotingHistory
<1> HIDE DEF f
<1>5. OK(f).body = f
  BY DEF OK
<1>6. Said(d, o, id, v) <=> [votingID |-> id, vote |-> v] \in f.votes
  BY <1>3, <1>5 DEF Said
<1> HIDE DEF H
<1>7. [votingID |-> id, vote |-> v] \in f.votes <=>
        \E k \in H : k[2] = id /\ VoteCodeToString(d.votes[k].vote) = v
  BY <1>4
<1> QED  BY <1>6, <1>7 DEF H

\* The votes on id counted for the pillar o.
CountedFor(d, id, o) == {k \in DOMAIN d.votes : k[2] = id /\ o \in CreditedTo(d, k)}

\* What a tally says of an active pillar.
LEMMA TallyShown ==
  ASSUME NEW d, PillarsDistinct(d), NEW id, NEW o \in ActivePillars(d),
         \A k \in DOMAIN d.votes : CreditedTo(d, k) \subseteq ActivePillars(d)
  PROVE  LET s == FromProposalTally(Tally(d, id))
             n == d.pillars[o].name
         IN /\ n \in s["noVote"] <=> CountedFor(d, id, o) = {}
            /\ \A v \in {"yes", "no", "abstain"} :
                 n \in s[v] <=> \E k \in CountedFor(d, id, o) : VoteCodeToString(d.votes[k].vote) = v
<1> DEFINE n == d.pillars[o].name
           K == CountedFor(d, id, o)
           voted == {k \in DOMAIN d.votes : k[2] = id /\ CreditedTo(d, k) # {}}
           Called(k) == {d.pillars[x].name : x \in CreditedTo(d, k)}
           by == loadVotesByVotingID(d, id)
           s == FromProposalTally(Tally(d, id))
<1>1. \A k \in DOMAIN d.votes : n \in Called(k) <=> o \in CreditedTo(d, k)
  BY DEF PillarsDistinct, ActivePillars
<1>2. /\ DOMAIN by = UNION {Called(k) : k \in voted}
      /\ \A m \in DOMAIN by : by[m] = {d.votes[k].vote : k \in {k \in voted : m \in Called(k)}}
  BY DEF loadVotesByVotingID
<1> HIDE DEF by
<1>3. {k \in voted : n \in Called(k)} = K
  BY <1>1 DEF CountedFor
<1>4. n \in DOMAIN by <=> K # {}
  <2> HIDE DEF Called, voted
  <2> QED  BY <1>2, <1>3
<1>5. n \in DOMAIN by => by[n] = {d.votes[k].vote : k \in K}
  <2> HIDE DEF Called, voted, K
  <2> QED  BY <1>2, <1>3
<1>6. n \in loadActivePillarNames(d)
  BY DEF loadActivePillarNames
<1>7. Tally(d, id).byPillar = by /\ Tally(d, id).noVote = loadActivePillarNames(d) \ DOMAIN by
  BY DEF Tally, SetNoVote, by
<1>8. /\ s["noVote"] = loadActivePillarNames(d) \ DOMAIN by
      /\ \A v \in {"yes", "no", "abstain"} :
           s[v] = {m \in DOMAIN by : \E c \in by[m] : VoteCodeToString(c) = v}
  BY <1>7 DEF FromProposalTally
<1> HIDE DEF s, n, K
<1>9. n \in s["noVote"] <=> K = {}
  BY <1>4, <1>6, <1>8
<1>10. ASSUME NEW v \in {"yes", "no", "abstain"}
       PROVE  n \in s[v] <=> \E k \in K : VoteCodeToString(d.votes[k].vote) = v
  BY <1>4, <1>5, <1>8
<1> QED  BY <1>9, <1>10 DEF s, n, K

\* The report and the histories, in one state of the tables.
LEMMA TalliesAgree ==
  ASSUME NEW d, PillarsDistinct(d), Numbered(d.pillars, "rank"), NEW id,
         NEW o \in ActivePillars(d)
  PROVE  TallyAgrees(d, [votingID |-> id, shown |-> FromProposalTally(Tally(d, id))], o)
<1> DEFINE s == FromProposalTally(Tally(d, id))
           t == [votingID |-> id, shown |-> s]
           n == d.pillars[o].name
           K == CountedFor(d, id, o)
           H == PillarVotingHistory(d, o)
           Code(k) == VoteCodeToString(d.votes[k].vote)
<1>1. \A k \in DOMAIN d.votes :
        /\ CreditedTo(d, k) \subseteq ActivePillars(d)
        /\ o \in CreditedTo(d, k) => k \in H
        /\ k \in H /\ k[1] \notin ActivePillars(d) \ {o} => o \in CreditedTo(d, k)
  BY CreditedHistory
<1>2. /\ n \in s["noVote"] <=> K = {}
      /\ \A v \in {"yes", "no", "abstain"} : n \in s[v] <=> \E k \in K : Code(k) = v
  BY <1>1, TallyShown
<1>3. \A v : Said(d, o, id, v) <=> \E k \in H : k[2] = id /\ Code(k) = v
  BY HistoryShown
<1>4. /\ \A k \in K : k \in H /\ k[2] = id
      /\ \A k \in H : k[2] = id /\ k[1] \notin ActivePillars(d) \ {o} => k \in K
  <2>1. H \subseteq DOMAIN d.votes
    BY DEF PillarVotingHistory
  <2> HIDE DEF H
  <2> QED  BY <1>1, <2>1 DEF CountedFor
<1>5. \A c : VoteCodeToString(c) \in {"yes", "no", "abstain", "unknown"}
  BY DEF VoteCodeToString
<1>6. t.shown = s /\ t.votingID = id
  OBVIOUS
<1> HIDE DEF s, t, K, H
<1>7. \A v \in {"yes", "no", "abstain"} : n \in s[v] => Said(d, o, id, v)
  BY <1>2, <1>3, <1>4
<1>8. n \in s["noVote"] => \A v \in {"yes", "no", "abstain"} : n \notin s[v]
  BY <1>2
<1>9. ASSUME \A v \in {"yes", "no", "abstain", "noVote"} : n \notin s[v]
      PROVE  Said(d, o, id, "unknown")
  <2>1. PICK k \in K : TRUE
    BY <1>2, <1>9
  <2>2. Code(k) = "unknown"
    BY <1>2, <1>5, <1>9
  <2> QED  BY <1>3, <1>4, <2>2
<1>10. n \in s["noVote"] => \A k \in H : k[2] = id => k[1] \in ActivePillars(d) \ {o}
  BY <1>2, <1>4
<1>11. TallyAgrees(d, t, o)
  BY <1>6, <1>7, <1>8, <1>9, <1>10 DEF TallyAgrees, H
<1> QED  BY <1>11 DEF t, s

\* The tallies of a report are of this form.
LEMMA ReportTallies ==
  ASSUME NEW d, NEW p, p \in DOMAIN d.projects, NEW t \in ProjectsVotingReport(d, p).body.tallies
  PROVE  \E id : t = [votingID |-> id, shown |-> FromProposalTally(Tally(d, id))]
<1> DEFINE r == ProjectVotingReport(d, p)
           f == projectVotingReportToDTO(r)
<1>1. ProjectsVotingReport(d, p) = OK(f)
  BY DEF ProjectsVotingReport
<1>2. \A x \in r.tallies : \E id : x = Tally(d, id)
  BY DEF ProjectVotingReport
<1> HIDE DEF r
<1>3. f.tallies = {[votingID |-> x.votingID, shown |-> FromProposalTally(x)] : x \in r.tallies}
  BY DEF projectVotingReportToDTO
<1> HIDE DEF f
<1>4. OK(f).body = f
  BY DEF OK
<1>5. t \in f.tallies
  BY <1>1, <1>4
<1>6. PICK x \in r.tallies : t = [votingID |-> x.votingID, shown |-> FromProposalTally(x)]
  BY <1>3, <1>5
<1>7. PICK id : x = Tally(d, id)
  BY <1>2
<1>8. Tally(d, id).votingID = id
  BY DEF Tally
<1> QED  BY <1>6, <1>7, <1>8

\* In every reachable state whose pillars are told apart as they are on the chain, a
\* project's report and the pillars' voting histories agree.
THEOREM ReportsAgree == Spec => [](PillarsDistinct(db) => ReportMatchesHistory)
<1>1. ASSUME PagesInv, PillarsDistinct(db) PROVE ReportMatchesHistory
  <2>1. Numbered(db.pillars, "rank")
    BY <1>1, SortableTables DEF PagesInv, TableNumbers
  <2>2. ASSUME NEW p, Found(ProjectsGet(db, p)),
               NEW t \in ProjectsVotingReport(db, p).body.tallies,
               NEW o \in ActivePillars(db)
        PROVE  TallyAgrees(db, t, o)
    <3>1. NotFound.status # 200
      BY DEF NotFound
    <3>2. p \in DOMAIN db.projects
      BY <2>2, <3>1 DEF Found, ProjectsGet, GetItem
    <3>3. PICK id : t = [votingID |-> id, shown |-> FromProposalTally(Tally(db, id))]
      BY <2>2, <3>2, ReportTallies
    <3>4. TallyAgrees(db, [votingID |-> id, shown |-> FromProposalTally(Tally(db, id))], o)
      BY <1>1, <2>1, <2>2, TalliesAgree
    <3> QED  BY <3>3, <3>4
  <2> QED  BY <2>2 DEF ReportMatchesHistory
<1> QED  BY <1>1, PagesReachable, PTL

=============================================================================
