------------------------------ MODULE MCLedger ------------------------------
(***************************************************************************)
(* Short chains for Explorer, one story each.  A hash names its block;   *)
(* the receive of the send x is xR.                                        *)
(***************************************************************************)
EXTENDS Explorer

Call(method) == [NoCall EXCEPT !.method = method]

Block(type, address, n, to, token, amount, from, call, descendants) ==
  [type |-> type, address |-> address, height |-> n, to |-> to, token |-> token,
   amount |-> amount, from |-> from, call |-> call, descendants |-> descendants,
   info |-> NoInfo]

Genesis(a, amount) == Block("genesisReceive", a, 1, "empty", "znn", amount, "", NoCall, <<>>)
Send(a, n, to, token, amount, call) ==
  Block("userSend", a, n, to, token, amount, "", call, <<>>)
Pays(a, n, to, token, amount, call) ==
  Block("contractSend", a, n, to, token, amount, "", call, <<>>)
Receive(a, n, from) ==
  Block(IF a \in Embedded THEN "contractReceive" ELSE "userReceive",
        a, n, "empty", "empty", 0, from, NoCall, <<>>)
Spawns(b, descendants) == [b EXCEPT !.descendants = descendants]
About(b, token, supply) == [b EXCEPT !.info = [token |-> token, supply |-> supply]]

World(maxCommits, maxExtras, behind, chain, blocks, pillars, sentinels, projects, assets) ==
  [maxCommits |-> maxCommits, maxExtras |-> maxExtras, behind |-> behind, walks |-> FALSE,
   chain |-> chain,
   blocks |-> [x \in DOMAIN blocks |->
      [hash |-> x, type |-> blocks[x].type, address |-> blocks[x].address,
       height |-> blocks[x].height, to |-> blocks[x].to, token |-> blocks[x].token,
       amount |-> blocks[x].amount, from |-> blocks[x].from, call |-> blocks[x].call,
       descendants |-> blocks[x].descendants, info |-> blocks[x].info]],
   pillars |-> pillars, sentinels |-> sentinels, projects |-> projects, assets |-> assets]

Momentum(producer, content) == [producer |-> producer, content |-> content]
None == <<>>

PillarA(revokedAt) == [owner |-> "oa", name |-> "A", rank |-> 1, producer |-> "pa", withdraw |-> "wa",
                       revokedAt |-> revokedAt]
PillarB == [owner |-> "ob", name |-> "B", rank |-> 2, producer |-> "pb", withdraw |-> "wb",
            revokedAt |-> Null]

\* B registers and the delegator moves to it.
Delegating ==
  LET Named(m, n) == [Call(m) EXCEPT !.name = n, !.producer = "pb", !.withdraw = "wb"]
  IN World(3, 1, 0, <<Momentum("pa", <<"g", "d", "dR">>),
                Momentum("pa", <<"n", "nR", "nB">>),
                Momentum("pb", <<"m", "mR">>)>>,
       [g |-> Genesis("u", 9),
        d |-> Send("u", 2, "pillar", "znn", 0, Named("Delegate", "A")),
        dR |-> Receive("pillar", 1, "d"),
        n |-> Send("ob", 1, "pillar", "znn", 1, Named("Register", "B")),
        nR |-> Spawns(Receive("pillar", 2, "n"), <<"nB">>),
        nB |-> Pays("pillar", 3, "token", "qsr", 2, Call("Burn")),
        m |-> Send("u", 3, "pillar", "znn", 0, Named("Delegate", "B")),
        mR |-> Receive("pillar", 4, "m")],
       <<<<PillarA(Null)>>, <<PillarA(Null), PillarB>>, <<PillarA(Null), PillarB>>>>,
       <<None, None, None>>, <<None, None, None>>, <<None, None, None>>)

\* A delegation ends and the pillar is revoked, beside a refresh and a crash.
Leaving ==
  LET Named(m, n) == [Call(m) EXCEPT !.name = n]
  IN World(2, 2, 1, <<Momentum("pa", <<"d", "dR">>), Momentum("pa", <<"k", "kR", "x", "xR">>)>>,
       [d |-> Send("u", 1, "pillar", "znn", 0, Named("Delegate", "A")),
        dR |-> Receive("pillar", 1, "d"),
        k |-> Send("oa", 1, "pillar", "znn", 0, Named("Revoke", "A")),
        kR |-> Receive("pillar", 2, "k"),
        x |-> Send("u", 2, "pillar", "znn", 0, Call("Undelegate")),
        xR |-> Receive("pillar", 3, "x")],
       <<<<PillarA(Null)>>, <<PillarA(2)>>>>,
       <<None, None>>, <<None, None>>, <<None, None>>)

\* A stake and a fusion are opened, then cancelled.
Locking ==
  LET On(m, id) == [Call(m) EXCEPT !.id = id]
  IN World(3, 1, 0, <<Momentum("pa", <<"s", "sR", "f", "fR">>),
                Momentum("pa", <<"c", "cR", "x", "xR">>)>>,
       [s |-> Send("u", 1, "stake", "znn", 3, Call("Stake")),
        sR |-> Receive("stake", 1, "s"),
        f |-> Send("u", 2, "plasma", "qsr", 2, [Call("Fuse") EXCEPT !.address = "w"]),
        fR |-> Receive("plasma", 1, "f"),
        c |-> Send("u", 3, "stake", "znn", 0, On("Cancel", "s")),
        cR |-> Receive("stake", 2, "c"),
        x |-> Send("u", 4, "plasma", "qsr", 0, On("CancelFuse", "f")),
        xR |-> Receive("plasma", 2, "x")],
       <<<<PillarA(Null)>>, <<PillarA(Null)>>>>,
       <<None, None>>, <<None, None>>, <<None, None>>)

\* Two hash time locks are settled, one by each side; a sentinel leaves.
Swapping ==
  LET On(m, id) == [Call(m) EXCEPT !.id = id]
  IN World(2, 2, 0, <<Momentum("pa", <<"h", "hR", "i", "iR">>),
                Momentum("pa", <<"l", "lR", "b", "bR", "v", "vR">>)>>,
       [h |-> Send("u", 1, "htlc", "znn", 1, Call("Create")),
        hR |-> Receive("htlc", 1, "h"),
        i |-> Send("u", 2, "htlc", "znn", 1, Call("Create")),
        iR |-> Receive("htlc", 2, "i"),
        l |-> Send("w", 1, "htlc", "znn", 0, On("Unlock", "h")),
        lR |-> Receive("htlc", 3, "l"),
        b |-> Send("u", 3, "htlc", "znn", 0, On("Reclaim", "i")),
        bR |-> Receive("htlc", 4, "b"),
        v |-> Send("s1", 1, "sentinel", "znn", 0, Call("Revoke")),
        vR |-> Receive("sentinel", 1, "v")],
       <<<<PillarA(Null)>>, <<PillarA(Null)>>>>,
       <<<<[owner |-> "s1", registered |-> 1, active |-> TRUE], [owner |-> "s2", registered |-> 2, active |-> TRUE]>>,
         <<[owner |-> "s2", registered |-> 2, active |-> TRUE]>>>>,
       <<None, None>>, <<None, None>>)

\* Votes by name and by producer address, one changed later, one on a phase.
Voting ==
  LET ByName(id, n, v) == [Call("VoteByName") EXCEPT !.id = id, !.name = n, !.vote = v]
      ByProd(id, v)    == [Call("VoteByProdAddress") EXCEPT !.id = id, !.vote = v]
      Project(status, phases) == [id |-> "J", created |-> 1, status |-> status, phases |-> phases]
      Phase == [id |-> "JP", created |-> 2, status |-> 0]
  IN World(2, 2, 0, <<Momentum("pa", <<"a", "aR">>),
                Momentum("pb", <<"b", "bR", "c", "cR", "e", "eR">>)>>,
       [a |-> Send("oa", 1, "accelerator", "znn", 0, ByName("J", "A", 0)),
        aR |-> Receive("accelerator", 1, "a"),
        b |-> Send("pb", 1, "accelerator", "znn", 0, ByProd("J", 1)),
        bR |-> Receive("accelerator", 2, "b"),
        c |-> Send("oa", 2, "accelerator", "znn", 0, ByName("J", "A", 1)),
        cR |-> Receive("accelerator", 3, "c"),
        e |-> Send("oa", 3, "accelerator", "znn", 0, ByName("JP", "A", 2)),
        eR |-> Receive("accelerator", 4, "e")],
       <<<<PillarA(Null), PillarB>>, <<PillarA(Null), PillarB>>>>,
       <<None, None>>,
       <<<<Project(0, <<>>)>>, <<Project(1, <<Phase>>)>>>>,
       <<None, None>>)

\* A pillar votes twice in a momentum, which is processed again with a block left out.
Revising ==
  LET ByName(id, n, v) == [Call("VoteByName") EXCEPT !.id = id, !.name = n, !.vote = v]
  IN World(2, 2, 0, <<Momentum("pa", <<"a", "aR", "c", "cR">>)>>,
       [a |-> Send("oa", 1, "accelerator", "znn", 0, ByName("J", "A", 0)),
        aR |-> Receive("accelerator", 1, "a"),
        c |-> Send("oa", 2, "accelerator", "znn", 0, ByName("J", "A", 1)),
        cR |-> Receive("accelerator", 2, "c")],
       <<<<PillarA(Null)>>>>, <<None>>, <<None>>, <<None>>)

\* Rewards of a pillar, a delegator and the treasury, and a swap claim paid by a mint.
Rewards ==
  LET Mint(t, n) == [Call("Mint") EXCEPT !.token = t, !.amount = n]
  IN World(2, 2, 0, <<Momentum("pa", <<"r", "rR", "q", "qR">>),
                Momentum("pa", <<"w", "wR", "wZ", "wZR", "z", "zR">>)>>,
       [r |-> Pays("pillar", 1, "wa", "znn", 2, NoCall),
        rR |-> Receive("wa", 1, "r"),
        q |-> Pays("pillar", 2, "u", "qsr", 4, NoCall),
        qR |-> Receive("u", 1, "q"),
        w |-> Send("u", 2, "swap", "znn", 0, Call("RetrieveAssets")),
        wR |-> Spawns(Receive("swap", 1, "w"), <<"wZ">>),
        wZ |-> Pays("swap", 2, "token", "znn", 0, Mint("znn", 3)),
        wZR |-> Receive("token", 1, "wZ"),
        z |-> Send("treasury", 1, "u", "znn", 12, NoCall),
        zR |-> Receive("u", 3, "z")],
       <<<<PillarA(Null)>>, <<PillarA(Null)>>>>,
       <<None, None>>, <<None, None>>,
       <<<<[key |-> "K", left |-> [znn |-> 3, qsr |-> 12]]>>,
         <<[key |-> "K", left |-> [znn |-> 0, qsr |-> 12]]>>>>)

\* Burns that together exceed a BIGINT column, and a token's own update.
Burning ==
  World(3, 2, 1, <<Momentum("pa", <<"b">>), Momentum("pa", <<"bR", "y", "yR", "t", "tR">>)>>,
    [b |-> About(Send("u", 1, "token", "qsr", 6, Call("Burn")), "qsr", 20),
     bR |-> Receive("token", 1, "b"),
     y |-> About(Send("u", 2, "token", "qsr", 4, Call("Burn")), "qsr", 7),
     yR |-> Receive("token", 2, "y"),
     t |-> Send("u", 3, "token", "znn", 0, [Call("UpdateToken") EXCEPT !.token = "qsr"]),
     tR |-> Receive("token", 3, "t")],
    <<<<PillarA(Null)>>, <<PillarA(Null)>>>>,
    <<None, None>>, <<None, None>>, <<None, None>>)

\* A payment and its receipt, processed again through nodes that are behind.
Lagging ==
  World(3, 1, 2, <<Momentum("pa", <<"g">>), Momentum("pa", <<"p">>), Momentum("pa", <<"pR">>)>>,
    [g |-> Genesis("u", 9), p |-> Send("u", 2, "w", "znn", 2, NoCall),
     pR |-> Receive("w", 1, "p")],
    [h \in 1..3 |-> <<PillarA(Null)>>], [h \in 1..3 |-> None],
    [h \in 1..3 |-> None], [h \in 1..3 |-> None])

\* Payments in momentums stored in any order, and a client reading them.
Reading ==
  [World(4, 0, 0, <<Momentum("pa", <<"g">>), Momentum("pa", <<"p">>), Momentum("pa", <<"q">>)>>,
         [g |-> Genesis("u", 9), p |-> Send("u", 2, "w", "znn", 2, NoCall),
          q |-> Send("u", 3, "w", "znn", 3, NoCall)],
         [h \in 1..3 |-> <<PillarA(Null)>>], [h \in 1..3 |-> None],
         [h \in 1..3 |-> None], [h \in 1..3 |-> None]) EXCEPT !.walks = TRUE]

MCWorlds == {Reading, Delegating, Leaving, Locking, Swapping, Voting, Revising, Rewards,
             Burning, Lagging}

=============================================================================
