---------------------------- MODULE MCBridgeSync ----------------------------
(***************************************************************************)
(* Values for BridgeSync: the node is busy with wraps, with unwraps or with*)
(* its configuration.                                                      *)
(***************************************************************************)
EXTENDS BridgeSync

Busy(w, u, c, f) == [k \in {"wrap", "unwrap", "config", "faults"} |->
  CASE k = "wrap" -> w [] k = "unwrap" -> u [] k = "config" -> c [] OTHER -> f]

MCBudgets == {Busy(3, 0, 0, 2), Busy(0, 3, 0, 1), Busy(0, 0, 2, 2)}

MCRecipientOf == <<"a", "b", "a">>

\* At first nothing is set up; then a full configuration.
MCConfig ==
  LET bare == [admin |-> "A", orchestrator |-> "O", soft |-> 1, adm |-> 2,
               nominated |-> {}, voted |-> {}, networks |-> <<>>, challenges |-> <<>>]
      full == [bare EXCEPT !.nominated = {"g1", "g2"}, !.voted = {"g1"},
               !.networks = <<[id |-> "n1", row |-> "x", tokens |-> [t1 |-> 3, t2 |-> 20]]>>,
               !.challenges = [ChangeAdministrator |-> 4, SetTokenPair |-> 5]]
      less == [full EXCEPT !.admin = "B", !.adm = 3, !.nominated = {"g2"}, !.voted = {"g2"},
               !.networks = <<[id |-> "n1", row |-> "y", tokens |-> [t1 |-> 4]],
                              [id |-> "n2", row |-> "z", tokens |-> <<>>]>>,
               !.challenges = <<>>]
  IN [v \in 0..2 |-> CASE v = 0 -> bare [] v = 1 -> full [] OTHER -> less]
=============================================================================
