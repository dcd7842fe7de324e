----------------------------- MODULE MCServices -----------------------------
(***************************************************************************)
(* A small instance of each of the services, for TLC.                      *)
(***************************************************************************)
EXTENDS Services, TLC

D(labels) == [labels |-> labels, valid |-> TRUE]
MCList == {
  {D(<<"x", "a">>)},
  {D(<<"*", "x", "a">>)},
  {D(<<"a", "x", "a">>), D(<<"x", "a">>)},
  {D(<<"*", "a">>)},
  {[labels |-> <<"x", "a">>, valid |-> FALSE]}}

MCConfig == {
  [master |-> "k1", version |-> "v1"],
  [master |-> "k1", version |-> "v2"],
  [master |-> "k2", version |-> "v3"]}

MCDomains == {<<"a">>, <<"a", "b">>, <<"b", "a">>}
Record(domains, sound) == [domains |-> domains, pem |-> 3, sound |-> sound]
MCSent == {
  <<Record(<<"b", "a">>, FALSE), Record(<<"a">>, TRUE)>>}

MCCaller == 1 .. 3
MCProcessOf == [w \in MCCaller |-> IF w = 1 THEN 1 ELSE 2]

Symmetry == Permutations(Actor) \cup Permutations(Order) \cup Permutations(Token)
=============================================================================
