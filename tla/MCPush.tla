------------------------------- MODULE MCPush -------------------------------
(***************************************************************************)
(* A small instance of Push: two users with a device each, two talkgroups  *)
(* of one system, and both senders of the alerter.                         *)
(***************************************************************************)
EXTENDS Push, TLC

CONSTANTS t1, t2, sys, ann, bob, d1, d2, ticker, tester

TwoTGs == {t1, t2}
OneSystem == [t \in TwoTGs |-> sys]
TwoUsers == {ann, bob}
OneUser == {ann}
TwoDevices == {d1, d2}
BothSenders == {ticker, tester}
SomeBatches == {<<t1, t2>>}
Set(tgs, systems, all) == [talkgroups |-> tgs, systems |-> systems, all |-> all]
Sets == {Set({t1}, {}, FALSE), Set({}, {sys}, TRUE)}
Symm == Permutations(BothSenders) \cup Permutations(TwoUsers) \cup Permutations(TwoDevices)
=============================================================================
