----------------------------- MODULE MCAccounts -----------------------------
(***************************************************************************)
(* A small instance of Accounts: two requests at a time, a good password *)
(* and a short one, an administrator and the user itself.                  *)
(***************************************************************************)
EXTENDS Accounts, TLC

CONSTANTS p1, p2, good, short, blank, v1, v2

TwoProcs == {p1, p2}
SomePasswords == {good, short}
Long == {good}
SomeCallers == {[admin |-> TRUE, self |-> FALSE], [admin |-> FALSE, self |-> TRUE]}
SomeKeys == {[kind |-> "apikey", expires |-> 0, disabled |-> FALSE],
             [kind |-> "rdio", expires |-> 0, disabled |-> FALSE]}
TwoValues == {v1, v2}
Symm == Permutations(TwoProcs) \cup Permutations(TwoValues)
=============================================================================
