----------------------------- MODULE MCTGCache -----------------------------
(***************************************************************************)
(* Small instances of TGCache for TLC.                                     *)
(***************************************************************************)
EXTENDS TGCache, TLC

CONSTANTS t1, t2, t3, s1, s2, o1, o2, o3, f1, f2, be

OneTG == {t1}
TwoTGs == {t1, t2}
OneSys == {s1}
TwoSystems == {s1, s2}
Together == [t \in TGs |-> s1]
Apart == [t \in TGs |-> IF t = t1 THEN s1 ELSE s2]
Nothing == [t \in TGs |-> "absent"]
FirstTagged == [t \in TGs |-> IF t = t1 THEN "tagged" ELSE "absent"]
SomeOrNone == {Nothing, FirstTagged}
Some == {FirstTagged}

OneOp == {o1}
TwoOps == {o1, o2}
NoFilter == {}
OneFilter == {f1}
TwoFilters == {f1, f2}
Backend == {be}
Permute == Permutations(Ops) \cup Permutations(Filters)
=============================================================================
