----------------------------- MODULE MCAlerter -----------------------------
(***************************************************************************)
(* A small instance of Alerter.                                            *)
(***************************************************************************)
EXTENDS Alerter, MCTrending, TLC

CONSTANTS t1, t2

OneTG == {t1}
TwoTGs == {t1, t2}
RenotifyValues == {0, 1}
Asked == {<<>>, <<t1>>}
=============================================================================
