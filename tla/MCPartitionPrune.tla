-------------------------- MODULE MCPartitionPrune --------------------------
(***************************************************************************)
(* Small instances of PartitionPrune: one past period is kept and one      *)
(* future one provided; two calls in the first period and one in the       *)
(* second, their audio in one backend, in two, or in the row.              *)
(***************************************************************************)
EXTENDS PartitionPrune, MCPartitions

CONSTANTS s3, fs, c1, c2, c3

TwoBackends == {s3, fs}
OneCall == {c1}
ThreeCalls == {c1, c2, c3}
NoCalls == {}

OneOld == [c \in {c1} |-> 1]
TwoOld == [c \in {c1, c2, c3} |-> IF c = c3 THEN 2 ELSE 1]

InS3 == [c \in {c1} |-> {s3}]
Mixed == [c \in {c1, c2, c3} |-> CASE c = c1 -> {s3}
                                   [] c = c2 -> {}
                                   [] c = c3 -> {s3, fs}]

Faultless == {}
\* What may fail without harm to the audio of an incident.
EarlyFaults == {"sql", "read", "ask", "crash"}
=============================================================================
