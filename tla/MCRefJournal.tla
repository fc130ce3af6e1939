---------------------------- MODULE MCRefJournal ----------------------------
(***************************************************************************)
(* Small instances of RefJournal: an s3 and an fs backend, one or two      *)
(* partition prefixes with an object or two in each.                       *)
(***************************************************************************)
EXTENDS RefJournal

CONSTANTS s3, fs, old, p1, p2, o1, o2, o3, ticker, admin

OneCollector == {ticker}
TwoCollectors == {ticker, admin}
OnlyS3 == {s3}
S3AndFs == {s3, fs}
WithOld == {s3, fs, old}

OnePrefix == {p1}
TwoPrefixes == {p1, p2}

TwoObjects == {o1, o2}
ThreeObjects == {o1, o2, o3}

\* Two objects under one prefix of s3.
OneTarget == [o \in {o1, o2} |-> <<s3, p1>>]
\* One object under each prefix of s3.
EachPrefix == [o \in {o1, o2} |-> IF o = o1 THEN <<s3, p1>> ELSE <<s3, p2>>]
\* Two prefixes of s3 and one of fs.
Spread == [o \in {o1, o2, o3} |-> CASE o = o1 -> <<s3, p1>>
                                     [] o = o2 -> <<s3, p2>>
                                     [] o = o3 -> <<fs, p1>>]
\* Two objects of s3 and one of fs under the same prefix.
BothBackends == [o \in {o1, o2, o3} |-> <<IF o = o3 THEN fs ELSE s3, p1>>]

ThreeIds == 1..3
TwoIds == 1..2
Faultless == {}
AllFaults == FaultKinds
NoteFaults == {"note"}
\* Failures that come before the row or the rules change.
ServiceFaults == {"read", "insert", "prune"}
=============================================================================
