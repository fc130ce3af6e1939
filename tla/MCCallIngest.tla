---------------------------- MODULE MCCallIngest ----------------------------
(***************************************************************************)
(* Small instances of CallIngest: an s3 backend before an fs one.          *)
(***************************************************************************)
EXTENDS CallIngest

CONSTANTS k1, k2, k3, fs, s3, t1, t2

TwoCalls == {k1, k2}
ThreeCalls == {k1, k2, k3}
TwoBackends == {fs, s3}
OneBackend == {fs}
S3First == <<s3, fs>>
FSOnly == <<fs>>
HeedingS3 == {s3}
HeedingNone == {}

\* k2 has a talkgroup of its own, that nobody knows.
TGs == [c \in Calls |-> IF c = k2 THEN t2 ELSE t1]
KnownTGs == {t1}

\* The filter of fs passes k1 by.
Filters == [b \in Backends |-> IF b = fs THEN Calls \ {k1} ELSE Calls]
NoFilters == [b \in Backends |-> Calls]
Disposed(onS3, onFS, exhausted) ==
    [onError |-> [b \in Backends |-> IF b = s3 THEN onS3 ELSE onFS], onExhaust |-> exhausted]
\* Every disposition, and both ways to exhaust the backends.
Disposals == {Disposed("next", "db", "fail"), Disposed("next", "fail", "db")}
FailOnly == {Disposed("fail", "fail", "fail")}

\* The calls lie in two directories.
TwoDirs == [c \in Calls |-> IF c = k1 THEN 1 ELSE 2]
=============================================================================
