---------------------------- MODULE MCAudioMove ----------------------------
(***************************************************************************)
(* Small instances of AudioMove: two or three calls, an s3 and an fs       *)
(* backend, two workers.                                                   *)
(***************************************************************************)
EXTENDS AudioMove, TLC

CONSTANTS c1, c2, c3, s3, fs, w1, w2

TwoCalls == {c1, c2}
ThreeCalls == {c1, c2, c3}
NoCalls == {}
OneSwept == {c2}
BothBackends == {s3, fs}
OnlyS3 == {s3}
NoBackends == {}
TwoWorkers == {w1, w2}

\* A date for each call, or one for the first two.
InOrder == [c \in Calls |-> CASE c = c1 -> 1 [] c = c2 -> 2 [] c = c3 -> 3]
OneInstant == [c \in Calls |-> IF c \in {c1, c2} THEN 1 ELSE 2]

\* What ingest leaves: audio in the database or in one backend.
Ingested == {[refs |-> {}, blob |-> "audio"], [refs |-> {s3}, blob |-> "none"],
             [refs |-> {fs}, blob |-> "none"]}
InFs == {[refs |-> {fs}, blob |-> "none"]}

To(d, cp) == [dest |-> d, has |-> AnyBackend, copy |-> cp, swept |-> "both",
              dry |-> FALSE, start |-> 0, tries |-> 0]

\* Moves and copies to either backend or to the database.
Moves == {To(d, cp) : d \in {s3, fs, DB}, cp \in BOOLEAN}
\* With a second try, or without the oldest call.
Tried(R) == R \cup {[r EXCEPT !.tries = 1] : r \in R}
Later(R) == R \cup {[r EXCEPT !.start = 2] : r \in R}
CopyToS3 == Later({To(s3, TRUE)})
MoveToS3 == {To(s3, FALSE)}
MoveToFs == {To(fs, FALSE)}
\* As Moves, and requests with a source backend, one of them refused, a dry
\* run and the restriction to the table calls.
AllMoves ==
    Moves \cup {[To(s3, FALSE) EXCEPT !.has = b] : b \in {fs, s3}}
          \cup {[To(fs, TRUE) EXCEPT !.dry = TRUE]}
          \cup {[To(s3, FALSE) EXCEPT !.swept = "no"]}

CleanMoves == Tried(Later({To(s3, FALSE), To(fs, TRUE), To(DB, FALSE)}))

Doubted == {[To(fs, FALSE) EXCEPT !.swept = t, !.tries = n] :
              t \in {"both", "no", "only"}, n \in 0..1}

DbFaults == {"db"}
SafeFaults == {"db", "cancel", "crash", "del", "retag"}
LiveFaults == FaultKinds \ {"nxbackend", "crash", "retag"}
DoubtedFaults == {"store", "retag"}

Symm == Permutations(Workers)
SymmAll == Permutations(TwoCalls) \cup Permutations(Workers)

-----------------------------------------------------------------------------
(* Claims without their conditions: MCAudioMove_doubts.cfg, and for the    *)
(* last one MCAudioMove_faults.cfg, violates each.                         *)

Ended(outcome) == pc = "idle" /\ res = outcome
OfAll == req # None /\ req.swept = "both" /\ req.tries = 0

\* A move that does not try again, of more rows than a batch holds, carries
\* all of them that are in the table calls, counts none twice, and is rolled
\* back if it fails.
BorderLosesNoRow == Ended("ok") /\ OfAll => Asked \ SweptCalls \subseteq Moved
BorderCountsOnce == Ended("ok") /\ OfAll => completed <= Cardinality(Asked)
BorderIsRolledBack ==
    Ended("err") /\ OfAll =>
      \A r \in Refs : object[r] \in {"none", before.object[r]}

\* In one batch, with a second try, each row is counted once.
TryCountsOnce ==
    Ended("ok") /\ InOneBatch /\ req.swept = "no" =>
      completed = Cardinality(Moved)

\* A move of swept calls carries them.
SweptAreMoved == req # None /\ req.swept = "only" => SuccessMovesAll

\* Whoever retags, no row is carried that is older than was asked for.
OlderAreLeft == Ended("ok") => \A c \in Moved : req.start <= DateOf[c]
=============================================================================
