------------------------------ MODULE MCNexus ------------------------------
(***************************************************************************)
(* Small instances of Nexus: two connections with short queues, a few      *)
(* calls and commands.                                                     *)
(***************************************************************************)
EXTENDS Nexus

CONSTANTS c1, c2, g1, g2, g3

OneClient == {c1}
TwoClients == {c1, c2}
OneCommand == {g1}
TwoCommands == {g1, g2}
ThreeCommands == {g1, g2, g3}

\* One client listens or works, the other works or sends a transcript.
Mixed == [g \in {g1, g2} |->
            IF g = g1 THEN {<<c1, "live">>, <<c1, "register">>}
                      ELSE {<<c2, k>> : k \in {"register", "transcript"}}]
\* One client registers as a worker.
OneWorker == [g \in {g1} |-> {<<c1, "register">>}]

Everything == {{"call", "transcript"}}
=============================================================================
