----------------------------- MODULE MCJournal -----------------------------
(* Small scenes of the message journal for TLC.                             *)
EXTENDS Journal

CONSTANTS u, v, s1, s2, h1, h2

MCExporters == {<<u, 1>>, <<u, 2>>, <<v, 1>>}

Scene(faults, sessions, exps, hashes, n) ==
    [faults |-> faults, sessions |-> sessions, exporters |-> exps, hashes |-> hashes, calls |-> n]

MCEnvs == {Scene({}, {s1}, {<<u, 1>>, <<v, 1>>}, {h1}, 1),
           Scene({}, {s1, s2}, {<<u, 1>>}, {h1}, 2),
           Scene({"lossy"}, {s1}, {<<u, 1>>}, {h1, h2}, 1),
           Scene({"churn"}, {s1}, {<<u, 1>>, <<u, 2>>}, {h1, h2}, 1),
           Scene({"churn"}, {s1}, {<<u, 1>>, <<v, 1>>}, {h1}, 1),
           Scene({"delete", "churn"}, {s1}, {<<u, 1>>, <<u, 2>>}, {h1}, 1)}
=============================================================================
