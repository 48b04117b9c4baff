----------------------------- MODULE MCArchive -----------------------------
(* Small instances of Archive for TLC.                                     *)
EXTENDS Archive

MCConfigured == [maxSegs |-> 0, maxBytes |-> 0, maxAge |-> 2, minAge |-> 1]

MCRetentions == {[maxSegs |-> 2, maxBytes |-> 2, maxAge |-> 0, minAge |-> 0]}

\* the first record may be the newest, the last has no age
MCAges(n) == IF n = 1 THEN {1, 2} ELSE IF n = 2 THEN {1} ELSE {Absent}

\* the third segment has room for two records
MCSegCap(f) == IF f = 3 THEN 2 ELSE 1

MCFloors == {2}

MCAsks == {[op |-> ">=", v |-> 1, limit |-> 2]}

MCMerge == [target |-> 1, trigger |-> 2, maxBytes |-> 3, minBytes |-> 2, maxRun |-> 2,
            keepRecent |-> 0, maxMerges |-> 2, passBytes |-> 3]
=============================================================================
