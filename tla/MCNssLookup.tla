---------------------------- MODULE MCNssLookup ----------------------------
EXTENDS NssLookup

CONSTANTS k1, k2, k3, kw, kp

\* The file map holds k1, the NIS map k2; the NIS+ table holds k3, the
\* wildcard kw and a plus-inclusion key kp; Hesiod has a record for k3.
\* A mount looks up k1 (cached, in no NIS+ entry), k2 or k3.
MCKeys == {k1, k2, k3, kw, kp}
MCModuleKeys == [m \in {"file", "yp"} |-> IF m = "file" THEN {k1} ELSE {k2}]

\* Action tables: no action given (all UNKNOWN, what nsswitch_parse
\* leaves for a bare source name), and every table with one status given
\* one of [STATUS=continue], [STATUS=return], [!STATUS=return].
Unknown == [action |-> "UNKNOWN", negated |-> FALSE]
Given == {[action |-> "CONTINUE", negated |-> FALSE],
          [action |-> "RETURN", negated |-> FALSE],
          [action |-> "RETURN", negated |-> TRUE]}
MCActionTables ==
    {[st \in StatusSet |-> Unknown]}
    \cup {[st \in StatusSet |-> IF st = t THEN g ELSE Unknown] : t \in StatusSet, g \in Given}
=============================================================================
