------------------------- MODULE MCMasterLifecycle -------------------------
EXTENDS MasterLifecycle

CONSTANTS p1, p2

\* The start-up read lists /p1; a SIGHUP read drops it and adds /p2.
MCDisjointMaps == << <<p1>>, <<p2>> >>

\* As above, then a third read lists /p2 again.
MCRelistMaps == << <<p1>>, <<p2>>, <<p2>> >>

MCSigBudget == [s \in Signals |-> IF s = "USR2" THEN 0 ELSE 1]

MCTermOnly == [s \in Signals |-> IF s = "TERM" THEN 1 ELSE 0]

MCUsr1Only == [s \in Signals |-> IF s = "USR1" THEN 1 ELSE 0]

MCAllSignals == [s \in Signals |-> 1]
====
