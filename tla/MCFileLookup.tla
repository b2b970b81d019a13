---------------------------- MODULE MCFileLookup ----------------------------
(***************************************************************************)
(* Map files and master maps for checking FileLookup.  f1 is the mount    *)
(* point's map and the master map, f2 a map it includes; k1, k2 are keys, *)
(* e1, e2 map entries.                                                     *)
(***************************************************************************)
EXTENDS FileLookup

CONSTANTS f1, f2, k1, k2, e1, e2

\* nsswitch.conf "automount: files": no action for any status.
MCNoActions == [s \in StatusSet |-> [action |-> "UNKNOWN", negated |-> FALSE]]

\* auto.f1 includes /etc/auto.f2 before its own key; it is then rewritten
\* to drop the include, change k1's entry and add a wildcard.
MCIncludeByPath ==
    { [f \in {f1, f2} |-> IF f = f1 THEN <<PlusLine(f2, "path"), KeyLine(k1, e1)>>
                                    ELSE <<KeyLine(k2, e2)>>],
      [f \in {f1, f2} |-> IF f = f1 THEN <<KeyLine(k1, e2), KeyLine(Wild, e1)>>
                                    ELSE <<KeyLine(k2, e2)>>] }

\* auto.f1 and auto.f2 include each other and themselves, by name and by
\* path, with keys before and after the includes; the second version
\* shrinks the map to one key.
MCIncludeCycles ==
    { [f \in {f1, f2} |-> IF f = f1
                          THEN <<KeyLine(k1, e1), PlusLine(f2, "name"), KeyLine(k2, e1)>>
                          ELSE <<PlusLine(f1, "path"), PlusLine(f2, "name"), KeyLine(Wild, e2)>>],
      [f \in {f1, f2} |-> IF f = f1 THEN <<KeyLine(k2, e2), PlusLine(f1, "path")>> ELSE <<>>] }

\* Both families above: the administrator may switch between any two.
MCIncludeAll == MCIncludeByPath \cup MCIncludeCycles

\* auto.f1 lists k1 and is then rewritten without it (and no wildcard).
MCKeyRemoved ==
    { [f \in {f1, f2} |-> IF f = f1 THEN <<KeyLine(k1, e1)>> ELSE <<>>],
      [f \in {f1, f2} |-> IF f = f1 THEN <<KeyLine(k2, e2)>> ELSE <<>>] }

\* auto.f1 includes auto.f2 by name before its own key k1.
MCNameInclude ==
    { [f \in {f1, f2} |-> IF f = f1 THEN <<PlusLine(f2, "name"), KeyLine(k1, e1)>>
                                    ELSE <<KeyLine(k2, e2)>>] }

\* A master map including a map that includes itself by name.
MCMasterSelfInclude ==
    [f \in {f1, f2} |-> IF f = f1 THEN <<KeyLine(k1, e1), PlusLine(f2, "name")>>
                                  ELSE <<PlusLine(f2, "name"), KeyLine(k2, e1)>>]

\* A master map in a two-map include cycle.
MCMasterCycle ==
    [f \in {f1, f2} |-> IF f = f1 THEN <<KeyLine(k1, e1), PlusLine(f2, "name")>>
                                  ELSE <<PlusLine(f1, "name")>>]

=============================================================================
