---------------------------- MODULE MCSubmount ----------------------------
EXTENDS Submount

CONSTANTS r, o, a, b, g, c, d

\* r has submounts a and b; a has submount g; c and d are not mounted
\* yet; o is another master-map entry's autofs_point.
MCTree0 == (r :> <<a, b>>) @@ (a :> <<g>>) @@
           [x \in {o, b, g, c, d} |-> <<>>]

\* c may be mounted under the root, or under a, while the walk runs.
MCJoins == {<<r, c>>, <<a, c>>}

\* ... and d may be mounted under o, and exit again.
MCJoinsOther == MCJoins \cup {<<o, d>>}
====
