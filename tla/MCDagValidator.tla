--------------------------- MODULE MCDagValidator ---------------------------
(****************************************************************************)
(* Small inputs of DagValidator for TLC.                                    *)
(****************************************************************************)
EXTENDS DagValidator, TLC

CONSTANTS a, b, c, d, e, MaxEdges

EdgeRow(m, n) == [src |-> m, dst |-> n]

Calls(ids) == {<<"topologicalSort", a>>}
                 \cup ({"getDownstreamNodes", "getUpstreamNodes"} \X ids)

Asking(ids, nodeRows, edgeRows) ==
    {[fn |-> call[1], target |-> call[2], nodes |-> ns, edges |-> es] :
        call \in Calls(ids), ns \in nodeRows, es \in edgeRows}

\* Every list of at most MaxEdges edge rows over three ids (self loops and
\* repeated rows included), with all three or only two of them as nodes.
EdgeRowsUpTo(k) == UNION {[1..m -> {a, b, c} \X {a, b, c}] : m \in 0..k}
SmallInputs ==
    Asking({a, b, c}, {<<a, b, c>>, <<b, a>>},
           {[i \in DOMAIN s |-> EdgeRow(s[i][1], s[i][2])] : s \in EdgeRowsUpTo(MaxEdges)})

\* A diamond with a shortcut and a node e apart, in every order of its edge rows.
DiamondEdges == {EdgeRow(a, b), EdgeRow(a, c), EdgeRow(b, d), EdgeRow(c, d), EdgeRow(a, d)}
DiamondInputs ==
    Asking({b, c, d, e}, {<<a, b, c, d, e>>, <<e, d, c, b, a>>}, Orderings(DiamondEdges))

AllInputs == SmallInputs \cup DiamondInputs
============================================================================
