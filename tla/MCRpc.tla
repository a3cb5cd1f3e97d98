-------------------------------- MODULE MCRpc --------------------------------
EXTENDS Rpc
Conf(r, t, b, c) == [max_retry |-> r, timeout |-> t, backup |-> b, async |-> t, connection |-> c,
                     unqualified |-> FALSE]
Few == {Conf(0, TRUE, TRUE, "pooled"), Conf(2, TRUE, TRUE, "pooled"), Conf(1, FALSE, TRUE, "single"),
        Conf(1, TRUE, FALSE, "short")}
Unqualified == {[Conf(2, TRUE, TRUE, "pooled") EXCEPT !.unqualified = TRUE]}
==============================================================================
