----------------------------- MODULE MCAcceptor ------------------------------
EXTENDS Acceptor
MCConfs == {[fd |-> 3, idle |-> TRUE, fails |-> FALSE, streams |-> {4}],
            [fd |-> 3, idle |-> FALSE, fails |-> TRUE, streams |-> {4}]}
MCFailing == {[fd |-> 3, idle |-> TRUE, fails |-> TRUE, streams |-> {}]}
==============================================================================
