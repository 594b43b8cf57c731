--------------------------- MODULE MC_ProxyMain ---------------------------
EXTENDS ProxyMain

\* Raises anywhere they can happen; the proxy serves two requests in all.
MCRaise == [faults |-> {"raise"}, maxFaults |-> 2, maxRuns |-> 3, maxTx |-> 2]
\* A raise or a kill.
MCKill == [faults |-> {"raise", "kill"}, maxFaults |-> 2, maxRuns |-> 3, maxTx |-> 1]

MCRegimes == {MCRaise, MCKill}
MCKillRegimes == {[faults |-> {"kill"}, maxFaults |-> 1, maxRuns |-> 3, maxTx |-> 1]}
=============================================================================
