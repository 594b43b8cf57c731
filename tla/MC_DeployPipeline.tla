------------------------- MODULE MC_DeployPipeline -------------------------
EXTENDS DeployPipeline

\* The operator runs the scripts in any order; a run may raise or be killed.
MCAnyOrder ==
    [revoker |-> "EnclaveRevokerByConflictMsg", faults |-> {"raise", "kill"},
     maxFaults |-> 1, maxRuns |-> 4, inOrder |-> FALSE]

\* The operator runs B2, B3, B4 and reruns a script that raised.
MCInOrder ==
    [revoker |-> "EnclaveRevokerByLeakedKey", faults |-> {"raise"},
     maxFaults |-> 2, maxRuns |-> 5, inOrder |-> TRUE]

\* As MCInOrder, but the fault is a kill, which may strike between
\* open(path, 'w') and json.dump.
MCInOrderKill ==
    [revoker |-> "EnclaveRevokerByConflictMsg", faults |-> {"kill"},
     maxFaults |-> 1, maxRuns |-> 5, inOrder |-> TRUE]

MCRegimes == {MCAnyOrder, MCInOrder}
MCTornRegimes == {MCInOrderKill}
=============================================================================
