\* Every script on two external networks and on Ganache, run up to three
\* times, with one raise.
SPECIFICATION Spec
CONSTANTS
    Networks = {"node1", "node2"}
    Scripts = {"pubsub", "ra", "revoker", "gasEnclave", "gasKey", "indiv", "all", "eval"}
    MaxRuns = 3
    MaxFaults = 1
INVARIANT TypeOK ChecksHold InfoFilesDeployed
