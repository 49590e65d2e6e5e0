CONSTANTS MaxPush = 1
SPECIFICATION FairRpcSpec
INVARIANTS FailReachesClient
