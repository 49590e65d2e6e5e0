CONSTANTS MaxPush = 1 MaxRequests = 1
SPECIFICATION FairRpcSpec
INVARIANTS FinishAccepted
