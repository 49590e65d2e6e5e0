CONSTANTS MaxPush = 2 MaxRequests = 2
SPECIFICATION FairRpcSpec
INVARIANTS PromiseUsable
