CONSTANTS MaxPush = 2 MaxRequests = 2
SPECIFICATION FairRpcSpec
INVARIANTS NoRefusedBatch RepliesThenStatus NoEventAfterDelete SessionSafe EndToEnd
PROPERTIES RpcEnds
