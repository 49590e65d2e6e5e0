CONSTANTS MaxPush = 3
SPECIFICATION FairRpcSpec
INVARIANTS NoRefusedBatch RepliesThenStatus NoEventAfterDelete SessionSafe EndToEnd
PROPERTIES RpcEnds
