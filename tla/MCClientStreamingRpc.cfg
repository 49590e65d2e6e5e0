CONSTANTS MaxPush = 3
SPECIFICATION FairRpcSpec
INVARIANTS NoRefusedBatch RequestsThenClose DeletedWhenDone HandlerSafe EndToEnd
PROPERTIES ReaderEnds RpcEnds
