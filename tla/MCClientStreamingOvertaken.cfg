CONSTANTS MaxPush = 1
SPECIFICATION FairRpcSpec
PROPERTIES AlwaysReplied
