CONSTANTS MaxPush = 1 MaxRequests = 1
SPECIFICATION FairRpcSpec
PROPERTIES FinishTerminates
