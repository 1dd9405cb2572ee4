CONSTANTS
    BlocksPerEpoch = 2
    MaximumParallelBlockQuery = 2
    Clients = {"c1", "c2"}
    MaxConnections = 1
    MaxPendingRequests = 2
    MaxRequestsPerSecond = 3
    MaxSubscriptions = 2
    Workers = 2
    ConcurrentVMs = 1
    MaxTries = 1
    MaximumPendingRequestsPerThreads = 3
    MaximumRequestsPerBatch = 2
    MaximumPendingCallRequests = 2
    WalletTxs <- MCWalletTxs
    Funding = {"a", "f"}
    Worth <- MCWorth
    MinValues = {330, 1000}
    UtxoLimit = 2
    Scenarios <- MCScenarios
SPECIFICATION Spec
INVARIANTS TipAgrees SubscribersTold AnswersExplained RequestsSettled WalletExplained
CHECK_DEADLOCK FALSE
