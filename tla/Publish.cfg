\* The queue under every environment: receipts, finality, the promise, progress.
SPECIFICATION FairSpec
CONSTANTS
    LastRecord = 3
    Packs = {2}
    Target <- PackAndRemotes
    Resolvable = {1, 3}
    Environments <- AnyWeek
    NoChannel = NoChannel
    MaxReceipts = 3
    MaxReloads = 2
INVARIANTS ReceiptsTrue PublicationIsFinal
PROPERTIES KeepsPromise ReadyGetsPublished
