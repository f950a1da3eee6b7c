SPECIFICATION StoreSpec
CONSTANTS
    MaxIndex = 3
    MaxSnapshots = 3
    MaxUnsynced = 3
    RetainCount = 2
INVARIANT SnapshotMatchesLabel
