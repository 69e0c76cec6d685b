\* Prefix-free keys: the byte-level scans agree with the set of versions.
CONSTANTS
    Keys <- SomeKeys
    ScanPrefixes <- SomePrefixes
    Values = {v1}
    Tombstone = Tombstone
    Nothing = Nothing
    Base = 2
    Width = 2
    MaxVersions = 4
SPECIFICATION Spec
INVARIANTS DbHoldsVersions ReadsAgree
