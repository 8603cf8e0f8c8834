SPECIFICATION Spec
CONSTANTS
    ColumnTypes <- MCColumnTypes
    Indexes <- MCIndexes
    Sessions = {"one"}
    Loaded <- MCLoaded
    RowValues <- MCRowValues
    Queries <- MCQueries
    Copied <- MCCopied
    MaxChanges = 2
    BlockSize = 2
    ParallelRows = 4
    Threads = 2
INVARIANTS
    ColumnsFresh
    SameAsRowEngine
