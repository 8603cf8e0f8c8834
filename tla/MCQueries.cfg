SPECIFICATION Spec
CONSTANTS
    ColumnTypes <- MCColumnTypes
    Indexes <- MCIndexes
    Put <- MCPut
    MaxRows <- MCMaxRows
    Statements <- MCStatements
    View <- MCView
    HashBudget = 1
    SortMemory = 2
INVARIANTS
    JoinExact
    SubqueryExact
    PartitionsExact
    AnswerExact
