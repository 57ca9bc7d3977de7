SPECIFICATION QueueSpec
CONSTANTS
    caller1 = caller1
    caller2 = caller2
    insert = insert
    update = update
    delete = delete
    Callers <- MCCallers
    Queries <- MCQueries
    MaxIssued = 4
INVARIANTS ExecutedInOrder
PROPERTIES EventuallyExecuted
