SPECIFICATION MCSpec
CONSTANTS
    Tasks <- MCTasks
    writing <- MCClient
    reading <- MCServer
    random <- MCRandom
    Edits <- MCEdits
    MaxEdits = 3
    query_interval = 2
    query_timeout = 3
    MaxQueries = 2
    MaxOut = 2
INVARIANTS
    
    Reassembled
    
    AnswersTrue
PROPERTIES
    Resolved
CHECK_DEADLOCK FALSE
