SPECIFICATION Spec
CONSTANTS
    LastId = 3
    Threads = {mapper, closer}
    mapper = mapper
    closer = closer
    NULL = NULL
    Searches = {"loop", "merge"}
    Enough = 2
    SmallMap = 2
PROPERTIES NotErasedWhileProcessed
CHECK_DEADLOCK FALSE
