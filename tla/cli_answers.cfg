CONSTANTS
    Clients = {c1, c2}
    UserActions = {}
    Pages <- MCPages
    MaxFailures = 0
SPECIFICATION Spec
CHECK_DEADLOCK FALSE
PROPERTIES
    StartedIsAnswered
