CONSTANTS
    Clients = {c1, c2}
    UserActions = {u1}
    Pages <- MCPages
    MaxFailures = 1
SPECIFICATION Spec
CHECK_DEADLOCK FALSE
INVARIANTS
    TypeOK
    OneActionAtATime
    AnswerOfRunningCommand
    ExitMeansHandled
    ListensToTheName
