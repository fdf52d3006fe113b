SPECIFICATION ProgressFairSpec
CONSTANTS
    worker1 = worker1
    c1 = c1
    c2 = c2
    Space = "_"
    Letters <- MCLetters
    MaxLength = 5

    
PROPERTIES
    ServerDelivers RegistrationFollows EverythingEnds
CHECK_DEADLOCK FALSE
