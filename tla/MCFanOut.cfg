SPECIFICATION Spec
CONSTANTS
    N = 2
    Bags = {b1}
    Key = Key
    Profile = Profile
    MaxChanges = 3
INVARIANTS
    TypeOK
    NotFoundIsTrue
    NothingInvented
    CompleteIfSettled
    ListedOnce
    HealthIsTrue
CHECK_DEADLOCK FALSE
