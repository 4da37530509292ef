CONSTANTS
    Client = {c1, c2}
    Session = {1}
    Text = {t1}
    CounterMax = 4
    MaxTexts = 1
    MaxFaults = 0
    FaultyPairs = 1
SYMMETRY Interchangeable
SPECIFICATION Spec
CHECK_DEADLOCK FALSE
INVARIANTS UsersStayConnected
