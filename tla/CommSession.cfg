CONSTANTS
    Client = {c1, c2}
    Session = {1, 2}
    Text = {t1}
    CounterMax = 4
    MaxTexts = 1
    MaxFaults = 1
    FaultyPairs = 1
SYMMETRY Interchangeable
SPECIFICATION Spec
CHECK_DEADLOCK FALSE
INVARIANTS TypeOK ShownInOrder NoZombieComms NoFalseAlarms
CONSTRAINT SecondIsMet
