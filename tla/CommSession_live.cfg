CONSTANTS
    Client = {c1, c2}
    Session = {1}
    Text = {t1}
    CounterMax = 4
    MaxTexts = 1
    MaxFaults = 0
    FaultyPairs = 1
SPECIFICATION FairSpec
CHECK_DEADLOCK FALSE
PROPERTIES EndedCommsClose SetupsEnd HubIsFree
