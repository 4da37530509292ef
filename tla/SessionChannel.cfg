\* Two sessions, one text, three frames a direction and session.
CONSTANTS
    Session = {s1, s2}
    Text = {t1}
    CounterMax = 2
SYMMETRY Interchangeable
SPECIFICATION Spec
CHECK_DEADLOCK FALSE
INVARIANTS TypeOK NonceUsedOnce TextsAreBetweenAcquaintances
PROPERTIES IsConversation
CONSTRAINT OneTalks
