\* Three users under one comm phrase: dying connections, leases, maintenance,
\* rotation.  FewLeases bounds leases, full queues and passed deadlines.
CONSTANTS
    Conn = {c1, c2, c3}
    Token = {t1, t2, t3}
    RoomId = {r1}
    PairId = {p1}
    SessionId = {s1}
    None = None
SYMMETRY Interchangeable
SPECIFICATION Spec
CONSTRAINT FewLeases
INVARIANTS TypeOK RoutesMatchConnections RoomsMatchConnections DisplaysAreReserved NothingRefersToTheDead PhraseServesOnce ClientsAreToldTheTruth
