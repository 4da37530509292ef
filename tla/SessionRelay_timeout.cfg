\* A full queue ends the maintenance task; no symmetry.
CONSTANTS
    Conn = {c1, c2}
    Token = {t1, t2}
    RoomId = {r1}
    PairId = {p1}
    SessionId = {s1}
    None = None
SPECIFICATION FairSpec
PROPERTIES HandshakeTimeoutReleases
