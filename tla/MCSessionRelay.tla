--------------------------- MODULE MCSessionRelay ---------------------------
(***************************************************************************)
(* Small instances of SessionRelay for TLC.  Connections and all the IDs   *)
(* are only compared, so each kind is interchangeable in the safety runs.  *)
(***************************************************************************)
EXTENDS SessionRelay, TLC

Interchangeable ==
    Permutations(Conn) \cup Permutations(Token) \cup Permutations(RoomId)
        \cup Permutations(PairId)

\* At most one deadline has passed and at most one token is leased or queue full at
\* a time; a rotation begins without leases, passed deadlines and silently dropped
\* rooms.
FewLeases ==
    IF rotating THEN leased = {} /\ overdue = {} /\ dropped = {}
    ELSE Cardinality(leased) + Cardinality(full) <= 1 /\ Cardinality(overdue) <= 1

=============================================================================
