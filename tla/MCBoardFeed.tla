---------------------------- MODULE MCBoardFeed -----------------------------
(***************************************************************************)
(* Small instances of BoardFeed for TLC.  Clients are only compared, so    *)
(* they are interchangeable in the safety runs.                            *)
(***************************************************************************)
EXTENDS BoardFeed, TLC

\* The relay starts with a record of an earlier lifetime, which loses every tie:
\* SQLite breaks ties by ID, so a post of the same second on a full board is
\* the oldest record itself.
InheritedRecord == Cardinality(MessageId) \in seenIds

\* The board gets crowded or old, not both: a state in which every ID is used
\* and the last second has begun is followed no further.
CrowdedOrOld == now + Cardinality(seenIds) < MaxTime + Cardinality(MessageId)

\* Without its maintenance the feed does what it did before, only without that
\* action: states with a dead task are checked and followed no further.
BoardMaintained == maintained

Interchangeable == Permutations(Client)

=============================================================================
