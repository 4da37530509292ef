--------------------------- MODULE MCCommSession ----------------------------
(***************************************************************************)
(* Small instances of CommSession for TLC.                                 *)
(***************************************************************************)
EXTENDS CommSession

\* The second comm is there to be met by what the first one left behind: nobody
\* writes in it or ends it; after a fault it is followed until one member has the
\* proof of the other, and cancelled only while the first route lives.
SecondIsMet ==
    \A c \in Client :
        /\ client[c].comm = 2 => client[c].ui = "comm"
        /\ faults # 0 /\ client[c].taskPair = 2
              => client[c].task \in {"proving", "proof", "failed"}
        /\ faults # 0 /\ made # 0 /\ route[1] = NoRoute
              => client[c].ui \notin {"cancelling", "settling"}

Interchangeable == Permutations(Client)

=============================================================================
