--------------------------- MODULE MCServerAccess ----------------------------
(***************************************************************************)
(* Small instances of ServerAccess for TLC.                                *)
(***************************************************************************)
EXTENDS ServerAccess, TLC

Interchangeable == Permutations(Server) \cup Permutations(Conn) \cup Permutations(Inode)

\* What follows a race is not of interest here.  A backup is met by a crash or by
\* two processes, not by both.
UntilRaced ==
    /\ ~raced
    /\ backup # NoBackup => crashes = 0 \/ \E s \in Server : server[s].step = "off"

=============================================================================
