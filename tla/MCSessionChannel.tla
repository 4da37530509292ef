-------------------------- MODULE MCSessionChannel --------------------------
(***************************************************************************)
(* Small instances of SessionChannel for TLC.                              *)
(***************************************************************************)
EXTENDS SessionChannel, TLC

\* In one session both sides talk; in every other one of them says its identity at
\* most, and its frames are foreign to the first.
OneTalks ==
    \E s \in Session : \A t \in Session \ {s} : \E r \in Role : Len(said[t][r]) <= 1

Interchangeable == Permutations(Session) \cup Permutations(Text)

=============================================================================
