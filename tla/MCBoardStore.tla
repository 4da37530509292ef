---------------------------- MODULE MCBoardStore ----------------------------
(***************************************************************************)
(* Small instances of BoardStore for TLC.  Message IDs are the numbers     *)
(* SQLite would order them by; tokens and generations are model values     *)
(* that the store only compares, so permuting them changes nothing.        *)
(***************************************************************************)
EXTENDS BoardStore, TLC

Interchangeable == Permutations(Token) \cup Permutations(Generation)

=============================================================================
