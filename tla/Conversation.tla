---------------------------- MODULE Conversation ----------------------------
(***************************************************************************)
(* What two users of a comm are promised: each hears a prefix of what the  *)
(* other said, in order and once; identities come first; nothing is said   *)
(* or heard by a side that is over.  Sessions do not mix.                  *)
(***************************************************************************)
EXTENDS Naturals, Sequences

CONSTANTS Session, Side, Text

VARIABLES
    said,     \* said[s][r]: the events of side r in session s
    heard,    \* heard[s][r]: the events side r accepted from the other side
    over      \* over[s][r]: side r neither speaks nor listens any more

conversationVars == <<said, heard, over>>

\* A side speaks text only when it has named itself and heard the other's name.
MaySay(s, r, e) ==
    /\ ~over[s][r]
    /\ e = "identity" => said[s][r] = <<>>
    /\ e \in Text => said[s][r] # <<>> /\ heard[s][r] # <<>>

Init ==
    /\ said = [s \in Session |-> [r \in Side |-> <<>>]]
    /\ heard = [s \in Session |-> [r \in Side |-> <<>>]]
    /\ over = [s \in Session |-> [r \in Side |-> FALSE]]

Say(s, r, e) ==
    /\ MaySay(s, r, e)
    /\ said' = [said EXCEPT ![s][r] = Append(@, e)]
    /\ over' = [over EXCEPT ![s][r] = (e = "close")]
    /\ UNCHANGED heard

\* The next event of the other side, and no other.
Hear(s, r, q) ==
    LET n == Len(heard[s][r]) + 1
    IN  /\ ~over[s][r]
        /\ q # r
        /\ n <= Len(said[s][q])
        /\ heard' = [heard EXCEPT ![s][r] = Append(@, said[s][q][n])]
        /\ over' = [over EXCEPT ![s][r] = (said[s][q][n] = "close")]
        /\ UNCHANGED said

GiveUp(s, r) ==
    /\ ~over[s][r]
    /\ over' = [over EXCEPT ![s][r] = TRUE]
    /\ UNCHANGED <<said, heard>>

Next ==
    \E s \in Session, r \in Side :
        \/ \E e \in {"identity", "close"} \cup Text : Say(s, r, e)
        \/ \E q \in Side : Hear(s, r, q)
        \/ GiveUp(s, r)

Spec == Init /\ [][Next]_conversationVars

=============================================================================
