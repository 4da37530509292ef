--------------------------- MODULE SessionChannel ---------------------------
(***************************************************************************)
(* The two ends of every session, with a relay between them that may lose, *)
(* repeat, reorder, damage and misdeliver frames.  What the counters, the  *)
(* directions and the identity gate of LiveSessionChannel make of such a   *)
(* network is the FIFO conversation of module Conversation.                *)
(***************************************************************************)
EXTENDS LiveSessionChannel, Sequences

VARIABLES
    channel,    \* channel[s][r]: the LiveSessionChannel of role r in session s
    network,    \* every frame that was ever encrypted
    said,       \* history: the events encrypted by role r in session s
    heard       \* history: the events role r decrypted in session s

vars == <<channel, network, said, heard>>

Init ==
    /\ channel = [s \in Session |-> [r \in Role |-> NewChannel(s, r)]]
    /\ network = {}
    /\ said = [s \in Session |-> [r \in Role |-> <<>>]]
    /\ heard = [s \in Session |-> [r \in Role |-> <<>>]]

\* encrypt_identity, encrypt_text, encrypt_close
Encrypt(s, r, e) ==
    LET ch == channel[s][r]
    IN  /\ MayEncrypt(ch, e)
        /\ channel' = [channel EXCEPT ![s][r] = AfterEncrypt(ch, e)]
        /\ network' = network \cup {Encrypted(ch, e)}
        /\ said' = [said EXCEPT ![s][r] = Append(@, e)]
        /\ UNCHANGED heard

\* decrypt_frame, called with a frame the channel accepts.
Decrypt(s, r, f) ==
    LET ch == channel[s][r]
    IN  /\ Usable(ch)
        /\ Opens(ch, f)
        /\ channel' = [channel EXCEPT ![s][r] = AfterDecrypt(ch, f)]
        /\ heard' = [heard EXCEPT ![s][r] = Append(@, f.event)]
        /\ UNCHANGED <<network, said>>

\* decrypt_frame: a repeated, early, foreign or damaged frame ends the session.
Reject(s, r, f) ==
    LET ch == channel[s][r]
    IN  /\ Usable(ch)
        /\ ~Opens(ch, f)
        /\ channel' = [channel EXCEPT ![s][r] = AfterDecrypt(ch, f)]
        /\ UNCHANGED <<network, said, heard>>

\* The client discards its channel: session_close, lost connection, timeout.
Abandon(s, r) ==
    /\ Usable(channel[s][r])
    /\ channel' = [channel EXCEPT ![s][r] = Discard(channel[s][r])]
    /\ UNCHANGED <<network, said, heard>>

\* What may be delivered: any frame there ever was, or one with its body damaged.
Deliverable == network \cup {[f EXCEPT !.event = Garbage] : f \in network}

Next ==
    \E s \in Session, r \in Role :
        \/ \E e \in Event : Encrypt(s, r, e)
        \/ \E f \in Deliverable : Decrypt(s, r, f) \/ Reject(s, r, f)
        \/ Abandon(s, r)

Spec == Init /\ [][Next]_vars

-----------------------------------------------------------------------------
(* Correctness *)

\* The channels, frames and histories have the types of the code's classes.
TypeOK ==
    /\ channel \in [Session -> [Role -> Channel]]
    /\ \A s \in Session, r \in Role :
          channel[s][r].session = s /\ channel[s][r].role = r
    /\ network \subseteq Frame
    /\ said \in [Session -> [Role -> Seq(Event)]]
    /\ heard \in [Session -> [Role -> Seq(Event)]]

\* A key never encrypts two payloads with one nonce (direction and counter),
\* although discard() sets the counters back to zero (sessions.py 532-560).
NonceUsedOnce ==
    \A f, g \in network :
        f.session = g.session /\ f.from = g.from /\ f.counter = g.counter => f = g

\* Neither side's user writes to a peer it has not identified: text is only
\* encrypted after both identities crossed, so what a side says starts with its
\* own identity and its peer's was heard (sessions.py 471-477, 568-579).
TextsAreBetweenAcquaintances ==
    \A f \in network : f.event \in Text =>
        /\ said[f.session][f.from][1] = Identity
        /\ heard[f.session][f.from] # <<>>
        /\ heard[f.session][f.from][1] = Identity

Talk ==
    INSTANCE Conversation WITH
        Side <- Role,
        over <- [s \in Session |-> [r \in Role |-> channel[s][r].discarded]]

\* Whatever the network does, the two ends of a session hold a conversation:
\* in order, without repetition or gap, identities first (sessions.py 459-588).
IsConversation == Talk!Spec

=============================================================================
